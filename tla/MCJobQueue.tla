---------------------------- MODULE MCJobQueue ----------------------------
(* Two jobs for two workers; job 3 needs podman and more trust, which only *)
(* w1 offers, and aging may lift job 1 over it.                            *)
EXTENDS JobQueue

CONSTANTS w1, w2

Plain == [platform |-> "linux", runtime |-> "any", features |-> {"rust"}, minimum_trust_tier |-> 1]
Guarded == [Plain EXCEPT !.runtime = "podman", !.minimum_trust_tier = 2]

MCPriority == [j \in Jobs |-> IF j = 3 THEN 11 ELSE 10]
MCRequirements == [j \in Jobs |-> IF j = 3 THEN Guarded ELSE Plain]
MCProfile ==
  [w \in Workers |->
    [platform |-> "linux", runtime |-> IF w = w1 THEN "podman" ELSE "docker",
     features |-> {"rust", "oci"}, trust_tier |-> 2, max_concurrency |-> 1]]
MCPolicy == [age_step |-> 0, max_age_boost |-> 1]
===========================================================================
