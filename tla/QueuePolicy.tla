---------------------------- MODULE QueuePolicy ----------------------------
(***************************************************************************)
(* The pure functions of src/src/queue.rs: lifecycle, eligibility,         *)
(* ordering and lease authority.  Strings are abstracted: a job_id is a    *)
(* number (only its order matters), an os/arch/profile triple is one       *)
(* platform, a trust tier is its rank.                                     *)
(***************************************************************************)
EXTENDS Naturals

Terminal == {"Succeeded", "Failed", "Cancelled", "Expired"}
QueueStates == {"Queued", "Claimed", "Running"} \cup Terminal

CanTransitionTo(s, next) ==
  \/ s = "Queued" /\ next \in {"Claimed", "Cancelled", "Expired"}
  \/ s = "Claimed" /\ next \in {"Running", "Queued", "Cancelled", "Expired"}
  \/ s = "Running" /\ next \in Terminal

---------------------------------------------------------------------------
(* check_eligibility(requirements r, worker w) with w's active jobs. *)
OneTooMany(w, active) == w.max_concurrency > 0 /\ active <= w.max_concurrency  \* mutant: `>` for `>=`
HasCapacity(w, active) == w.max_concurrency > 0 /\ active < w.max_concurrency

Capable(r, w) ==
  /\ r.platform = w.platform
  /\ r.runtime \in {"any", w.runtime}
  /\ r.features \subseteq w.features
  /\ r.minimum_trust_tier <= w.trust_tier

Eligible(r, w, active) == HasCapacity(w, active) /\ Capable(r, w)

---------------------------------------------------------------------------
(* effective_priority: saturating age, a zero step counts as one second,   *)
(* the boost is capped.                                                    *)
Lesser(m, n) == IF m <= n THEN m ELSE n
Age(c, now) == IF now >= c.enqueued_at THEN now - c.enqueued_at ELSE 0

AgeStep(policy) == IF policy.age_step = 0 THEN 1 ELSE policy.age_step

EffectivePriority(c, now, policy) ==
  c.base_priority + Lesser(Age(c, now) \div AgeStep(policy), policy.max_age_boost)

(* compare_candidates(a, b) = Less: a is scheduled before b. *)
LowerWins(pa, pb) == pa < pb    \* mutant: a.cmp(b) for b.cmp(a)
HigherWins(pa, pb) == pa > pb

ScheduledBefore(a, b, now, policy) ==
  LET pa == EffectivePriority(a, now, policy)
      pb == EffectivePriority(b, now, policy)
  IN \/ HigherWins(pa, pb)
     \/ pa = pb /\ a.available_at < b.available_at
     \/ pa = pb /\ a.available_at = b.available_at /\ a.job_id < b.job_id

(* select_next: min_by keeps the first candidate none of the others beats; *)
(* the slice is a set here, which SelectionIsUnique justifies.             *)
SelectNext(candidates, w, active, now, policy) ==
  LET ready == {c \in candidates : c.available_at <= now /\ Eligible(c.requirements, w, active)}
  IN {c \in ready : \A d \in ready : ~ScheduledBefore(d, c, now, policy)}

---------------------------------------------------------------------------
(* LeaseAuthority.  The three counters are fixed-width and `reclaim`       *)
(* answers None rather than wrapping.                                      *)
InitialAuthority == [generation |-> 1, fencing_token |-> 1, attempt |-> 1]

CanReclaim(a, counterMax, attemptMax) ==
  a.generation < counterMax /\ a.fencing_token < counterMax /\ a.attempt < attemptMax

Reclaimed(a) ==
  [generation |-> a.generation + 1, fencing_token |-> a.fencing_token + 1,
   attempt |-> a.attempt + 1]

AuthorizesAnyone(current, presented) == TRUE   \* mutant: nothing is compared
Authorizes(current, presented) ==
  /\ current.generation = presented.generation
  /\ current.fencing_token = presented.fencing_token
  /\ current.attempt = presented.attempt
===========================================================================
