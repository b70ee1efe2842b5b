------------------------------ MODULE JobQueue ------------------------------
(***************************************************************************)
(* The pull-worker queue that src/src/queue.rs is the policy of.  The      *)
(* database adapter and the workers are external: the adapter is modelled  *)
(* from the header ("semantics that database adapters must preserve when   *)
(* they implement atomic claims", lines 3-5) and the tests.  It reads the  *)
(* queued rows, calls select_next, and later claims the row it chose if    *)
(* the lifecycle still allows it; in between other workers claim, rows are *)
(* cancelled and leases run out.  Workers report over a network that       *)
(* delays, repeats and loses messages: any grant a worker ever received    *)
(* may be presented again at any time.                                     *)
(***************************************************************************)
EXTENDS QueuePolicy, FiniteSets

CONSTANTS
  Jobs,        \* job ids: a set of numbers, their order breaks ties
  Workers,
  Nobody, Queue, NoJob,
  Priority, Requirements, \* of each job
  Profile,     \* of each worker: platform, runtime, features, trust_tier, max_concurrency
  Policy,      \* SchedulingPolicy
  CounterMax, AttemptMax, \* largest u64 and u32 of the lease counters
  Backoff,     \* seconds a requeued job is held back
  MaxNow       \* bound on time

ASSUME QueueAssumption ==
  /\ Jobs \subseteq Nat /\ IsFiniteSet(Jobs)
  /\ Nobody \notin Workers /\ Queue \notin Workers \cup {Nobody} /\ NoJob \notin Jobs
  /\ Priority \in [Jobs -> Nat]
  /\ \A w \in Workers : Profile[w].max_concurrency \in Nat
  /\ Policy \in [age_step : Nat, max_age_boost : Nat]
  /\ CounterMax \in Nat /\ AttemptMax \in Nat
  /\ CounterMax >= 1 /\ AttemptMax >= 1
  /\ Backoff \in Nat /\ MaxNow \in Nat

VARIABLES
  now,
  state,        \* per job: QueueState, or "absent" before it is enqueued
  enqueued_at, available_at,
  authority,    \* per job: the LeaseAuthority its row holds
  claimed_by,   \* per job: the worker its row names, or Nobody
  chosen,       \* per worker: the job select_next answered, not yet claimed
  granted,      \* claims that reached their worker: [worker, job, authority]
  starter, decider  \* history: whose report started and ended each job

vars == <<now, state, enqueued_at, available_at, authority, claimed_by, chosen,
          granted, starter, decider>>

Authorities ==
  [generation : 1 .. CounterMax, fencing_token : 1 .. CounterMax, attempt : 1 .. AttemptMax]

TypeOK ==
  /\ now \in 0 .. MaxNow
  /\ state \in [Jobs -> QueueStates \cup {"absent"}]
  /\ enqueued_at \in [Jobs -> 0 .. MaxNow]
  /\ available_at \in [Jobs -> 0 .. MaxNow + Backoff]
  /\ authority \in [Jobs -> Authorities]
  /\ claimed_by \in [Jobs -> Workers \cup {Nobody}]
  /\ chosen \in [Workers -> Jobs \cup {NoJob}]
  /\ granted \subseteq [worker : Workers, job : Jobs, authority : Authorities]
  /\ starter \in [Jobs -> Workers \cup {Nobody}]
  /\ decider \in [Jobs -> Workers \cup {Nobody, Queue}]

Init ==
  /\ now = 0
  /\ state = [j \in Jobs |-> "absent"]
  /\ enqueued_at = [j \in Jobs |-> 0]
  /\ available_at = [j \in Jobs |-> 0]
  /\ authority = [j \in Jobs |-> InitialAuthority]
  /\ claimed_by = [j \in Jobs |-> Nobody]
  /\ chosen = [w \in Workers |-> NoJob]
  /\ granted = {}
  /\ starter = [j \in Jobs |-> Nobody]
  /\ decider = [j \in Jobs |-> Nobody]

---------------------------------------------------------------------------
Candidate(j) ==
  [job_id |-> j, base_priority |-> Priority[j], enqueued_at |-> enqueued_at[j],
   available_at |-> available_at[j], requirements |-> Requirements[j]]

Queued == {j \in Jobs : state[j] = "Queued"}
ActiveJobs(w) ==
  {j \in Jobs : claimed_by[j] = w /\ state[j] \in {"Claimed", "Running"}}

Enqueue(j) ==
  /\ state[j] = "absent"
  /\ state' = [state EXCEPT ![j] = "Queued"]
  /\ enqueued_at' = [enqueued_at EXCEPT ![j] = now]
  /\ available_at' = [available_at EXCEPT ![j] = now]
  /\ UNCHANGED <<now, authority, claimed_by, chosen, granted, starter, decider>>

(* A worker asks for work; a worker has one request under way at a time.   *)
Poll(w) ==
  /\ chosen[w] = NoJob
  /\ \E c \in SelectNext({Candidate(j) : j \in Queued}, Profile[w],
                         Cardinality(ActiveJobs(w)), now, Policy) :
       chosen' = [chosen EXCEPT ![w] = c.job_id]
  /\ UNCHANGED <<now, state, enqueued_at, available_at, authority, claimed_by,
                 granted, starter, decider>>

(* The atomic claim.  The answer to the worker may be lost. *)
Claim(w) ==
  LET j == chosen[w]
  IN /\ j # NoJob
     /\ chosen' = [chosen EXCEPT ![w] = NoJob]
     /\ IF CanTransitionTo(state[j], "Claimed")
        THEN /\ state' = [state EXCEPT ![j] = "Claimed"]
             /\ claimed_by' = [claimed_by EXCEPT ![j] = w]
             /\ \E delivered \in BOOLEAN :
                  granted' = IF delivered
                             THEN granted \cup {[worker |-> w, job |-> j, authority |-> authority[j]]}
                             ELSE granted
        ELSE UNCHANGED <<state, claimed_by, granted>>
     /\ UNCHANGED <<now, enqueued_at, available_at, authority, starter, decider>>

(* A report made under a grant, acted on only when the row's authority     *)
(* authorizes it and the lifecycle allows the step.                        *)
Accepts(g, next) ==
  Authorizes(authority[g.job], g.authority) /\ CanTransitionTo(state[g.job], next)

ReportStart(g) ==
  /\ Accepts(g, "Running")
  /\ state' = [state EXCEPT ![g.job] = "Running"]
  /\ starter' = [starter EXCEPT ![g.job] = g.worker]
  /\ UNCHANGED <<now, enqueued_at, available_at, authority, claimed_by, chosen, granted, decider>>

ReportOutcome(g, outcome) ==
  /\ Accepts(g, outcome)
  /\ state' = [state EXCEPT ![g.job] = outcome]
  /\ decider' = [decider EXCEPT ![g.job] = g.worker]
  /\ UNCHANGED <<now, enqueued_at, available_at, authority, claimed_by, chosen, granted, starter>>

(* The lease of a claimed job runs out: back to the queue, by reclaim      *)
(* semantics.  Its worker is not told.                                     *)
Requeue(j) ==
  /\ CanTransitionTo(state[j], "Queued")
  /\ CanReclaim(authority[j], CounterMax, AttemptMax)
  /\ authority' = [authority EXCEPT ![j] = Reclaimed(authority[j])]
  /\ state' = [state EXCEPT ![j] = "Queued"]
  /\ available_at' = [available_at EXCEPT ![j] = now + Backoff]
  /\ claimed_by' = [claimed_by EXCEPT ![j] = Nobody]
  /\ UNCHANGED <<now, enqueued_at, chosen, granted, starter, decider>>

(* A user cancels, or the queue gives up. *)
Close(j, end) ==
  /\ CanTransitionTo(state[j], end)
  /\ state' = [state EXCEPT ![j] = end]
  /\ decider' = [decider EXCEPT ![j] = Queue]
  /\ UNCHANGED <<now, enqueued_at, available_at, authority, claimed_by, chosen, granted, starter>>

Tick ==
  /\ now < MaxNow
  /\ now' = now + 1
  /\ UNCHANGED <<state, enqueued_at, available_at, authority, claimed_by, chosen,
                 granted, starter, decider>>

Drained ==
  /\ now = MaxNow /\ \A j \in Jobs : state[j] \in Terminal
  /\ UNCHANGED vars

Next ==
  \/ \E j \in Jobs : Enqueue(j) \/ Requeue(j) \/ Close(j, "Cancelled") \/ Close(j, "Expired")
  \/ \E w \in Workers : Poll(w) \/ Claim(w)
  \/ \E g \in granted :
       ReportStart(g) \/ ReportOutcome(g, "Succeeded") \/ ReportOutcome(g, "Failed")
  \/ Tick
  \/ Drained

Spec == Init /\ [][Next]_vars

---------------------------------------------------------------------------
(* However grants are delayed, repeated and lost, at most one worker's     *)
(* grant is good for a job, and it is the worker the row names.            *)
OneAuthorizedWorker ==
  \A g \in granted :
    Authorizes(authority[g.job], g.authority) => claimed_by[g.job] = g.worker

(* The outcome a job ends with was reported by the worker that started it, *)
(* which is the worker it was last granted to; nothing stale publishes     *)
(* (queue.rs test stale_lease_cannot_publish_after_reclaim).               *)
OutcomeFromItsRunner ==
  \A j \in Jobs :
    state[j] \in {"Succeeded", "Failed"} =>
      decider[j] \in Workers /\ decider[j] = starter[j] /\ starter[j] = claimed_by[j]

(* A job whose work began is never handed to another worker. *)
NeverRunTwice ==
  \A j \in Jobs : starter[j] # Nobody => state[j] \notin {"Queued", "Claimed"}

(* No worker is given more than it said it can run, although it learns of  *)
(* a claim only after the queue counted it.                                *)
WithinCapacity ==
  \A w \in Workers : Cardinality(ActiveJobs(w)) <= Profile[w].max_concurrency

(* Aging never lets a job overtake one that has waited at least as long    *)
(* and was at least as urgent from the start: no poll passes over the      *)
(* senior of two jobs the worker could run.                                *)
Senior(a, b) ==
  /\ Priority[a] >= Priority[b] /\ enqueued_at[a] <= enqueued_at[b]
  /\ available_at[a] <= available_at[b]
  /\ Priority[a] > Priority[b] \/ available_at[a] < available_at[b] \/ a < b

SeniorsFirst ==
  [][\A w \in Workers, a, b \in Jobs :
       /\ a \in Queued /\ available_at[a] <= now /\ Capable(Requirements[a], Profile[w])
       /\ Senior(a, b)
       => ~(chosen[w] = NoJob /\ chosen'[w] = b)]_vars

(* The queue keeps the promise of ExclusiveJobs. *)
Promise == INSTANCE ExclusiveJobs WITH assignee <- claimed_by
ImplementsExclusiveJobs == Promise!Spec
===========================================================================
