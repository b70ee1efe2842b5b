--------------------------- MODULE JobQueue_proof ---------------------------
(***************************************************************************)
(* Theorems about the queue, for any jobs, workers, profiles and policy:   *)
(* the order of candidates is a strict total order, so what select_next    *)
(* answers does not depend on the order of its slice; and QueueInvariant,  *)
(* the inductive invariant behind the safety properties and the            *)
(* refinement of ExclusiveJobs.                                            *)
(***************************************************************************)
EXTENDS JobQueue, FiniteSetTheorems, TLAPS

Candidates ==
  [job_id : Nat, base_priority : Nat, enqueued_at : Nat, available_at : Nat,
   requirements : {Requirements[j] : j \in Jobs}]

Policies == [age_step : Nat, max_age_boost : Nat]

(* Aging yields a number, whatever the clock and the policy say. *)
LEMMA PriorityIsNat ==
  ASSUME NEW c \in Candidates, NEW t \in Nat, NEW p \in Policies
  PROVE  EffectivePriority(c, t, p) \in Nat
<1>1. Age(c, t) \in Nat
  BY DEF Age, Candidates
<1>2. AgeStep(p) \in Nat \ {0}
  BY DEF AgeStep, Policies
<1>3. Age(c, t) \div AgeStep(p) \in Nat
  BY <1>1, <1>2
<1>4. p.max_age_boost \in Nat /\ c.base_priority \in Nat
  BY DEF Policies, Candidates
<1> QED
  BY <1>3, <1>4 DEF EffectivePriority, Lesser

(* compare_candidates never ties two jobs, never answers Less both ways,   *)
(* and is transitive: it is a strict total order at any one time.          *)
THEOREM CompareIsTotalOrder ==
  ASSUME NEW t \in Nat, NEW p \in Policies,
         NEW a \in Candidates, NEW b \in Candidates, NEW c \in Candidates
  PROVE  /\ ~(ScheduledBefore(a, b, t, p) /\ ScheduledBefore(b, a, t, p))
         /\ ScheduledBefore(a, b, t, p) /\ ScheduledBefore(b, c, t, p)
              => ScheduledBefore(a, c, t, p)
         /\ a.job_id # b.job_id
              => ScheduledBefore(a, b, t, p) \/ ScheduledBefore(b, a, t, p)
<1>1. /\ EffectivePriority(a, t, p) \in Nat
      /\ EffectivePriority(b, t, p) \in Nat
      /\ EffectivePriority(c, t, p) \in Nat
  BY PriorityIsNat
<1>2. /\ a.available_at \in Nat /\ b.available_at \in Nat /\ c.available_at \in Nat
      /\ a.job_id \in Nat /\ b.job_id \in Nat /\ c.job_id \in Nat
  BY DEF Candidates
<1> QED
  BY <1>1, <1>2 DEF ScheduledBefore, HigherWins

(* select_next has at most one answer: candidates with distinct ids cannot *)
(* both be minimal, so the order of the rows does not matter.              *)
THEOREM SelectionIsUnique ==
  ASSUME NEW S \in SUBSET Candidates, NEW w, NEW n, NEW t \in Nat, NEW p \in Policies,
         \A a, b \in S : a.job_id = b.job_id => a = b,
         NEW c \in SelectNext(S, w, n, t, p), NEW d \in SelectNext(S, w, n, t, p)
  PROVE  c = d
<1>1. c \in S /\ d \in S
  BY DEF SelectNext
<1>2. ~ScheduledBefore(d, c, t, p) /\ ~ScheduledBefore(c, d, t, p)
  BY DEF SelectNext
<1>3. c.job_id = d.job_id
  BY <1>1, <1>2, CompareIsTotalOrder
<1> QED
  BY <1>1, <1>3

---------------------------------------------------------------------------
(* What the queue knows of a job follows from its state. *)
RowsAgree ==
  \A j \in Jobs :
    /\ state[j] \in {"absent", "Queued"} => claimed_by[j] = Nobody
    /\ state[j] \in {"Claimed", "Running", "Succeeded", "Failed"} => claimed_by[j] \in Workers
    /\ state[j] \in {"absent", "Queued", "Claimed"} => starter[j] = Nobody
    /\ state[j] \in {"Running", "Succeeded", "Failed"} => starter[j] = claimed_by[j]
    /\ state[j] \notin Terminal => decider[j] = Nobody
    /\ state[j] \in {"Succeeded", "Failed"} => decider[j] = starter[j]

(* No grant is ahead of its row; while the row is unclaimed none is good.  *)
GrantsBehind ==
  \A g \in granted :
    /\ g.authority.generation <= authority[g.job].generation
    /\ state[g.job] \in {"absent", "Queued"}
         => g.authority.generation < authority[g.job].generation

(* A worker that was answered a job still has room for it. *)
RoomForChosen ==
  \A w \in Workers :
    chosen[w] # NoJob => Cardinality(ActiveJobs(w)) < Profile[w].max_concurrency

QueueInvariant ==
  TypeOK /\ RowsAgree /\ GrantsBehind /\ OneAuthorizedWorker /\ RoomForChosen /\ WithinCapacity

LEMMA StatesDiffer ==
  /\ QueueStates = {"Queued", "Claimed", "Running", "Succeeded", "Failed", "Cancelled", "Expired"}
  /\ "absent" \notin QueueStates
BY DEF QueueStates, Terminal

LEMMA SmallerSet ==
  ASSUME NEW S \in SUBSET Jobs, NEW T \in SUBSET S
  PROVE  /\ Cardinality(S) \in Nat /\ Cardinality(T) \in Nat
         /\ Cardinality(T) <= Cardinality(S)
<1>1. IsFiniteSet(S)
  BY QueueAssumption, FS_Subset
<1> QED
  BY <1>1, FS_Subset, FS_CardinalityType

(* A step that hands out no job keeps every worker within its capacity. *)
LEMMA NothingHandedOut ==
  ASSUME RoomForChosen, WithinCapacity, UNCHANGED chosen,
         \A w \in Workers : ActiveJobs(w)' \subseteq ActiveJobs(w)
  PROVE  RoomForChosen' /\ WithinCapacity'
<1>1. ASSUME NEW w \in Workers
      PROVE  /\ Cardinality(ActiveJobs(w)) \in Nat /\ Cardinality(ActiveJobs(w)') \in Nat
             /\ Cardinality(ActiveJobs(w)') <= Cardinality(ActiveJobs(w))
  <2>1. ActiveJobs(w) \in SUBSET Jobs
    BY DEF ActiveJobs
  <2> QED
    BY <2>1, SmallerSet
<1>2. \A w \in Workers : Profile[w].max_concurrency \in Nat
  BY QueueAssumption
<1> QED
  BY <1>1, <1>2 DEF RoomForChosen, WithinCapacity

LEMMA QueueInit == Init => QueueInvariant
<1> SUFFICES ASSUME Init PROVE QueueInvariant
  OBVIOUS
<1>1. TypeOK
  BY QueueAssumption
     DEF Init, TypeOK, Authorities, InitialAuthority, QueueStates
<1>2. RowsAgree /\ GrantsBehind /\ OneAuthorizedWorker
  BY DEF Init, RowsAgree, GrantsBehind, OneAuthorizedWorker, Terminal
<1>3. RoomForChosen
  BY DEF Init, RoomForChosen
<1>4. WithinCapacity
  <2>1. \A w \in Workers : ActiveJobs(w) = {}
    BY DEF Init, ActiveJobs
  <2> QED
    BY <2>1, FS_EmptySet, QueueAssumption DEF WithinCapacity
<1> QED
  BY <1>1, <1>2, <1>3, <1>4 DEF QueueInvariant

---------------------------------------------------------------------------
LEMMA EnqueueKeeps ==
  ASSUME QueueInvariant, NEW j \in Jobs, Enqueue(j)
  PROVE  QueueInvariant'
<1> USE DEF QueueInvariant
<1>1. TypeOK'
  BY QueueAssumption DEF TypeOK, Enqueue, QueueStates
<1>2. RowsAgree'
  BY DEF TypeOK, RowsAgree, Enqueue, Terminal
<1>3. GrantsBehind' /\ OneAuthorizedWorker'
  BY DEF TypeOK, GrantsBehind, OneAuthorizedWorker, Enqueue
<1>4. \A w \in Workers : ActiveJobs(w)' \subseteq ActiveJobs(w)
  BY DEF TypeOK, ActiveJobs, Enqueue
<1> QED
  BY <1>1, <1>2, <1>3, <1>4, NothingHandedOut DEF Enqueue

LEMMA RequeueKeeps ==
  ASSUME QueueInvariant, NEW j \in Jobs, Requeue(j)
  PROVE  QueueInvariant'
<1> USE DEF QueueInvariant
<1>1. authority[j].generation \in Nat /\ Reclaimed(authority[j]) \in Authorities
  BY QueueAssumption DEF TypeOK, Requeue, CanReclaim, Reclaimed, Authorities
<1>2. TypeOK'
  BY <1>1, QueueAssumption DEF TypeOK, Requeue, QueueStates
<1>3. state[j] = "Claimed" /\ state'[j] = "Queued"
  BY DEF TypeOK, Requeue, CanTransitionTo, Terminal
<1>4. RowsAgree'
  BY <1>3 DEF TypeOK, RowsAgree, Requeue, Terminal
<1>5. /\ authority'[j].generation = authority[j].generation + 1
      /\ \A k \in Jobs \ {j} : authority'[k] = authority[k] /\ state'[k] = state[k]
  BY DEF TypeOK, Requeue, Reclaimed
<1>6. \A g \in granted : g.job \in Jobs /\ g.authority.generation \in Nat
  BY DEF TypeOK, Authorities
<1>7. GrantsBehind'
  BY <1>1, <1>5, <1>6 DEF GrantsBehind, Requeue
<1>8. OneAuthorizedWorker'
  <2> SUFFICES ASSUME NEW g \in granted, Authorizes(authority'[g.job], g.authority)
               PROVE  claimed_by'[g.job] = g.worker
    BY DEF OneAuthorizedWorker, Requeue
  <2>1. g.job # j
    BY <1>1, <1>5, <1>6 DEF GrantsBehind, Authorizes
  <2> QED
    BY <2>1, <1>5, <1>6 DEF OneAuthorizedWorker, Requeue, TypeOK
<1>9. \A w \in Workers : ActiveJobs(w)' \subseteq ActiveJobs(w)
  BY <1>3, QueueAssumption DEF TypeOK, ActiveJobs, Requeue
<1> QED
  BY <1>2, <1>4, <1>7, <1>8, <1>9, NothingHandedOut DEF Requeue

LEMMA CloseKeeps ==
  ASSUME QueueInvariant, NEW j \in Jobs, NEW end \in {"Cancelled", "Expired"}, Close(j, end)
  PROVE  QueueInvariant'
<1> USE DEF QueueInvariant
<1>1. TypeOK'
  BY DEF TypeOK, Close, QueueStates, Terminal
<1>2. state[j] \in {"Queued", "Claimed", "Running"}
  BY DEF Close, CanTransitionTo
<1>3. RowsAgree'
  BY <1>2 DEF TypeOK, RowsAgree, Close, Terminal
<1>4. GrantsBehind' /\ OneAuthorizedWorker'
  BY DEF TypeOK, GrantsBehind, OneAuthorizedWorker, Close
<1>5. \A w \in Workers : ActiveJobs(w)' \subseteq ActiveJobs(w)
  BY DEF TypeOK, ActiveJobs, Close
<1> QED
  BY <1>1, <1>3, <1>4, <1>5, NothingHandedOut DEF Close

LEMMA PollKeeps ==
  ASSUME QueueInvariant, NEW w \in Workers, Poll(w)
  PROVE  QueueInvariant'
<1> USE DEF QueueInvariant
<1>1. PICK c \in SelectNext({Candidate(j) : j \in Queued}, Profile[w],
                            Cardinality(ActiveJobs(w)), now, Policy) :
        chosen' = [chosen EXCEPT ![w] = c.job_id]
  BY DEF Poll
<1>2. c.job_id \in Jobs /\ HasCapacity(Profile[w], Cardinality(ActiveJobs(w)))
  BY <1>1 DEF SelectNext, Candidate, Queued, Eligible
<1>3. TypeOK'
  BY <1>1, <1>2 DEF TypeOK, Poll
<1>4. RowsAgree' /\ GrantsBehind' /\ OneAuthorizedWorker'
  BY DEF RowsAgree, GrantsBehind, OneAuthorizedWorker, Poll
<1>5. \A v \in Workers : ActiveJobs(v)' = ActiveJobs(v)
  BY DEF ActiveJobs, Poll
<1>6. RoomForChosen'
  BY <1>1, <1>2, <1>5 DEF RoomForChosen, HasCapacity, TypeOK
<1>7. WithinCapacity'
  BY <1>5 DEF WithinCapacity
<1> QED
  BY <1>3, <1>4, <1>6, <1>7

LEMMA ClaimKeeps ==
  ASSUME QueueInvariant, NEW w \in Workers, Claim(w)
  PROVE  QueueInvariant'
<1> USE DEF QueueInvariant
<1> DEFINE j == chosen[w]
<1>1. j \in Jobs /\ chosen' = [chosen EXCEPT ![w] = NoJob] /\ NoJob \notin Jobs
  BY QueueAssumption DEF TypeOK, Claim
<1>2. CASE ~CanTransitionTo(state[j], "Claimed")
  <2>1. UNCHANGED <<now, state, enqueued_at, available_at, authority, claimed_by, granted,
                    starter, decider>>
    BY <1>2 DEF Claim
  <2>2. TypeOK'
    BY <1>1, <2>1 DEF TypeOK
  <2>3. RowsAgree' /\ GrantsBehind' /\ OneAuthorizedWorker'
    BY <2>1 DEF RowsAgree, GrantsBehind, OneAuthorizedWorker
  <2>4. \A v \in Workers : ActiveJobs(v)' = ActiveJobs(v)
    BY <2>1 DEF ActiveJobs
  <2>5. RoomForChosen' /\ WithinCapacity'
    BY <1>1, <2>4 DEF RoomForChosen, WithinCapacity, TypeOK
  <2> QED
    BY <2>2, <2>3, <2>5
<1>3. CASE CanTransitionTo(state[j], "Claimed")
  <2> DEFINE grant == [worker |-> w, job |-> j, authority |-> authority[j]]
  <2>1. /\ state' = [state EXCEPT ![j] = "Claimed"]
        /\ claimed_by' = [claimed_by EXCEPT ![j] = w]
        /\ granted \subseteq granted' /\ granted' \subseteq granted \cup {grant}
        /\ UNCHANGED <<now, enqueued_at, available_at, authority, starter, decider>>
    BY <1>3 DEF Claim
  <2>2. state[j] = "Queued"
    BY <1>1, <1>3 DEF CanTransitionTo, Terminal, TypeOK
  <2>3. TypeOK'
    <3>1. grant \in [worker : Workers, job : Jobs, authority : Authorities]
      BY <1>1 DEF TypeOK
    <3> HIDE DEF grant
    <3> QED
      BY <1>1, <2>1, <3>1 DEF TypeOK, QueueStates
  <2>4. RowsAgree'
    BY <1>1, <2>1, <2>2, QueueAssumption DEF TypeOK, RowsAgree, Terminal
  <2>5. \A g \in granted : g.job \in Jobs /\ g.authority.generation \in Nat
    BY DEF TypeOK, Authorities
  <2>6. authority[j].generation \in Nat
    BY <1>1 DEF TypeOK, Authorities
  <2>7. GrantsBehind'
    BY <1>1, <2>1, <2>2, <2>5, <2>6 DEF GrantsBehind, TypeOK
  <2>8. OneAuthorizedWorker'
    BY <1>1, <2>1, <2>2, <2>5, <2>6 DEF GrantsBehind, OneAuthorizedWorker, TypeOK, Authorizes
  <2>9. /\ ActiveJobs(w)' \subseteq ActiveJobs(w) \cup {j}
        /\ \A v \in Workers \ {w} : ActiveJobs(v)' \subseteq ActiveJobs(v)
    BY <1>1, <2>1, <2>2 DEF TypeOK, ActiveJobs
  <2>10. ASSUME NEW v \in Workers
         PROVE  Cardinality(ActiveJobs(v)) \in Nat /\ IsFiniteSet(ActiveJobs(v))
    BY QueueAssumption, FS_Subset, FS_CardinalityType DEF ActiveJobs
  <2>11. Cardinality(ActiveJobs(w)') <= Cardinality(ActiveJobs(w)) + 1
    <3>1. IsFiniteSet(ActiveJobs(w) \cup {j})
          /\ Cardinality(ActiveJobs(w) \cup {j}) <= Cardinality(ActiveJobs(w)) + 1
      <4>1. IsFiniteSet(ActiveJobs(w)) /\ Cardinality(ActiveJobs(w)) \in Nat
        BY <2>10
      <4>2. /\ IsFiniteSet(ActiveJobs(w) \cup {j})
            /\ \/ Cardinality(ActiveJobs(w) \cup {j}) = Cardinality(ActiveJobs(w))
               \/ Cardinality(ActiveJobs(w) \cup {j}) = Cardinality(ActiveJobs(w)) + 1
        <5> HIDE DEF j
        <5> QED
          BY <4>1, FS_AddElement
      <4> QED
        BY <4>1, <4>2
    <3>2. Cardinality(ActiveJobs(w)') <= Cardinality(ActiveJobs(w) \cup {j})
      BY <3>1, <2>9, FS_Subset
    <3>3. ActiveJobs(w)' \in SUBSET Jobs /\ ActiveJobs(w) \cup {j} \in SUBSET Jobs
      BY <1>1 DEF ActiveJobs
    <3>4. Cardinality(ActiveJobs(w)') \in Nat /\ Cardinality(ActiveJobs(w) \cup {j}) \in Nat
      BY <3>3, SmallerSet
    <3> QED
      BY <3>1, <3>2, <3>4, <2>10
  <2>12. ASSUME NEW v \in Workers \ {w}
         PROVE  /\ Cardinality(ActiveJobs(v)') <= Cardinality(ActiveJobs(v))
                /\ Cardinality(ActiveJobs(v)') \in Nat /\ Cardinality(ActiveJobs(v)) \in Nat
    <3>1. ActiveJobs(v) \in SUBSET Jobs
      BY DEF ActiveJobs
    <3> QED
      BY <3>1, <2>9, SmallerSet
  <2>13. Cardinality(ActiveJobs(w)) < Profile[w].max_concurrency
    BY <1>1 DEF RoomForChosen
  <2>14. Cardinality(ActiveJobs(w)') \in Nat
    <3>1. ActiveJobs(w)' \in SUBSET Jobs
      BY <1>1 DEF ActiveJobs
    <3> QED
      BY <3>1, SmallerSet
  <2>15. \A v \in Workers : Profile[v].max_concurrency \in Nat
    BY QueueAssumption
  <2>16. WithinCapacity'
    <3> SUFFICES ASSUME NEW v \in Workers
                 PROVE  Cardinality(ActiveJobs(v)') <= Profile[v].max_concurrency
      BY DEF WithinCapacity
    <3>1. CASE v = w
      BY <3>1, <2>10, <2>11, <2>13, <2>14, <2>15
    <3>2. CASE v # w
      BY <3>2, <2>12, <2>15 DEF WithinCapacity
    <3> QED
      BY <3>1, <3>2
  <2>17. RoomForChosen'
    <3> SUFFICES ASSUME NEW v \in Workers, chosen'[v] # NoJob
                 PROVE  Cardinality(ActiveJobs(v)') < Profile[v].max_concurrency
      BY DEF RoomForChosen
    <3>1. v # w /\ chosen[v] # NoJob
      BY <1>1 DEF TypeOK
    <3>2. Cardinality(ActiveJobs(v)) < Profile[v].max_concurrency
      BY <3>1 DEF RoomForChosen
    <3> QED
      BY <3>1, <3>2, <2>12, <2>15
  <2> QED
    BY <2>3, <2>4, <2>7, <2>8, <2>16, <2>17
<1> QED
  BY <1>2, <1>3

LEMMA StartKeeps ==
  ASSUME QueueInvariant, NEW g \in granted, ReportStart(g)
  PROVE  QueueInvariant'
<1> USE DEF QueueInvariant
<1>1. g.job \in Jobs /\ g.worker \in Workers
  BY DEF TypeOK
<1>2. state[g.job] = "Claimed" /\ claimed_by[g.job] = g.worker
  BY <1>1 DEF ReportStart, Accepts, CanTransitionTo, Terminal, OneAuthorizedWorker
<1>3. TypeOK'
  BY <1>1 DEF TypeOK, ReportStart, QueueStates
<1>4. RowsAgree'
  BY <1>1, <1>2 DEF TypeOK, RowsAgree, ReportStart, Terminal
<1>5. GrantsBehind' /\ OneAuthorizedWorker'
  BY <1>1, <1>2 DEF TypeOK, GrantsBehind, OneAuthorizedWorker, ReportStart
<1>6. \A w \in Workers : ActiveJobs(w)' \subseteq ActiveJobs(w)
  BY <1>1, <1>2 DEF TypeOK, ActiveJobs, ReportStart
<1> QED
  BY <1>3, <1>4, <1>5, <1>6, NothingHandedOut DEF ReportStart

LEMMA OutcomeKeeps ==
  ASSUME QueueInvariant, NEW g \in granted, NEW outcome \in {"Succeeded", "Failed"},
         ReportOutcome(g, outcome)
  PROVE  QueueInvariant'
<1> USE DEF QueueInvariant
<1>1. g.job \in Jobs /\ g.worker \in Workers
  BY DEF TypeOK
<1>2. state[g.job] = "Running" /\ claimed_by[g.job] = g.worker
  BY <1>1 DEF ReportOutcome, Accepts, CanTransitionTo, Terminal, OneAuthorizedWorker
<1>3. TypeOK'
  BY <1>1 DEF TypeOK, ReportOutcome, QueueStates, Terminal
<1>4. RowsAgree'
  BY <1>1, <1>2 DEF TypeOK, RowsAgree, ReportOutcome, Terminal
<1>5. GrantsBehind' /\ OneAuthorizedWorker'
  BY <1>1, <1>2 DEF TypeOK, GrantsBehind, OneAuthorizedWorker, ReportOutcome
<1>6. \A w \in Workers : ActiveJobs(w)' \subseteq ActiveJobs(w)
  BY <1>1, <1>2 DEF TypeOK, ActiveJobs, ReportOutcome
<1> QED
  BY <1>3, <1>4, <1>5, <1>6, NothingHandedOut DEF ReportOutcome

LEMMA QueueStep == QueueInvariant /\ [Next]_vars => QueueInvariant'
<1> SUFFICES ASSUME QueueInvariant, [Next]_vars PROVE QueueInvariant'
  OBVIOUS
<1>1. CASE Tick
  <2>1. TypeOK'
    BY <1>1, QueueAssumption DEF QueueInvariant, TypeOK, Tick
  <2>2. RowsAgree' /\ GrantsBehind' /\ OneAuthorizedWorker'
    BY <1>1 DEF QueueInvariant, RowsAgree, GrantsBehind, OneAuthorizedWorker, Tick
  <2>3. RoomForChosen' /\ WithinCapacity'
    BY <1>1 DEF QueueInvariant, RoomForChosen, WithinCapacity, ActiveJobs, Tick
  <2> QED
    BY <2>1, <2>2, <2>3 DEF QueueInvariant
<1>2. CASE UNCHANGED vars
  BY <1>2 DEF QueueInvariant, vars, TypeOK, RowsAgree, GrantsBehind, OneAuthorizedWorker,
              RoomForChosen, WithinCapacity, ActiveJobs
<1>3. CASE Drained
  BY <1>2, <1>3 DEF Drained
<1> QED
  BY <1>1, <1>2, <1>3, EnqueueKeeps, RequeueKeeps, CloseKeeps, PollKeeps, ClaimKeeps,
     StartKeeps, OutcomeKeeps DEF Next

THEOREM QueueIsInvariant == Spec => []QueueInvariant
BY QueueInit, QueueStep, PTL DEF Spec

(* Types, and the widths of the lease counters: `reclaim` never wraps. *)
THEOREM QueueTypeCorrect == Spec => []TypeOK
BY QueueIsInvariant, PTL DEF QueueInvariant

(* At most one worker's grant is good for a job, however grants are        *)
(* delayed, repeated and lost.                                             *)
THEOREM AuthorityIsExclusive == Spec => []OneAuthorizedWorker
BY QueueIsInvariant, PTL DEF QueueInvariant

(* Success and failure are published by the worker that ran the job. *)
THEOREM RunnerDecides == Spec => []OutcomeFromItsRunner
<1>1. QueueInvariant => OutcomeFromItsRunner
  BY DEF QueueInvariant, RowsAgree, OutcomeFromItsRunner
<1> QED
  BY <1>1, QueueIsInvariant, PTL

(* Work that began is never handed out again. *)
THEOREM StartedOnce == Spec => []NeverRunTwice
<1>1. QueueInvariant => NeverRunTwice
  BY DEF QueueInvariant, RowsAgree, NeverRunTwice
<1> QED
  BY <1>1, QueueIsInvariant, PTL

(* No worker is given more jobs than it offered to run. *)
THEOREM CapacityKept == Spec => []WithinCapacity
BY QueueIsInvariant, PTL DEF QueueInvariant

---------------------------------------------------------------------------
(* Every step of the queue is a step of ExclusiveJobs or leaves it alone. *)
LEMMA QueueStepsKeepPromise ==
  QueueInvariant /\ [Next]_vars
    => [Promise!Next]_<<claimed_by, starter, decider>>
<1> SUFFICES ASSUME QueueInvariant, [Next]_vars
             PROVE  [Promise!Next]_<<claimed_by, starter, decider>>
  OBVIOUS
<1> USE DEF QueueInvariant
<1>1. ASSUME NEW j \in Jobs, Requeue(j) PROVE Promise!TakeBack(j)
  <2>1. state[j] = "Claimed"
    BY <1>1 DEF TypeOK, Requeue, CanTransitionTo, Terminal
  <2> QED
    BY <1>1, <2>1, QueueAssumption
       DEF Requeue, RowsAgree, Terminal, Promise!TakeBack, Promise!Waiting
<1>2. ASSUME NEW j \in Jobs, NEW end \in {"Cancelled", "Expired"}, Close(j, end)
      PROVE  Promise!Close(j)
  <2>1. state[j] \notin Terminal
    BY <1>2 DEF Close, CanTransitionTo, Terminal
  <2> QED
    BY <1>2, <2>1 DEF Close, RowsAgree, Promise!Close
<1>3. ASSUME NEW w \in Workers, Claim(w)
      PROVE  (\E j \in Jobs : Promise!Assign(j, w)) \/ UNCHANGED <<claimed_by, starter, decider>>
  <2>1. CASE CanTransitionTo(state[chosen[w]], "Claimed")
    <3>1. chosen[w] \in Jobs /\ state[chosen[w]] = "Queued"
      BY <1>3, <2>1 DEF Claim, TypeOK, CanTransitionTo, Terminal
    <3> QED
      BY <1>3, <2>1, <3>1
         DEF Claim, RowsAgree, Terminal, Promise!Assign, Promise!Waiting
  <2>2. CASE ~CanTransitionTo(state[chosen[w]], "Claimed")
    BY <1>3, <2>2 DEF Claim
  <2> QED
    BY <2>1, <2>2
<1>4. ASSUME NEW g \in granted, ReportStart(g) PROVE g.job \in Jobs /\ Promise!Start(g.job)
  <2>1. g.job \in Jobs /\ state[g.job] = "Claimed" /\ claimed_by[g.job] = g.worker
    BY <1>4 DEF TypeOK, ReportStart, Accepts, CanTransitionTo, Terminal, OneAuthorizedWorker
  <2> QED
    BY <1>4, <2>1, QueueAssumption
       DEF ReportStart, RowsAgree, Terminal, Promise!Start, Promise!Waiting
<1>5. ASSUME NEW g \in granted, NEW outcome \in {"Succeeded", "Failed"},
             ReportOutcome(g, outcome)
      PROVE  g.job \in Jobs /\ Promise!Decide(g.job)
  <2>1. g.job \in Jobs /\ state[g.job] = "Running" /\ claimed_by[g.job] = g.worker
    BY <1>5 DEF TypeOK, ReportOutcome, Accepts, CanTransitionTo, Terminal, OneAuthorizedWorker
  <2> QED
    BY <1>5, <2>1, QueueAssumption
       DEF ReportOutcome, RowsAgree, Terminal, Promise!Decide
<1>6. ASSUME Tick \/ Drained \/ UNCHANGED vars
             \/ (\E j \in Jobs : Enqueue(j)) \/ (\E w \in Workers : Poll(w))
      PROVE  UNCHANGED <<claimed_by, starter, decider>>
  BY <1>6 DEF Tick, Drained, vars, Enqueue, Poll
<1> QED
  BY <1>1, <1>2, <1>3, <1>4, <1>5, <1>6 DEF Next, Promise!Next

(* The queue implements the exclusive, start-once assignment of jobs. *)
THEOREM QueueImplementsExclusiveJobs == Spec => ImplementsExclusiveJobs
<1>1. Init => Promise!Init
  BY DEF Init, Promise!Init
<1> QED
  BY <1>1, QueueIsInvariant, QueueStepsKeepPromise, PTL
     DEF ImplementsExclusiveJobs, Promise!Spec, Spec

---------------------------------------------------------------------------
LEMMA DivMonotone ==
  ASSUME NEW x \in Nat, NEW y \in Nat, NEW k \in Nat \ {0}, x <= y
  PROVE  x \div k <= y \div k
<1> DEFINE p == x \div k
           q == y \div k
<1>1. p \in Nat /\ q \in Nat
  OBVIOUS
<1>2. /\ x = k * p + (x % k) /\ x % k \in 0 .. (k - 1)
      /\ y = k * q + (y % k) /\ y % k \in 0 .. (k - 1)
  OBVIOUS
<1>3. SUFFICES ASSUME p >= q + 1 PROVE FALSE
  BY <1>1
<1> HIDE DEF p, q
<1>4. k * p >= k * (q + 1) /\ k * (q + 1) = k * q + k
  BY <1>1, <1>3, SMTT(30)
<1>5. k * p \in Nat /\ k * q \in Nat
  BY <1>1
<1> QED
  BY <1>1, <1>2, <1>4, <1>5

(* Of two candidates, the one at least as urgent that has waited at least  *)
(* as long has at least the effective priority, at any time, and more of   *)
(* it when it was the more urgent from the start.                          *)
LEMMA AgingKeepsSeniority ==
  ASSUME NEW t \in Nat, NEW p \in Policies, NEW a \in Candidates, NEW b \in Candidates,
         a.base_priority >= b.base_priority, a.enqueued_at <= b.enqueued_at
  PROVE  /\ EffectivePriority(a, t, p) >= EffectivePriority(b, t, p)
         /\ a.base_priority > b.base_priority
              => EffectivePriority(a, t, p) > EffectivePriority(b, t, p)
<1>1. Age(a, t) \in Nat /\ Age(b, t) \in Nat /\ Age(b, t) <= Age(a, t)
  BY DEF Age, Candidates
<1>2. AgeStep(p) \in Nat \ {0} /\ p.max_age_boost \in Nat
  BY DEF AgeStep, Policies
<1> DEFINE boostA == Age(a, t) \div AgeStep(p)
           boostB == Age(b, t) \div AgeStep(p)
<1>3. boostA \in Nat /\ boostB \in Nat /\ boostB <= boostA
  BY <1>1, <1>2, DivMonotone
<1>4. a.base_priority \in Nat /\ b.base_priority \in Nat
  BY DEF Candidates
<1>5. /\ EffectivePriority(a, t, p) = a.base_priority + Lesser(boostA, p.max_age_boost)
      /\ EffectivePriority(b, t, p) = b.base_priority + Lesser(boostB, p.max_age_boost)
  BY DEF EffectivePriority
<1> HIDE DEF boostA, boostB
<1> QED
  BY <1>2, <1>3, <1>4, <1>5 DEF Lesser

(* No poll passes over the senior of two jobs the worker could run,        *)
(* whatever the clock and the aging policy.                                *)
THEOREM AgingKeepsOrder == Spec => SeniorsFirst
<1> DEFINE Skips(w, a, b) ==
      /\ a \in Queued /\ available_at[a] <= now /\ Capable(Requirements[a], Profile[w])
      /\ Senior(a, b)
      /\ chosen[w] = NoJob /\ chosen'[w] = b
<1>1. ASSUME QueueInvariant, Next, NEW w \in Workers, NEW a \in Jobs, NEW b \in Jobs,
             Skips(w, a, b)
      PROVE  FALSE
  <2>1. NoJob # b /\ chosen'[w] # chosen[w]
    BY <1>1, QueueAssumption
  <2>2. Poll(w)
    <3>1. PICK v \in Workers : Poll(v) \/ Claim(v)
      BY <1>1, <2>1
         DEF Next, Enqueue, Requeue, Close, ReportStart, ReportOutcome, Tick, Drained, vars
    <3>2. v = w
      BY <1>1, <2>1, <3>1 DEF Poll, Claim, QueueInvariant, TypeOK
    <3>3. ~Claim(w)
      BY <1>1, <2>1 DEF Claim
    <3> QED
      BY <3>1, <3>2, <3>3
  <2> DEFINE rows == {Candidate(j) : j \in Queued}
             n == Cardinality(ActiveJobs(w))
  <2>3. PICK c \in SelectNext(rows, Profile[w], n, now, Policy) :
          chosen' = [chosen EXCEPT ![w] = c.job_id]
    BY <2>2 DEF Poll
  <2>4. c = Candidate(b)
    BY <1>1, <2>3 DEF SelectNext, Candidate, QueueInvariant, TypeOK
  <2>5. Candidate(a) \in rows /\ Candidate(a).requirements = Requirements[a]
    BY <1>1 DEF Candidate
  <2>6. ~ScheduledBefore(Candidate(a), Candidate(b), now, Policy)
    <3>1. Eligible(Candidate(a).requirements, Profile[w], n)
      <4>1. Eligible(Candidate(b).requirements, Profile[w], n)
        BY <2>3, <2>4 DEF SelectNext
      <4> QED
        BY <4>1, <2>5, <1>1 DEF Eligible
    <3>2. Candidate(a).available_at <= now
      BY <1>1 DEF Candidate
    <3> HIDE DEF rows, n
    <3> QED
      BY <2>3, <2>4, <2>5, <3>1, <3>2 DEF SelectNext
  <2>7. Candidate(a) \in Candidates /\ Candidate(b) \in Candidates
    BY <1>1, QueueAssumption DEF Candidate, Candidates, QueueInvariant, TypeOK
  <2>8. now \in Nat /\ Policy \in Policies
    BY <1>1, QueueAssumption DEF QueueInvariant, TypeOK, Policies
  <2>9. /\ Candidate(a).base_priority >= Candidate(b).base_priority
        /\ Candidate(a).enqueued_at <= Candidate(b).enqueued_at
        /\ Candidate(a).available_at <= Candidate(b).available_at
        /\ \/ Candidate(a).base_priority > Candidate(b).base_priority
           \/ Candidate(a).available_at < Candidate(b).available_at
           \/ Candidate(a).job_id < Candidate(b).job_id
    BY <1>1 DEF Candidate, Senior
  <2>10. /\ EffectivePriority(Candidate(a), now, Policy) >= EffectivePriority(Candidate(b), now, Policy)
         /\ EffectivePriority(Candidate(a), now, Policy) \in Nat
         /\ EffectivePriority(Candidate(b), now, Policy) \in Nat
         /\ Candidate(a).base_priority > Candidate(b).base_priority =>
              EffectivePriority(Candidate(a), now, Policy) > EffectivePriority(Candidate(b), now, Policy)
    BY <2>7, <2>8, <2>9, AgingKeepsSeniority, PriorityIsNat
  <2>11. Candidate(a).available_at \in Nat /\ Candidate(b).available_at \in Nat
    BY <2>7 DEF Candidates
  <2> QED
    BY <2>6, <2>9, <2>10, <2>11 DEF ScheduledBefore, HigherWins
<1>2. QueueInvariant /\ [Next]_vars
        => [\A w \in Workers, a, b \in Jobs :
              /\ a \in Queued /\ available_at[a] <= now /\ Capable(Requirements[a], Profile[w])
              /\ Senior(a, b)
              => ~(chosen[w] = NoJob /\ chosen'[w] = b)]_vars
  BY <1>1
<1> QED
  BY <1>2, QueueIsInvariant, PTL DEF SeniorsFirst, Spec
===========================================================================
