--------------------------- MODULE ExclusiveJobs ---------------------------
(***************************************************************************)
(* What the durable queue promises: a job is assigned to one worker at a   *)
(* time, may be taken back only before it started, is started at most      *)
(* once, and only the worker it is assigned to starts it or decides its    *)
(* outcome; the queue itself may close it.                                 *)
(***************************************************************************)
CONSTANTS Jobs, Workers, Nobody, Queue

VARIABLES
  assignee,  \* per job: the worker it is assigned to, or Nobody
  starter,   \* per job: the worker that started it
  decider    \* per job: the worker that decided its outcome, or Queue

Init ==
  /\ assignee = [j \in Jobs |-> Nobody]
  /\ starter = [j \in Jobs |-> Nobody]
  /\ decider = [j \in Jobs |-> Nobody]

Waiting(j) == starter[j] = Nobody /\ decider[j] = Nobody

Assign(j, w) ==
  /\ Waiting(j) /\ assignee[j] = Nobody
  /\ assignee' = [assignee EXCEPT ![j] = w]
  /\ UNCHANGED <<starter, decider>>

TakeBack(j) ==
  /\ Waiting(j) /\ assignee[j] # Nobody
  /\ assignee' = [assignee EXCEPT ![j] = Nobody]
  /\ UNCHANGED <<starter, decider>>

Start(j) ==
  /\ Waiting(j) /\ assignee[j] # Nobody
  /\ starter' = [starter EXCEPT ![j] = assignee[j]]
  /\ UNCHANGED <<assignee, decider>>

Decide(j) ==
  /\ starter[j] # Nobody /\ decider[j] = Nobody
  /\ decider' = [decider EXCEPT ![j] = starter[j]]
  /\ UNCHANGED <<assignee, starter>>

Close(j) ==
  /\ decider[j] = Nobody
  /\ decider' = [decider EXCEPT ![j] = Queue]
  /\ UNCHANGED <<assignee, starter>>

Next ==
  \E j \in Jobs :
    \/ \E w \in Workers : Assign(j, w)
    \/ TakeBack(j) \/ Start(j) \/ Decide(j) \/ Close(j)

Spec == Init /\ [][Next]_<<assignee, starter, decider>>
===========================================================================
