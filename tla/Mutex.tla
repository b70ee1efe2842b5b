------------------------------- MODULE Mutex -------------------------------
(***************************************************************************)
(* What CompositeLockProvider::with_lock promises its callers              *)
(* (src/src/locks.rs:6-36): the work of two callers on one key never       *)
(* overlaps.                                                               *)
(***************************************************************************)
CONSTANTS Callers, Keys, NoKey

VARIABLE inside     \* the key under which each caller's work is running

Init == inside = [c \in Callers |-> NoKey]

Enter(c, k) ==
  /\ inside[c] = NoKey
  /\ \A d \in Callers : inside[d] # k
  /\ inside' = [inside EXCEPT ![c] = k]

Leave(c) ==
  /\ inside[c] # NoKey
  /\ inside' = [inside EXCEPT ![c] = NoKey]

Next == \E c \in Callers : Leave(c) \/ (\E k \in Keys : Enter(c, k))

Spec == Init /\ [][Next]_inside
===========================================================================
