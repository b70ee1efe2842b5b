------------------------- MODULE IdempotentRegistry -------------------------
(***************************************************************************)
(* What record_action promises its callers: per idempotency key at most    *)
(* one action is recorded, with exactly one event, whatever is retried and *)
(* whoever races; and a caller is told an operation only if that operation *)
(* records what the caller asked for.                                      *)
(***************************************************************************)
CONSTANTS Keys, Payloads, Operations, Unused

VARIABLES
  recorded,  \* key -> [payload, operation], or Unused
  announced, \* operations an event was emitted for
  told       \* answers given: [key, payload, operation]

Init ==
  /\ recorded = [k \in Keys |-> Unused]
  /\ announced = {}
  /\ told = {}

Record(k, p, op) ==
  /\ recorded[k] = Unused /\ op \notin announced
  /\ recorded' = [recorded EXCEPT ![k] = [payload |-> p, operation |-> op]]
  /\ announced' = announced \cup {op}
  /\ UNCHANGED told

Tell(k) ==
  /\ recorded[k] # Unused
  /\ told' = told \cup
       {[key |-> k, payload |-> recorded[k].payload, operation |-> recorded[k].operation]}
  /\ UNCHANGED <<recorded, announced>>

Next ==
  \E k \in Keys :
    \/ \E p \in Payloads, op \in Operations : Record(k, p, op)
    \/ Tell(k)

Spec == Init /\ [][Next]_<<recorded, announced, told>>
===========================================================================
