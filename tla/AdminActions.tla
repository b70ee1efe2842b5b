---------------------------- MODULE AdminActions ----------------------------
(***************************************************************************)
(* AdminDb::record_action of src/admin-orm/src/lib.rs:267-357: callers     *)
(* race and retry with the same idempotency key.  Each statement is a      *)
(* step.  PostgreSQL is external: READ COMMITTED, a unique key on          *)
(* idempotency_key that an uncommitted row already holds, rollback of what *)
(* an unfinished transaction wrote when its connection fails.              *)
(***************************************************************************)
EXTENDS Naturals

CONSTANTS
  Callers, Keys,
  Payloads,      \* the five compared columns, actor_subject .. reason
  Unused,        \* a key without a row
  MaxOperations  \* bound on calls

ASSUME AdminAssumption ==
  /\ MaxOperations \in Nat
  /\ Unused \notin [payload : Payloads, operation : 1 .. MaxOperations] \cup Keys \cup Payloads

VARIABLES
  requests,  \* committed admin_action_requests: key -> [payload, operation]
  outbox,    \* committed admin_action_outbox: operation -> number of events
  step,      \* per caller: the statement it executes next
  key, payload,        \* per caller: its input
  operation, inserted, \* per caller: operation_id and was_inserted
  calls,     \* calls so far; operation ids are drawn in this order (Uuid::new_v4)
  told       \* history: the Ok answers

vars == <<requests, outbox, step, key, payload, operation, inserted, calls, told>>

Operations == 1 .. MaxOperations
Rows == [payload : Payloads, operation : Operations]
Steps == {"idle", "insert", "select", "outbox", "commit", "answer"}

TypeOK ==
  /\ requests \in [Keys -> Rows \cup {Unused}]
  /\ outbox \in [Operations -> 0 .. 1]
  /\ step \in [Callers -> Steps]
  /\ key \in [Callers -> Keys \cup {Unused}]
  /\ payload \in [Callers -> Payloads \cup {Unused}]
  /\ operation \in [Callers -> 0 .. MaxOperations]
  /\ inserted \in [Callers -> BOOLEAN]
  /\ calls \in 0 .. MaxOperations
  /\ told \subseteq [key : Keys, payload : Payloads, operation : Operations]

Init ==
  /\ requests = [k \in Keys |-> Unused]
  /\ outbox = [op \in Operations |-> 0]
  /\ step = [c \in Callers |-> "idle"]
  /\ key = [c \in Callers |-> Unused]
  /\ payload = [c \in Callers |-> Unused]
  /\ operation = [c \in Callers |-> 0]
  /\ inserted = [c \in Callers |-> FALSE]
  /\ calls = 0
  /\ told = {}

---------------------------------------------------------------------------
(* record_action(input) begins: a fresh operation id, BEGIN. *)
Begin(c, k, p) ==
  /\ step[c] = "idle" /\ calls < MaxOperations
  /\ calls' = calls + 1
  /\ step' = [step EXCEPT ![c] = "insert"]
  /\ key' = [key EXCEPT ![c] = k]
  /\ payload' = [payload EXCEPT ![c] = p]
  /\ operation' = [operation EXCEPT ![c] = calls + 1]
  /\ inserted' = [inserted EXCEPT ![c] = FALSE]
  /\ UNCHANGED <<requests, outbox, told>>

(* The call is over, and its locals with it. *)
Ended(c) ==
  /\ step' = [step EXCEPT ![c] = "idle"]
  /\ key' = [key EXCEPT ![c] = Unused]
  /\ payload' = [payload EXCEPT ![c] = Unused]
  /\ operation' = [operation EXCEPT ![c] = 0]
  /\ inserted' = [inserted EXCEPT ![c] = FALSE]

(* An uncommitted row of another transaction makes the insert wait. *)
HoldsRow(c, k) == inserted[c] /\ step[c] \in {"outbox", "commit"} /\ key[c] = k
KeyFree(k) == \A c \in Callers : ~HoldsRow(c, k)

NoConflict(k) == requests[k] = Unused

UntilInserted(c) == IF NoConflict(key[c]) THEN "outbox" ELSE "insert"  \* mutant: retry loop
AfterInsert(c) == IF NoConflict(key[c]) THEN "outbox" ELSE "select"

Insert(c) ==
  /\ step[c] = "insert" /\ KeyFree(key[c])
  /\ inserted' = [inserted EXCEPT ![c] = NoConflict(key[c])]
  /\ step' = [step EXCEPT ![c] = AfterInsert(c)]
  /\ UNCHANGED <<requests, outbox, key, payload, operation, calls, told>>

KeyOnly(c) == TRUE              \* mutant: the SELECT compares the key only
SamePayload(c) == requests[key[c]].payload = payload[c]

SelectExisting(c) ==
  /\ step[c] = "select"
  /\ IF SamePayload(c)
     THEN /\ operation' = [operation EXCEPT ![c] = requests[key[c]].operation]
          /\ step' = [step EXCEPT ![c] = "commit"]
          /\ UNCHANGED <<key, payload, inserted>>
     ELSE Ended(c)                                   \* rollback, IdempotencyConflict
  /\ UNCHANGED <<requests, outbox, calls, told>>

InsertOutbox(c) ==
  /\ step[c] = "outbox"
  /\ step' = [step EXCEPT ![c] = "commit"]
  /\ UNCHANGED <<requests, outbox, key, payload, operation, inserted, calls, told>>

WasInserted(c) == inserted[c]

(* COMMIT publishes the request row and the outbox row together. *)
Commit(c) ==
  /\ step[c] = "commit"
  /\ requests' = IF inserted[c]
                 THEN [requests EXCEPT ![key[c]] = [payload |-> payload[c], operation |-> operation[c]]]
                 ELSE requests
  /\ outbox' = IF WasInserted(c) THEN [outbox EXCEPT ![operation[c]] = @ + 1] ELSE outbox
  /\ step' = [step EXCEPT ![c] = "answer"]
  /\ UNCHANGED <<key, payload, operation, inserted, calls, told>>

(* The answer reaches the caller, or is lost with the connection, after    *)
(* which the caller may only retry.                                        *)
Answer(c) ==
  /\ step[c] = "answer"
  /\ Ended(c)
  /\ told' = told \cup {[key |-> key[c], payload |-> payload[c], operation |-> operation[c]]}
  /\ UNCHANGED <<requests, outbox, calls>>

(* A statement fails, or the caller or its connection dies: the            *)
(* transaction, if it did not commit, is rolled back.                      *)
Fail(c) ==
  /\ step[c] # "idle"
  /\ Ended(c)
  /\ UNCHANGED <<requests, outbox, calls, told>>

(* A call whose caller keeps its connection is executed to the end. *)
Executes(c) == Insert(c) \/ SelectExisting(c) \/ InsertOutbox(c) \/ Commit(c) \/ Answer(c)

---------------------------------------------------------------------------
(* A call holding the key's row does not make the others wait for ever:    *)
(* each call ends.                                                         *)
EveryCallEnds == \A c \in Callers : (step[c] # "idle") ~> (step[c] = "idle")

(* Recording is idempotent, as the registry states it: whatever races, is  *)
(* retried or dies half way, a key records one action, the outbox tells of *)
(* it exactly once and of nothing else, and nobody is answered with an     *)
(* action other than the one they asked for.                               *)
Registry ==
  INSTANCE IdempotentRegistry
    WITH recorded <- requests, announced <- {op \in Operations : outbox[op] = 1}
ImplementsIdempotentRegistry == Registry!Spec
===========================================================================
