-------------------------- MODULE AdminPlane_proof --------------------------
(***************************************************************************)
(* Proofs about AdminPlane: recording an action is idempotent and          *)
(* suspension holds, for any callers, keys, payloads, principals and       *)
(* databases.                                                              *)
(***************************************************************************)
EXTENDS AdminPlane, TLAPS

---------------------------------------------------------------------------
(* Every step of the plane is a step of one call or leaves the calls alone.*)
CallNext ==
  \E c \in Callers :
    \/ \E k \in Keys, p \in Payloads : Begin(c, k, p)
    \/ Executes(c) \/ Fail(c)

LEMMA PlaneStep == [PlaneNext]_planeVars => [CallNext]_vars
<1>1. ASSUME PlaneNext PROVE CallNext \/ UNCHANGED vars
  BY <1>1 DEF PlaneNext, CallNext, ConnectRead, ConnectWrite, Connect, Suspend, Ask, Proceeds, Record
<1> QED BY <1>1 DEF planeVars

(* An operation id is fresh as long as its call may still announce it.     *)
Fresh(c) == step[c] \in {"insert", "select", "outbox"} \/ (step[c] = "commit" /\ inserted[c])

FreshUnannounced ==
  /\ \A c \in Callers : Fresh(c) => operation[c] \in 1 .. calls /\ outbox[operation[c]] = 0
  /\ \A op \in Operations : op > calls => outbox[op] = 0
FreshDiffer ==
  \A c, d \in Callers : c # d /\ Fresh(c) /\ Fresh(d) => operation[c] # operation[d]

(* At most one transaction holds the row of a key, and only a new key's.   *)
RowsHeld ==
  /\ \A c \in Callers : step[c] = "outbox" => inserted[c]
  /\ \A c \in Callers : step[c] \in {"insert", "select"} => ~inserted[c]
  /\ \A c \in Callers, k \in Keys : HoldsRow(c, k) => requests[k] = Unused
  /\ \A c, d \in Callers, k \in Keys : HoldsRow(c, k) /\ HoldsRow(d, k) => c = d

(* What a call is about to answer is what its key records.                 *)
Asked(c) == [payload |-> payload[c], operation |-> operation[c]]
AnswersRecorded ==
  \A c \in Callers :
    /\ step[c] # "idle" => key[c] \in Keys /\ payload[c] \in Payloads /\ operation[c] \in Operations
    /\ step[c] = "select" => requests[key[c]] # Unused
    /\ step[c] = "answer" \/ (step[c] = "commit" /\ ~inserted[c]) => requests[key[c]] = Asked(c)

CallInv == TypeOK /\ FreshUnannounced /\ FreshDiffer /\ RowsHeld /\ AnswersRecorded

LEMMA CallInit == Init => CallInv
BY AdminAssumption DEF Init, CallInv, TypeOK, FreshUnannounced, FreshDiffer, RowsHeld, AnswersRecorded,
     Fresh, HoldsRow, Steps, Operations, Asked

LEMMA UnusedIsNoRow == Unused \notin Rows /\ Unused \notin Keys /\ Unused \notin Payloads
BY AdminAssumption DEF Rows, Operations

(* The rows that a step of one call cannot disturb.                        *)
LEMMA HeldByOthers ==
  ASSUME CallInv, NEW c \in Callers, ~HoldsRow(c, key[c])', UNCHANGED requests,
         \A d \in Callers \ {c} : step'[d] = step[d] /\ key'[d] = key[d] /\ inserted'[d] = inserted[d]
  PROVE  /\ \A d \in Callers, k \in Keys : HoldsRow(d, k)' => requests'[k] = Unused
         /\ \A d, e \in Callers, k \in Keys : HoldsRow(d, k)' /\ HoldsRow(e, k)' => d = e
<1>1. ASSUME NEW d \in Callers, NEW k \in Keys, HoldsRow(d, k)' PROVE HoldsRow(d, k) /\ d # c
  <2>1. d # c
    BY <1>1 DEF HoldsRow
  <2> QED BY <1>1, <2>1 DEF HoldsRow
<1> QED BY <1>1 DEF CallInv, RowsHeld

LEMMA CallBegins ==
  ASSUME CallInv, NEW c \in Callers, NEW k \in Keys, NEW p \in Payloads, Begin(c, k, p)
  PROVE  CallInv'
<1> USE AdminAssumption DEF CallInv
<1>1. TypeOK'
  BY DEF TypeOK, Operations, Begin, Steps
<1>2. \A d \in Callers \ {c} : step'[d] = step[d] /\ key'[d] = key[d] /\ payload'[d] = payload[d]
                                /\ operation'[d] = operation[d] /\ inserted'[d] = inserted[d]
  BY DEF Begin, TypeOK
<1>3. /\ step'[c] = "insert" /\ key'[c] = k /\ payload'[c] = p /\ operation'[c] = calls + 1
      /\ inserted'[c] = FALSE /\ UNCHANGED <<requests, outbox>>
  BY DEF Begin, TypeOK
<1>4. calls' = calls + 1 /\ calls \in Nat /\ calls + 1 \in Operations
  BY DEF Begin, TypeOK, Operations
<1>5. FreshUnannounced'
  <2>1. outbox[calls + 1] = 0
    BY <1>4 DEF FreshUnannounced
  <2>2. \A d \in Callers : Fresh(d)' => operation'[d] \in 1 .. calls + 1 /\ outbox[operation'[d]] = 0
    BY <1>2, <1>3, <1>4, <2>1 DEF FreshUnannounced, Fresh
  <2>3. \A op \in Operations : op > calls + 1 => outbox[op] = 0
    BY <1>4 DEF FreshUnannounced, Operations
  <2> QED BY <1>3, <1>4, <2>2, <2>3 DEF FreshUnannounced
<1>6. FreshDiffer'
  BY <1>2, <1>3, <1>4 DEF FreshDiffer, FreshUnannounced, Fresh
<1>7. RowsHeld'
  BY <1>2, <1>3, HeldByOthers DEF RowsHeld, HoldsRow
<1>8. AnswersRecorded'
  BY <1>2, <1>3, <1>4 DEF AnswersRecorded, Asked
<1> QED BY <1>1, <1>5, <1>6, <1>7, <1>8

LEMMA CallEnds ==
  ASSUME CallInv, NEW c \in Callers, Ended(c), UNCHANGED <<requests, outbox, calls>>,
         told' \subseteq told \cup [key : Keys, payload : Payloads, operation : Operations]
  PROVE  CallInv'
<1> USE DEF CallInv
<1>1. TypeOK'
  BY AdminAssumption DEF TypeOK, Operations, Ended, Steps
<1>2. \A d \in Callers \ {c} : step'[d] = step[d] /\ key'[d] = key[d] /\ payload'[d] = payload[d]
                                /\ operation'[d] = operation[d] /\ inserted'[d] = inserted[d]
  BY DEF Ended, TypeOK
<1>3. step'[c] = "idle"
  BY DEF Ended, TypeOK
<1>4. FreshUnannounced'
  BY <1>2, <1>3 DEF FreshUnannounced, Fresh
<1>5. FreshDiffer'
  BY <1>2, <1>3 DEF FreshDiffer, Fresh
<1>6. RowsHeld'
  BY <1>2, <1>3, HeldByOthers DEF RowsHeld, HoldsRow
<1>7. AnswersRecorded'
  BY <1>2, <1>3 DEF AnswersRecorded, Asked
<1> QED BY <1>1, <1>4, <1>5, <1>6, <1>7

LEMMA CallInserts ==
  ASSUME CallInv, NEW c \in Callers, Insert(c)
  PROVE  CallInv'
<1> USE DEF CallInv
<1>1. TypeOK'
  BY DEF TypeOK, Insert, AfterInsert, NoConflict, Steps
<1>2. \A d \in Callers \ {c} : step'[d] = step[d] /\ inserted'[d] = inserted[d]
  BY DEF Insert, TypeOK
<1>3. UNCHANGED <<requests, outbox, key, payload, operation, calls>>
  BY DEF Insert
<1>4. /\ step[c] = "insert" /\ key[c] \in Keys /\ Fresh(c)
      /\ \/ requests[key[c]] = Unused /\ step'[c] = "outbox" /\ inserted'[c] = TRUE
         \/ requests[key[c]] # Unused /\ step'[c] = "select" /\ inserted'[c] = FALSE
      /\ \A d \in Callers : ~HoldsRow(d, key[c])
  BY DEF Insert, AfterInsert, NoConflict, KeyFree, Fresh, AnswersRecorded, TypeOK
<1>5. FreshUnannounced'
  BY <1>2, <1>3, <1>4 DEF FreshUnannounced, Fresh
<1>6. FreshDiffer'
  BY <1>2, <1>3, <1>4 DEF FreshDiffer, Fresh
<1>7. RowsHeld'
  <2>1. \A d \in Callers : step'[d] = "outbox" => inserted'[d]
    BY <1>2, <1>4 DEF RowsHeld
  <2>2. \A d \in Callers : step'[d] \in {"insert", "select"} => ~inserted'[d]
    BY <1>2, <1>4 DEF RowsHeld
  <2>3. ASSUME NEW d \in Callers \ {c}, NEW k \in Keys, HoldsRow(d, k)'
        PROVE  HoldsRow(d, k) /\ k # key[c]
    <3>1. HoldsRow(d, k)
      BY <1>2, <1>3, <2>3 DEF HoldsRow
    <3> QED BY <1>4, <3>1
  <2>4. ASSUME NEW k \in Keys, HoldsRow(c, k)' PROVE k = key[c] /\ requests[k] = Unused
    BY <1>3, <1>4, <2>4 DEF HoldsRow
  <2>5. \A d \in Callers, k \in Keys : HoldsRow(d, k)' => requests[k] = Unused
    BY <2>3, <2>4 DEF RowsHeld
  <2>6. \A d, e \in Callers, k \in Keys : HoldsRow(d, k)' /\ HoldsRow(e, k)' => d = e
    BY <2>3, <2>4 DEF RowsHeld
  <2> QED BY <1>3, <2>1, <2>2, <2>5, <2>6 DEF RowsHeld
<1>8. AnswersRecorded'
  BY <1>2, <1>3, <1>4 DEF AnswersRecorded, Asked
<1> QED BY <1>1, <1>5, <1>6, <1>7, <1>8

LEMMA CallSelects ==
  ASSUME CallInv, NEW c \in Callers, SelectExisting(c)
  PROVE  CallInv'
<1> USE DEF CallInv
<1>1. CASE ~SamePayload(c)
  <2>1. Ended(c) /\ UNCHANGED <<requests, outbox, calls>> /\ told' = told
    BY <1>1 DEF SelectExisting
  <2> QED BY <2>1, CallEnds
<1>2. CASE SamePayload(c)
  <2>1. key[c] \in Keys /\ requests[key[c]] \in Rows /\ requests[key[c]].payload = payload[c]
    BY <1>2 DEF SelectExisting, AnswersRecorded, SamePayload, TypeOK
  <2>2. /\ step[c] = "select" /\ step'[c] = "commit" /\ operation'[c] = requests[key[c]].operation
        /\ \A d \in Callers \ {c} : step'[d] = step[d] /\ operation'[d] = operation[d]
        /\ UNCHANGED <<requests, outbox, key, payload, inserted, calls, told>>
    BY <1>2 DEF SelectExisting, TypeOK
  <2>3. requests[key[c]].operation \in Operations
    BY <2>1 DEF Rows
  <2>4. TypeOK'
    <3>1. step' = [step EXCEPT ![c] = "commit"] /\ operation' = [operation EXCEPT ![c] = requests[key[c]].operation]
      BY <1>2 DEF SelectExisting
    <3>2. "commit" \in Steps /\ requests[key[c]].operation \in 0 .. MaxOperations
      BY <2>3 DEF Steps, Operations
    <3>3. step' \in [Callers -> Steps] /\ operation' \in [Callers -> 0 .. MaxOperations]
      BY <3>1, <3>2 DEF TypeOK
    <3> QED BY <2>2, <3>3 DEF TypeOK
  <2>5. ~inserted[c]
    BY <2>2 DEF RowsHeld
  <2>6. FreshUnannounced'
    BY <2>2, <2>5 DEF FreshUnannounced, Fresh
  <2>7. FreshDiffer'
    BY <2>2, <2>5 DEF FreshDiffer, Fresh
  <2>8. RowsHeld'
    BY <2>2, <2>5, HeldByOthers DEF RowsHeld, HoldsRow
  <2>9. requests[key[c]] = [payload |-> payload[c], operation |-> operation'[c]]
    BY <2>1, <2>2 DEF Rows
  <2>10. AnswersRecorded'
    BY <2>1, <2>2, <2>3, <2>9 DEF AnswersRecorded, Asked
  <2> QED BY <2>4, <2>6, <2>7, <2>8, <2>10
<1> QED BY <1>1, <1>2

LEMMA CallAnnounces ==
  ASSUME CallInv, NEW c \in Callers, InsertOutbox(c)
  PROVE  CallInv'
<1> USE DEF CallInv
<1>1. TypeOK'
  BY DEF TypeOK, InsertOutbox, Steps
<1>2. /\ step[c] = "outbox" /\ step'[c] = "commit" /\ inserted[c]
      /\ \A d \in Callers \ {c} : step'[d] = step[d]
      /\ UNCHANGED <<requests, outbox, key, payload, operation, inserted, calls>>
  BY DEF InsertOutbox, TypeOK, RowsHeld
<1>3. FreshUnannounced'
  BY <1>2 DEF FreshUnannounced, Fresh
<1>4. FreshDiffer'
  BY <1>2 DEF FreshDiffer, Fresh
<1>5. \A d \in Callers, k \in Keys : HoldsRow(d, k)' <=> HoldsRow(d, k)
  BY <1>2 DEF HoldsRow
<1>6. RowsHeld'
  BY <1>2, <1>5 DEF RowsHeld
<1>7. AnswersRecorded'
  BY <1>2 DEF AnswersRecorded, Asked
<1> QED BY <1>1, <1>3, <1>4, <1>6, <1>7

(* A commit publishes what the transaction wrote, if it wrote anything.    *)
LEMMA CommitWrites ==
  ASSUME CallInv, NEW c \in Callers, Commit(c), inserted[c]
  PROVE  /\ HoldsRow(c, key[c]) /\ key[c] \in Keys /\ payload[c] \in Payloads
         /\ requests[key[c]] = Unused /\ operation[c] \in Operations /\ outbox[operation[c]] = 0
         /\ requests' = [requests EXCEPT ![key[c]] = Asked(c)]
         /\ outbox' = [outbox EXCEPT ![operation[c]] = 1]
<1>1. HoldsRow(c, key[c]) /\ key[c] \in Keys /\ payload[c] \in Payloads /\ operation[c] \in Operations
  BY DEF CallInv, Commit, HoldsRow, AnswersRecorded
<1>2. requests[key[c]] = Unused
  BY <1>1 DEF CallInv, RowsHeld
<1>3. outbox[operation[c]] = 0
  BY DEF CallInv, Commit, FreshUnannounced, Fresh
<1>4. requests' = [requests EXCEPT ![key[c]] = Asked(c)]
  BY DEF Commit, Asked
<1>5. outbox' = [outbox EXCEPT ![operation[c]] = 1]
  BY <1>3 DEF Commit, WasInserted
<1> QED BY <1>1, <1>2, <1>3, <1>4, <1>5

LEMMA CallCommits ==
  ASSUME CallInv, NEW c \in Callers, Commit(c)
  PROVE  CallInv'
<1> USE DEF CallInv
<1>1. /\ step[c] = "commit" /\ step'[c] = "answer"
      /\ \A d \in Callers \ {c} : step'[d] = step[d]
      /\ UNCHANGED <<key, payload, operation, inserted, calls, told>>
  BY DEF Commit, TypeOK
<1>2. CASE ~inserted[c]
  <2>1. UNCHANGED <<requests, outbox>>
    BY <1>2 DEF Commit, WasInserted
  <2>2. TypeOK'
    BY <2>1 DEF TypeOK, Commit, Steps
  <2>3. FreshUnannounced'
    BY <1>1, <2>1 DEF FreshUnannounced, Fresh
  <2>4. FreshDiffer'
    BY <1>1 DEF FreshDiffer, Fresh
  <2>5. RowsHeld'
    BY <1>1, <2>1 DEF RowsHeld, HoldsRow
  <2>6. AnswersRecorded'
    BY <1>1, <1>2, <2>1 DEF AnswersRecorded, Asked
  <2> QED BY <2>2, <2>3, <2>4, <2>5, <2>6
<1>3. CASE inserted[c]
  <2>1. /\ HoldsRow(c, key[c]) /\ key[c] \in Keys /\ payload[c] \in Payloads
        /\ requests[key[c]] = Unused /\ operation[c] \in Operations /\ outbox[operation[c]] = 0
        /\ requests' = [requests EXCEPT ![key[c]] = Asked(c)]
        /\ outbox' = [outbox EXCEPT ![operation[c]] = 1]
    BY <1>3, CommitWrites
  <2>2. TypeOK'
    BY <2>1 DEF TypeOK, Commit, Steps, Rows, Asked
  <2>3. /\ requests'[key[c]] = Asked(c)
        /\ \A k \in Keys : k # key[c] => requests'[k] = requests[k]
        /\ \A op \in Operations : op # operation[c] => outbox'[op] = outbox[op]
    BY <2>1 DEF TypeOK
  <2>4. Fresh(c) /\ ~Fresh(c)'
    BY <1>1, <1>3 DEF Fresh
  <2>5. \A d \in Callers \ {c} : Fresh(d)' => Fresh(d)
    BY <1>1 DEF Fresh
  <2>6. FreshUnannounced'
    <3>1. ASSUME NEW d \in Callers, Fresh(d)' PROVE operation[d] \in 1 .. calls /\ outbox'[operation[d]] = 0
      <4>1. Fresh(d) /\ d # c
        BY <2>4, <2>5, <3>1
      <4>2. operation[d] # operation[c]
        BY <2>4, <4>1 DEF FreshDiffer
      <4>3. operation[d] \in Operations
        BY <4>1 DEF AnswersRecorded, Fresh
      <4> QED BY <2>3, <4>1, <4>2, <4>3 DEF FreshUnannounced
    <3>2. ASSUME NEW op \in Operations, op > calls PROVE outbox'[op] = 0
      <4>1. operation[c] \in 1 .. calls
        BY <2>4 DEF FreshUnannounced
      <4>2. op # operation[c]
        BY <3>2, <4>1 DEF TypeOK, Operations
      <4> QED BY <2>3, <3>2, <4>2 DEF FreshUnannounced
    <3> QED BY <1>1, <3>1, <3>2 DEF FreshUnannounced
  <2>7. FreshDiffer'
    BY <1>1, <2>4, <2>5 DEF FreshDiffer
  <2>8. \A d \in Callers, k \in Keys : HoldsRow(d, k)' => HoldsRow(d, k) /\ d # c
    BY <1>1 DEF HoldsRow
  <2>9. \A d \in Callers, k \in Keys : HoldsRow(d, k)' => k # key[c]
    BY <2>1, <2>8 DEF RowsHeld
  <2>10. RowsHeld'
    <3>1. \A d \in Callers : step'[d] = "outbox" => inserted'[d]
      BY <1>1 DEF RowsHeld
    <3>2. \A d \in Callers : step'[d] \in {"insert", "select"} => ~inserted'[d]
      BY <1>1 DEF RowsHeld
    <3>3. \A d \in Callers, k \in Keys : HoldsRow(d, k)' => requests'[k] = Unused
      BY <2>3, <2>8, <2>9 DEF RowsHeld
    <3>4. \A d, e \in Callers, k \in Keys : HoldsRow(d, k)' /\ HoldsRow(e, k)' => d = e
      BY <2>8 DEF RowsHeld
    <3> QED BY <3>1, <3>2, <3>3, <3>4 DEF RowsHeld
  <2>11. AnswersRecorded'
    <3>1. SUFFICES ASSUME NEW d \in Callers
                   PROVE  /\ step'[d] # "idle" => key[d] \in Keys /\ payload[d] \in Payloads /\ operation[d] \in Operations
                          /\ step'[d] = "select" => requests'[key[d]] # Unused
                          /\ step'[d] = "answer" \/ (step'[d] = "commit" /\ ~inserted[d]) =>
                               requests'[key[d]] = Asked(d)
      BY <1>1 DEF AnswersRecorded, Asked
    <3>2. CASE d = c
      BY <1>1, <2>1, <2>3, <3>2
    <3>3. CASE d # c
      <4>1. step'[d] = step[d]
        BY <1>1, <3>3
      <4>2. requests[key[d]] # Unused /\ key[d] \in Keys => requests'[key[d]] = requests[key[d]]
        BY <2>1, <2>3
      <4>3. Asked(d) \in Rows \/ step[d] = "idle"
        BY DEF Asked, Rows, AnswersRecorded
      <4> QED BY <4>1, <4>2, <4>3, UnusedIsNoRow DEF AnswersRecorded
    <3> QED BY <3>2, <3>3
  <2> QED BY <2>2, <2>6, <2>7, <2>10, <2>11
<1> QED BY <1>2, <1>3

(* The invariant of record_action: types, fresh ids, one holder per key    *)
(* and answers that are recorded.                                          *)
THEOREM CallsConsistent == Plane => []CallInv
<1>1. PlaneInit => CallInv
  BY CallInit DEF PlaneInit
<1>2. ASSUME CallInv, [CallNext]_vars PROVE CallInv'
  <2>1. ASSUME NEW c \in Callers, NEW k \in Keys, NEW p \in Payloads, Begin(c, k, p) PROVE CallInv'
    BY <1>2, <2>1, CallBegins
  <2>2. ASSUME NEW c \in Callers, Executes(c) PROVE CallInv'
    <3>1. CASE Insert(c)
      BY <1>2, <3>1, CallInserts
    <3>2. CASE SelectExisting(c)
      BY <1>2, <3>2, CallSelects
    <3>3. CASE InsertOutbox(c)
      BY <1>2, <3>3, CallAnnounces
    <3>4. CASE Commit(c)
      BY <1>2, <3>4, CallCommits
    <3>5. CASE Answer(c)
      <4>1. key[c] \in Keys /\ payload[c] \in Payloads /\ operation[c] \in Operations
        BY <1>2, <3>5 DEF Answer, CallInv, AnswersRecorded
      <4> QED BY <1>2, <3>5, <4>1, CallEnds DEF Answer
    <3> QED BY <2>2, <3>1, <3>2, <3>3, <3>4, <3>5 DEF Executes
  <2>3. ASSUME NEW c \in Callers, Fail(c) PROVE CallInv'
    BY <1>2, <2>3, CallEnds DEF Fail
  <2>4. CASE UNCHANGED vars
    BY <1>2, <2>4 DEF vars, CallInv, TypeOK, FreshUnannounced, FreshDiffer, RowsHeld, AnswersRecorded,
                      Fresh, HoldsRow, Asked
  <2> QED BY <1>2, <2>1, <2>2, <2>3, <2>4 DEF CallNext
<1> QED BY <1>1, <1>2, PlaneStep, PTL DEF Plane

(* record_action "records an idempotent administrative command" (line      *)
(* 262): a key records one action with one event, whatever races, is       *)
(* retried or dies half way.                                               *)
THEOREM RecordingIsIdempotent == Plane => ImplementsIdempotentRegistry
<1> DEFINE announced == {op \in Operations : outbox[op] = 1}
<1>1. PlaneInit => Registry!Init
  BY DEF PlaneInit, Init, Registry!Init, Operations
<1>2. ASSUME CallInv, CallInv', [CallNext]_vars
      PROVE  Registry!Next \/ UNCHANGED <<requests, announced, told>>
  <2>1. ASSUME NEW c \in Callers, Commit(c), inserted[c] PROVE Registry!Next
    <3>1. /\ key[c] \in Keys /\ payload[c] \in Payloads
          /\ requests[key[c]] = Unused /\ operation[c] \in Operations /\ outbox[operation[c]] = 0
          /\ requests' = [requests EXCEPT ![key[c]] = Asked(c)]
          /\ outbox' = [outbox EXCEPT ![operation[c]] = 1]
      BY <1>2, <2>1, CommitWrites
    <3>2. outbox \in [Operations -> 0 .. 1]
      BY <1>2 DEF CallInv, TypeOK
    <3>3. announced' = announced \cup {operation[c]} /\ operation[c] \notin announced
      BY <3>1, <3>2
    <3>4. PICK k \in Keys, p \in Payloads, op \in Operations : k = key[c] /\ p = payload[c] /\ op = operation[c]
      BY <3>1
    <3>5. Registry!Record(k, p, op)
      BY <2>1, <3>1, <3>3, <3>4 DEF Registry!Record, Commit, Asked
    <3> QED BY <3>4, <3>5 DEF Registry!Next
  <2>2. ASSUME NEW c \in Callers, Commit(c), ~inserted[c] PROVE UNCHANGED <<requests, announced, told>>
    BY <2>2 DEF Commit, WasInserted
  <2>3. ASSUME NEW c \in Callers, Answer(c) PROVE Registry!Next
    <3>1. /\ key[c] \in Keys /\ payload[c] \in Payloads /\ operation[c] \in Operations
          /\ requests[key[c]] = Asked(c)
      BY <1>2, <2>3 DEF Answer, CallInv, AnswersRecorded
    <3>2. requests[key[c]] # Unused
      BY <3>1, UnusedIsNoRow DEF Asked, Rows
    <3>3. /\ requests[key[c]].payload = payload[c] /\ requests[key[c]].operation = operation[c]
      BY <3>1 DEF Asked
    <3>4. told' = told \cup {[key |-> key[c], payload |-> requests[key[c]].payload,
                              operation |-> requests[key[c]].operation]}
      BY <2>3, <3>3 DEF Answer
    <3>5. UNCHANGED <<requests, announced>>
      BY <2>3 DEF Answer
    <3>6. Registry!Tell(key[c])
      BY <3>2, <3>4, <3>5 DEF Registry!Tell
    <3> QED BY <3>1, <3>6 DEF Registry!Next
  <2>4. ASSUME NEW c \in Callers, Insert(c) \/ SelectExisting(c) \/ InsertOutbox(c) \/ Fail(c)
        PROVE  UNCHANGED <<requests, announced, told>>
    BY <2>4 DEF Insert, SelectExisting, InsertOutbox, Fail
  <2>5. ASSUME NEW c \in Callers, NEW k \in Keys, NEW p \in Payloads, Begin(c, k, p)
        PROVE  UNCHANGED <<requests, announced, told>>
    BY <2>5 DEF Begin
  <2>6. CASE UNCHANGED vars
    BY <2>6 DEF vars
  <2> QED BY <1>2, <2>1, <2>2, <2>3, <2>4, <2>5, <2>6 DEF CallNext, Executes
<1> HIDE DEF announced
<1>3. ASSUME CallInv, CallInv', [CallNext]_vars PROVE [Registry!Next]_<<requests, announced, told>>
  BY <1>2, <1>3
<1> QED BY <1>1, <1>3, CallsConsistent, PlaneStep, PTL
        DEF Plane, ImplementsIdempotentRegistry, Registry!Spec, announced

---------------------------------------------------------------------------
(* What has_permission said yes to holds until the principal is suspended. *)
Cleared ==
  /\ cleared \in [Callers -> DOMAIN Principals \cup {Nobody}]
  /\ suspended \subseteq DOMAIN Principals /\ early \subseteq Callers
  /\ \A c \in Callers : step[c] # "idle" => cleared[c] = Actor[payload[c]]
  /\ \A c \in Callers : cleared[c] \in suspended => c \in early

THEOREM ClearedOnes == Plane => []Cleared
<1> USE PlaneAssumption
<1>1. PlaneInit => Cleared
  BY DEF PlaneInit, Init, Cleared
<1>2. ASSUME TypeOK, Cleared, [PlaneNext]_planeVars PROVE Cleared'
  <2> USE <1>2
  <2>1. ASSUME NEW config \in Configs, NEW session \in Sessions, NEW other \in Sessions,
               ConnectRead(config, session, other) \/ ConnectWrite(config, session, other)
        PROVE  Cleared'
    BY <2>1 DEF ConnectRead, ConnectWrite, Connect, Cleared, vars
  <2>2. ASSUME NEW subject \in DOMAIN Principals, Suspend(subject) PROVE Cleared'
    BY <2>2 DEF Suspend, Cleared, vars
  <2>3. ASSUME NEW subject \in DOMAIN Principals, NEW c \in Callers, Ask(c, subject) PROVE Cleared'
    BY <2>3 DEF Ask, has_permission, Cleared, vars
  <2>4. ASSUME NEW c \in Callers, NEW k \in Keys, NEW p \in Payloads, Record(c, k, p) PROVE Cleared'
    BY <2>4 DEF Record, Begin, Cleared, TypeOK
  <2>5. ASSUME NEW c \in Callers, Proceeds(c) PROVE Cleared'
    <3>1. \A d \in Callers \ {c} : step'[d] = step[d] /\ payload'[d] = payload[d]
      BY <2>5 DEF Proceeds, Executes, Insert, SelectExisting, InsertOutbox, Commit, Answer, Fail, Ended, TypeOK
    <3>2. step'[c] = "idle" \/ (step[c] # "idle" /\ payload'[c] = payload[c])
      BY <2>5 DEF Proceeds, Executes, Insert, SelectExisting, InsertOutbox, Commit, Answer, Fail, Ended, TypeOK
    <3>3. UNCHANGED <<suspended, early>>
      BY <2>5 DEF Proceeds
    <3>4. CASE step'[c] = "idle"
      <4>1. cleared' = [cleared EXCEPT ![c] = Nobody]
        BY <2>5, <3>4 DEF Proceeds
      <4> QED BY <3>1, <3>3, <3>4, <4>1 DEF Cleared
    <3>5. CASE step'[c] # "idle"
      <4>1. cleared' = cleared
        BY <2>5, <3>5 DEF Proceeds
      <4> QED BY <3>1, <3>2, <3>3, <3>5, <4>1 DEF Cleared
    <3> QED BY <3>4, <3>5
  <2>6. CASE UNCHANGED planeVars
    BY <2>6 DEF planeVars, vars, Cleared
  <2> QED BY <2>1, <2>2, <2>3, <2>4, <2>5, <2>6 DEF PlaneNext
<1>3. CallInv => TypeOK
  BY DEF CallInv
<1> QED BY <1>1, <1>2, <1>3, CallsConsistent, PTL DEF Plane

(* A suspended principal records nothing more than what its callers had    *)
(* been cleared for before.                                                *)
THEOREM SuspensionIsKept == Plane => SuspensionHolds
<1>1. ASSUME CallInv, Cleared, [PlaneNext]_planeVars, NEW k \in Keys,
             requests'[k] # requests[k], Actor[requests'[k].payload] \in suspended
      PROVE  \E c \in early : step[c] = "commit" /\ key[c] = k
  <2>1. ~UNCHANGED requests
    BY <1>1
  <2>2. PICK c \in Callers : Commit(c) /\ inserted[c]
    <3>1. \E c \in Callers : Proceeds(c) \/ \E kk \in Keys, p \in Payloads : Record(c, kk, p)
      BY <1>1, <2>1 DEF PlaneNext, planeVars, vars, ConnectRead, ConnectWrite, Connect, Suspend, Ask
    <3>2. \E c \in Callers : Commit(c)
      BY <2>1, <3>1 DEF Proceeds, Record, Begin, Executes, Insert, SelectExisting, InsertOutbox, Answer, Fail
    <3> QED BY <2>1, <3>2 DEF Commit
  <2>3. /\ key[c] \in Keys /\ requests' = [requests EXCEPT ![key[c]] = Asked(c)] /\ step[c] = "commit"
    BY <1>1, <2>2, CommitWrites DEF Commit
  <2>4. requests \in [Keys -> Rows \cup {Unused}]
    BY <1>1 DEF CallInv, TypeOK
  <2>5. k = key[c] /\ requests'[k].payload = payload[c]
    BY <1>1, <2>3, <2>4 DEF Asked
  <2>6. cleared[c] \in suspended
    BY <1>1, <2>3, <2>5 DEF Cleared
  <2> QED BY <1>1, <2>3, <2>5, <2>6 DEF Cleared
<1>2. ASSUME CallInv, Cleared, [PlaneNext]_planeVars
      PROVE  \A k \in Keys : requests'[k] # requests[k] /\ Actor[requests'[k].payload] \in suspended =>
               \E c \in early : step[c] = "commit" /\ key[c] = k
  BY <1>1, <1>2
<1> QED BY <1>2, CallsConsistent, ClearedOnes, PTL DEF Plane, SuspensionHolds
=============================================================================
