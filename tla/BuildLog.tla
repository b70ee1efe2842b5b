------------------------------ MODULE BuildLog ------------------------------
(***************************************************************************)
(* Ingestion of one job's log, src/src/build_logs.rs: LogCursor admits the *)
(* records of one stream, plan_buffer_action decides what the writer does  *)
(* with an admitted one.  The worker that emits records, the ingester that *)
(* calls both, the table it flushes to and the network are external: the   *)
(* worker repeats what is not durable, the network reorders and repeats,   *)
(* a flush may fail and the ingester may crash, after which it starts from *)
(* the durable rows (LogCursor::from_expected).                            *)
(***************************************************************************)
EXTENDS Integers, SequencesExt

CONSTANTS
  Jobs,            \* jobs to look at: [ends, max_sequence, max_offset], the byte at
                   \* which each record ends in the order they are emitted, and
                   \* u64::MAX for each counter of the cursor
  max_records, max_buffer_bytes, max_record_bytes,   \* BufferPolicy
  MaxInFlight,     \* bound on different records under way at a time
  MaxCrashes       \* bound on crashes

ASSUME LogAssumption ==
  /\ Jobs \subseteq [ends : Seq(Nat), max_sequence : Nat, max_offset : Nat]
  /\ \A j \in Jobs : \A i \in 1 .. Len(j.ends) - 1 : j.ends[i] <= j.ends[i + 1]
  /\ MaxInFlight \in Nat \ {0} /\ MaxCrashes \in Nat
  /\ {max_records, max_buffer_bytes, max_record_bytes} \subseteq Nat \ {0}  \* BufferPolicy::new
  /\ max_record_bytes <= max_buffer_bytes

VARIABLES
  job,       \* an element of Jobs
  network,   \* records under way, each may arrive again and again
  next_sequence, next_offset_bytes,  \* LogCursor
  buffer,    \* records admitted and not yet flushed
  stored,    \* records flushed, durable
  crashes

vars == <<job, network, next_sequence, next_offset_bytes, buffer, stored, crashes>>

Total(records) == FoldLeft(LAMBDA bytes, r : bytes + r.body_bytes, 0, records)

(* The record the job emits as its n-th, counting from 0. *)
Offset(n) == IF n = 0 THEN 0 ELSE job.ends[n]
Record(n) == [sequence |-> n, offset_bytes |-> Offset(n), body_bytes |-> Offset(n + 1) - Offset(n)]
Emitted == {Record(n) : n \in 0 .. Len(job.ends) - 1}

(* A worker that lost count repeats a record at a wrong offset. *)
Misplaced == {[r EXCEPT !.offset_bytes = @ + 1] : r \in Emitted}

Init ==
  /\ job \in Jobs
  /\ network = {}
  /\ next_sequence = 0 /\ next_offset_bytes = 0
  /\ buffer = <<>> /\ stored = <<>>
  /\ crashes = 0

---------------------------------------------------------------------------
(* LogCursor::observe *)
IsNext(r) == r.sequence = next_sequence
OffsetUnchecked(r) == TRUE                          \* mutant: the offset is not compared
InPlace(r) == r.offset_bytes = next_offset_bytes
NoOverflow(r) == next_sequence + 1 <= job.max_sequence /\ next_offset_bytes + r.body_bytes <= job.max_offset

Admits(r) == IsNext(r) /\ InPlace(r) /\ NoOverflow(r)

(* plan_buffer_action *)
Oversize(r) == r.body_bytes > max_record_bytes \/ r.body_bytes > max_buffer_bytes
Fits(r) == Len(buffer) + 1 <= max_records /\ Total(buffer) + r.body_bytes <= max_buffer_bytes

SequenceOnly(r) ==      \* mutant: the offset does not move
  /\ next_sequence' = next_sequence + 1
  /\ UNCHANGED next_offset_bytes
Advance(r) ==
  /\ next_sequence' = next_sequence + 1
  /\ next_offset_bytes' = next_offset_bytes + r.body_bytes

Emit(r) ==
  /\ Cardinality(network) < MaxInFlight
  /\ network' = network \cup {r}
  /\ UNCHANGED <<job, next_sequence, next_offset_bytes, buffer, stored, crashes>>

Enqueue(r) ==
  /\ ~Oversize(r) /\ Admits(r) /\ Fits(r)
  /\ Advance(r)
  /\ buffer' = Append(buffer, r)
  /\ UNCHANGED <<job, network, stored, crashes>>

FlushThenEnqueue(r) ==
  /\ ~Oversize(r) /\ Admits(r) /\ ~Fits(r)
  /\ stored' = stored \o buffer
  /\ Advance(r)
  /\ buffer' = <<r>>
  /\ UNCHANGED <<job, network, crashes>>

(* Oversize, Duplicate, Gap, OffsetMismatch, an overflow: nothing changes  *)
(* but that the message is gone.                                           *)
Refuse(r) ==
  /\ Oversize(r) \/ ~Admits(r)
  /\ network' = network \ {r}
  /\ UNCHANGED <<job, next_sequence, next_offset_bytes, buffer, stored, crashes>>

Flush ==
  /\ buffer # <<>>
  /\ stored' = stored \o buffer /\ buffer' = <<>>
  /\ UNCHANGED <<job, network, next_sequence, next_offset_bytes, crashes>>

(* LogCursor::from_expected, with what the last row says. *)
Resumed(rows) ==
  IF rows = <<>> THEN [sequence |-> 0, offset_bytes |-> 0]
  ELSE LET last == rows[Len(rows)] IN
         [sequence |-> last.sequence + 1, offset_bytes |-> last.offset_bytes + last.body_bytes]

Crash ==
  /\ crashes < MaxCrashes
  /\ crashes' = crashes + 1
  /\ buffer' = <<>>
  /\ next_sequence' = Resumed(stored).sequence
  /\ next_offset_bytes' = Resumed(stored).offset_bytes
  /\ UNCHANGED <<job, network, stored>>

Next ==
  \/ \E r \in Emitted \cup Misplaced : Emit(r)
  \/ \E r \in network : Enqueue(r) \/ FlushThenEnqueue(r) \/ Refuse(r)
  \/ Flush \/ Crash

Spec == Init /\ [][Next]_vars

Positions == 0 .. Max({Len(j.ends) : j \in Jobs}) - 1
Repeat(n) == n < Len(job.ends) /\ Emit(Record(n))
Serve(n) ==
  /\ n < Len(job.ends) /\ Record(n) \in network
  /\ Enqueue(Record(n)) \/ FlushThenEnqueue(Record(n))

(* The worker repeats every record, the network lets each through again    *)
(* and again, and the ingester serves what arrives; a timer flushes.       *)
Fairness ==
  /\ \A n \in Positions : SF_vars(Repeat(n)) /\ SF_vars(Serve(n))
  /\ WF_vars(\E r \in network : Refuse(r))
  /\ WF_vars(Flush)

---------------------------------------------------------------------------
Admitted == stored \o buffer
Storable ==
  {n \in 1 .. Len(job.ends) :
     /\ n <= job.max_sequence /\ Offset(n) <= job.max_offset
     /\ \A i \in 1 .. n : ~Oversize(Record(i - 1))}

TypeOK ==
  /\ job \in Jobs
  /\ network \subseteq Emitted \cup Misplaced
  /\ next_sequence \in 0 .. job.max_sequence /\ next_offset_bytes \in 0 .. job.max_offset
  /\ buffer \in Seq(Emitted) /\ stored \in Seq(Emitted)
  /\ crashes \in 0 .. MaxCrashes

(* What is admitted is what the job emitted, each record once, in order,   *)
(* at its place, whatever the network, failed records and crashes do; so   *)
(* the stored log never has a hole.                                        *)
LogIsExact == Admitted = [i \in 1 .. Len(Admitted) |-> Record(i - 1)]
===========================================================================
