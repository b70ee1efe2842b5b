--------------------------- MODULE LogPath_proof ---------------------------
(***************************************************************************)
(* Proofs about the whole way of a log.  PInv joins two inductive          *)
(* invariants: the ingester's cursor stands exactly after what it          *)
(* admitted (Ingested), and whatever the viewer took, lost or is about to  *)
(* receive lies within the rows that are stored (Followed).                *)
(***************************************************************************)
EXTENDS LogPath, SequenceTheorems, TLAPS

Ingested ==
  /\ job \in Jobs
  /\ network \subseteq Emitted \cup Misplaced
  /\ stored \in Seq(Emitted) /\ buffer \in Seq(Emitted)
  /\ Len(stored) + Len(buffer) <= Len(job.ends)
  /\ \A i \in 1 .. Len(stored) : stored[i] = Record(i - 1)
  /\ \A i \in 1 .. Len(buffer) : buffer[i] = Record(Len(stored) + i - 1)
  /\ next_sequence = Len(stored) + Len(buffer)
  /\ next_offset_bytes = Offset(next_sequence)

Followed ==
  /\ earliest \in Nat /\ earliest <= Len(stored)
  /\ streamed \in Nat
  /\ last_seen \in Nat \cup {None}
  /\ last_seen # None => last_seen < Len(stored)
  /\ toClient \in Seq(0 .. Len(stored) - 1)
  /\ got \in Seq(Nat)
  /\ \A i \in 1 .. Len(got) : got[i] < Viewer!Expected
  /\ \A i, j \in 1 .. Len(got) : i < j => got[i] < got[j]
  /\ lost \subseteq 0 .. earliest - 1
  /\ Viewer!Got \cup lost = 0 .. Viewer!Expected - 1
  /\ Viewer!Got \cap lost = {}

PInv == Ingested /\ Followed

---------------------------------------------------------------------------
(* A record of the job starts where the one before it ends. *)
LEMMA RecordsAbut ==
  ASSUME job \in Jobs, NEW n \in 0 .. Len(job.ends) - 1
  PROVE  /\ Offset(n) \in Nat /\ Offset(n + 1) \in Nat
         /\ Record(n).body_bytes \in Nat
         /\ Offset(n) + Record(n).body_bytes = Offset(n + 1)
<1>1. /\ job.ends \in Seq(Nat)
      /\ \A i \in 1 .. Len(job.ends) - 1 : job.ends[i] <= job.ends[i + 1]
  BY LogAssumption
<1>2. n \in Nat /\ n + 1 \in 1 .. Len(job.ends) /\ (n # 0 => n \in 1 .. Len(job.ends) - 1)
  BY <1>1
<1>3. job.ends[n + 1] \in Nat /\ (n # 0 => job.ends[n] \in Nat)
  BY <1>1, <1>2
<1>4. n # 0 => job.ends[n] <= job.ends[n + 1]
  BY <1>1, <1>2
<1> QED BY <1>2, <1>3, <1>4 DEF Offset, Record

(* What the cursor admits is the record the job emitted at that place. *)
LEMMA AdmittedIsNext ==
  ASSUME Ingested, NEW r \in network, Admits(r)
  PROVE  /\ next_sequence \in 0 .. Len(job.ends) - 1
         /\ r = Record(next_sequence)
         /\ r \in Emitted
<1>0. next_sequence \in Nat /\ job.ends \in Seq(Nat)
  BY LogAssumption DEF Ingested
<1>1. CASE r \in Emitted
  <2> PICK n \in 0 .. Len(job.ends) - 1 : r = Record(n)
    BY <1>1 DEF Emitted
  <2> n = next_sequence
    BY DEF Admits, IsNext, Record
  <2> QED BY <1>1
<1>2. CASE r \in Misplaced
  <2> PICK n \in 0 .. Len(job.ends) - 1 : r = [Record(n) EXCEPT !.offset_bytes = @ + 1]
    BY <1>2 DEF Emitted, Misplaced
  <2>1. r.sequence = n /\ r.offset_bytes = Offset(n) + 1
    BY DEF Record
  <2>2. n = next_sequence
    BY <2>1 DEF Admits, IsNext
  <2>3. Offset(n) \in Nat
    BY RecordsAbut DEF Ingested
  <2> QED BY <2>1, <2>2, <2>3 DEF Admits, InPlace, Ingested
<1> QED BY <1>1, <1>2 DEF Ingested

(* An operator on the job alone keeps its value when the job does not change. *)
LEMMA SameJob ==
  ASSUME job' = job
  PROVE  Emitted' = Emitted /\ Misplaced' = Misplaced
BY DEF Emitted, Misplaced, Record, Offset

LEMMA IngestedStep == Ingested /\ [Next]_vars => Ingested'
<1> SUFFICES ASSUME Ingested, [Next]_vars PROVE Ingested'
  OBVIOUS
<1> USE DEF Ingested
<1>0. /\ job.ends \in Seq(Nat) /\ Len(job.ends) \in Nat
      /\ Len(stored) \in Nat /\ Len(buffer) \in Nat /\ next_sequence \in Nat
  BY LogAssumption
<1>1. ASSUME NEW r \in Emitted \cup Misplaced, Emit(r) PROVE Ingested'
  BY <1>1, SameJob DEF Emit, Record, Offset
<1>2. ASSUME NEW r \in network, Enqueue(r) PROVE Ingested'
  <2>1. /\ next_sequence \in 0 .. Len(job.ends) - 1 /\ r = Record(next_sequence) /\ r \in Emitted
    BY <1>2, AdmittedIsNext DEF Enqueue
  <2>2. Offset(next_sequence) + r.body_bytes = Offset(next_sequence + 1)
    BY <2>1, RecordsAbut
  <2>3. /\ job' = job /\ network' = network /\ stored' = stored /\ buffer' = Append(buffer, r)
        /\ next_sequence' = next_sequence + 1
        /\ next_offset_bytes' = next_offset_bytes + r.body_bytes
    BY <1>2 DEF Enqueue, Advance
  <2>4. Emitted' = Emitted /\ Misplaced' = Misplaced
    BY <2>3, SameJob
  <2>5. buffer' \in Seq(Emitted) /\ Len(buffer') = Len(buffer) + 1
    BY <2>1, <2>3
  <2>6. \A i \in 1 .. Len(buffer') : buffer'[i] = Record(Len(stored) + i - 1)
    <3> SUFFICES ASSUME NEW i \in 1 .. Len(buffer') PROVE buffer'[i] = Record(Len(stored) + i - 1)
      OBVIOUS
    <3>1. CASE i = Len(buffer) + 1
      <4> buffer'[i] = r /\ Len(stored) + i - 1 = next_sequence
        BY <2>3, <3>1, <1>0
      <4> QED BY <2>1
    <3>2. CASE i \in 1 .. Len(buffer)
      <4>1. buffer'[i] = buffer[i]
        BY <2>1, <2>3, <3>2
      <4>2. buffer[i] = Record(Len(stored) + i - 1)
        BY <3>2
      <4> QED BY <4>1, <4>2
    <3> QED BY <2>5, <3>1, <3>2, <1>0
  <2>7. next_offset_bytes' = Offset(next_sequence')
    BY <2>2, <2>3
  <2>8. (\A i \in 1 .. Len(stored) : stored[i] = Record(i - 1))'
    BY <2>3 DEF Record, Offset
  <2>9. (\A i \in 1 .. Len(buffer) : buffer[i] = Record(Len(stored) + i - 1))'
    BY <2>3, <2>6 DEF Record, Offset
  <2>10. (next_offset_bytes = Offset(next_sequence))'
    BY <2>3, <2>7 DEF Offset
  <2>11. (stored \in Seq(Emitted) /\ job \in Jobs /\ network \subseteq Emitted \cup Misplaced)'
    BY <2>3, <2>4
  <2>12. Len(stored') + Len(buffer') <= Len(job'.ends) /\ next_sequence' = Len(stored') + Len(buffer')
    BY <2>1, <2>3, <2>5, <1>0
  <2> QED BY <2>4, <2>5, <2>8, <2>9, <2>10, <2>11, <2>12
<1>3. ASSUME NEW r \in network, FlushThenEnqueue(r) PROVE Ingested'
  <2>1. /\ next_sequence \in 0 .. Len(job.ends) - 1 /\ r = Record(next_sequence) /\ r \in Emitted
    BY <1>3, AdmittedIsNext DEF FlushThenEnqueue
  <2>2. Offset(next_sequence) + r.body_bytes = Offset(next_sequence + 1)
    BY <2>1, RecordsAbut
  <2>3. /\ job' = job /\ network' = network /\ stored' = stored \o buffer /\ buffer' = <<r>>
        /\ next_sequence' = next_sequence + 1
        /\ next_offset_bytes' = next_offset_bytes + r.body_bytes
    BY <1>3 DEF FlushThenEnqueue, Advance
  <2>4. Emitted' = Emitted /\ Misplaced' = Misplaced
    BY <2>3, SameJob
  <2>5. stored' \in Seq(Emitted) /\ Len(stored') = Len(stored) + Len(buffer)
    BY <2>3
  <2>6. \A i \in 1 .. Len(stored') : stored'[i] = Record(i - 1)
    BY <2>3, <2>5, <1>0
  <2>7. buffer' \in Seq(Emitted) /\ Len(buffer') = 1 /\ buffer'[1] = Record(Len(stored'))
    BY <2>1, <2>3, <2>5
  <2>8. next_offset_bytes' = Offset(next_sequence')
    BY <2>2, <2>3
  <2>9. (\A i \in 1 .. Len(stored) : stored[i] = Record(i - 1))'
    BY <2>3, <2>6 DEF Record, Offset
  <2>10. (\A i \in 1 .. Len(buffer) : buffer[i] = Record(Len(stored) + i - 1))'
    <3> SUFFICES ASSUME NEW i \in 1 .. Len(buffer') PROVE (buffer[i] = Record(Len(stored) + i - 1))'
      OBVIOUS
    <3>1. i = 1 /\ Len(stored') + i - 1 = Len(stored')
      BY <2>5, <2>7, <1>0
    <3> QED BY <2>3, <2>7, <3>1 DEF Record, Offset
  <2>11. (next_offset_bytes = Offset(next_sequence))'
    BY <2>3, <2>8 DEF Offset
  <2>12. (job \in Jobs /\ network \subseteq Emitted \cup Misplaced)'
    BY <2>3, <2>4
  <2>13. Len(stored') + Len(buffer') <= Len(job'.ends) /\ next_sequence' = Len(stored') + Len(buffer')
    BY <2>1, <2>3, <2>5, <2>7, <1>0
  <2> QED BY <2>4, <2>5, <2>7, <2>9, <2>10, <2>11, <2>12, <2>13
<1>4. ASSUME NEW r \in network, Refuse(r) PROVE Ingested'
  BY <1>4, SameJob DEF Refuse, Record, Offset
<1>5. CASE Flush
  <2>1. /\ job' = job /\ network' = network /\ stored' = stored \o buffer /\ buffer' = <<>>
        /\ next_sequence' = next_sequence /\ next_offset_bytes' = next_offset_bytes
    BY <1>5 DEF Flush
  <2>2. Emitted' = Emitted /\ Misplaced' = Misplaced
    BY <2>1, SameJob
  <2>3. stored' \in Seq(Emitted) /\ Len(stored') = Len(stored) + Len(buffer)
    BY <2>1
  <2>4. \A i \in 1 .. Len(stored') : stored'[i] = Record(i - 1)
    BY <2>1, <2>3, <1>0
  <2> QED BY <2>1, <2>2, <2>3, <2>4, <1>0 DEF Record, Offset
<1>6. CASE Crash
  <2>1. /\ job' = job /\ network' = network /\ stored' = stored /\ buffer' = <<>>
        /\ next_sequence' = Resumed(stored).sequence
        /\ next_offset_bytes' = Resumed(stored).offset_bytes
    BY <1>6 DEF Crash
  <2>2. Emitted' = Emitted /\ Misplaced' = Misplaced
    BY <2>1, SameJob
  <2>3. Resumed(stored).sequence = Len(stored) /\ Resumed(stored).offset_bytes = Offset(Len(stored))
    <3>1. CASE stored = <<>>
      BY <3>1 DEF Resumed, Offset
    <3>2. CASE stored # <<>>
      <4> DEFINE last == Len(stored) - 1
      <4>1. last \in 0 .. Len(job.ends) - 1 /\ stored[Len(stored)] = Record(last)
        BY <3>2, <1>0
      <4>2. Offset(last) + Record(last).body_bytes = Offset(last + 1)
        BY <4>1, RecordsAbut
      <4>3. Record(last).sequence = last /\ Record(last).offset_bytes = Offset(last)
        BY DEF Record
      <4> QED BY <3>2, <4>1, <4>2, <4>3, <1>0 DEF Resumed
    <3> QED BY <3>1, <3>2
  <2> QED BY <2>1, <2>2, <2>3, <1>0 DEF Record, Offset
<1>7. CASE UNCHANGED vars
  BY <1>7, SameJob DEF vars, Record, Offset
<1> QED BY <1>1, <1>2, <1>3, <1>4, <1>5, <1>6, <1>7 DEF Next

(* The table only grows. *)
LEMMA StoredGrows ==
  ASSUME Ingested, [Next]_vars
  PROVE  /\ Len(stored) \in Nat /\ Len(stored') \in Nat /\ Len(stored') >= Len(stored)
<1> USE DEF Ingested
<1>1. stored' = stored \/ stored' = stored \o buffer
  BY DEF Next, vars, Emit, Enqueue, FlushThenEnqueue, Refuse, Flush, Crash
<1> QED BY <1>1

---------------------------------------------------------------------------
LEMMA FollowedWhileIngesting ==
  ASSUME Ingested, Followed, [Next]_vars, UNCHANGED viewer
  PROVE  Followed'
<1>1. Len(stored) \in Nat /\ Len(stored') \in Nat /\ Len(stored') >= Len(stored)
  BY StoredGrows
<1>2. toClient' \in Seq(0 .. Len(stored') - 1)
  <2>1. toClient \in Seq(0 .. Len(stored) - 1) /\ toClient' = toClient
    BY DEF Followed, viewer
  <2>2. 0 .. Len(stored) - 1 \subseteq 0 .. Len(stored') - 1
    BY <1>1
  <2> QED BY <2>1, <2>2
<1>3. Viewer!Expected' = Viewer!Expected /\ Viewer!Got' = Viewer!Got
  BY DEF viewer, Viewer!Expected, Viewer!Got
<1> QED BY <1>1, <1>2, <1>3 DEF Followed, viewer

(* Where a client that has to miss rows goes on. *)
LEMMA SkipAnnounces ==
  ASSUME Followed, Ingested, NEW n \in Nat, n >= Viewer!Expected, n <= earliest, Viewer!Skip(n),
         UNCHANGED <<earliest, got, stored>>, toClient' = toClient, streamed' \in Nat
  PROVE  Followed'
<1>0. None \notin Nat /\ Viewer!Expected \in Nat /\ Len(stored) \in Nat /\ earliest \in Nat
  BY ReplayAssumption DEF Followed, Ingested, Viewer!Expected
<1>1. Viewer!Expected' = n
  BY <1>0 DEF Viewer!Skip, Viewer!Expected
<1>2. last_seen' \in Nat \cup {None} /\ (last_seen' # None => last_seen' < Len(stored))
  BY <1>0 DEF Viewer!Skip, Followed
<1>3. lost' = lost \cup (Viewer!Expected .. n - 1)
  BY DEF Viewer!Skip
<1>4. Viewer!Got' = Viewer!Got /\ \A m \in Viewer!Got : m \in Nat /\ m < Viewer!Expected
  BY DEF Viewer!Got, Followed
<1>5. Viewer!Got' \cup lost' = 0 .. n - 1 /\ Viewer!Got' \cap lost' = {}
  BY <1>0, <1>3, <1>4 DEF Followed
<1>6. lost' \subseteq 0 .. earliest - 1
  BY <1>0, <1>3 DEF Followed
<1>7. \A i \in 1 .. Len(got) : got[i] < n
  BY <1>0 DEF Followed
<1> QED BY <1>0, <1>1, <1>2, <1>5, <1>6, <1>7 DEF Followed

LEMMA ConnectFollows ==
  ASSUME Ingested, Followed, Viewer!Connect, UNCHANGED vars
  PROVE  Followed'
<1> USE DEF Viewer!Replay, Viewer!UpToDate, Viewer!WindowLost
<1>0. /\ None \notin Nat /\ Viewer!Expected \in Nat /\ Len(stored) \in Nat /\ earliest \in Nat
      /\ stored' = stored /\ earliest' = earliest /\ toClient' = toClient /\ got' = got
  BY ReplayAssumption DEF Followed, Ingested, Viewer!Expected, Viewer!Connect, vars
<1>1. Viewer!Window.earliest \in Nat /\ Viewer!Window.earliest <= earliest
  BY <1>0 DEF Viewer!Window, Viewer!Retained
<1>2. CASE last_seen = None
  <2>1. answer' = Viewer!Replay(Viewer!Window.earliest, Viewer!Window.latest)
    BY <1>2 DEF Viewer!Connect, Viewer!plan_resume, Viewer!EarliestKept
  <2>2. Viewer!Skip(Viewer!Window.earliest) /\ streamed' = Viewer!Window.earliest
    BY <1>2, <2>1 DEF Viewer!Connect
  <2>3. Viewer!Expected = 0
    BY <1>2 DEF Viewer!Expected
  <2> QED BY <1>0, <1>1, <2>2, <2>3, SkipAnnounces
<1>3. CASE last_seen # None
  <2>0. last_seen \in Nat /\ Viewer!Expected = last_seen + 1
    BY <1>3 DEF Followed, Viewer!Expected
  <2>1. CASE answer'.kind = "WindowLost"
    <3>1. /\ Viewer!BeforeWindow(Viewer!Wanted(last_seen), Viewer!Window.earliest)
          /\ answer' = Viewer!WindowLost(Viewer!Window.earliest)
      BY <1>3, <2>1 DEF Viewer!Connect, Viewer!plan_resume, Viewer!EarliestKept
    <3>2. Viewer!Skip(Viewer!Window.earliest) /\ streamed' = Viewer!Window.earliest
      BY <2>1, <3>1 DEF Viewer!Connect
    <3>3. Viewer!Window.earliest >= Viewer!Expected
      BY <1>1, <2>0, <3>1 DEF Viewer!BeforeWindow, Viewer!Wanted
    <3> QED BY <1>0, <1>1, <3>2, <3>3, SkipAnnounces
  <2>2. CASE answer'.kind # "WindowLost"
    <3>1. last_seen' = last_seen /\ lost' = lost
      BY <1>3, <2>2 DEF Viewer!Connect
    <3>2. streamed' \in Nat
      BY <1>0, <1>3, <2>0, <2>2 DEF Viewer!Connect, Viewer!plan_resume, Viewer!Wanted
    <3>3. Viewer!Expected' = Viewer!Expected /\ Viewer!Got' = Viewer!Got
      BY <1>0, <3>1 DEF Viewer!Expected, Viewer!Got
    <3> QED BY <1>0, <3>1, <3>2, <3>3 DEF Followed
  <2> QED BY <2>1, <2>2
<1> QED BY <1>2, <1>3

LEMMA StreamFollows ==
  ASSUME Ingested, Followed, Viewer!Stream, UNCHANGED vars
  PROVE  Followed'
<1> DEFINE rows == Viewer!RowsAfter(streamed - 1)
           first == Viewer!FirstAfter(streamed - 1)
           size == Viewer!Capped(Len(stored) - first)
<1>0. /\ Len(stored) \in Nat /\ earliest \in Nat /\ streamed \in Nat /\ Limit \in Nat
      /\ stored' = stored
      /\ UNCHANGED <<earliest, last_seen, got, lost>>
  BY ReplayAssumption DEF Followed, Ingested, vars, Viewer!Stream
<1>1. first \in Nat /\ size \in Int /\ size <= Len(stored) - first
  <2>1. first \in Nat
    BY <1>0 DEF Viewer!FirstAfter
  <2> HIDE DEF first
  <2> QED BY <1>0, <2>1 DEF Viewer!Capped
<1>2. rows = [i \in 1 .. size |-> first + i - 1]
  BY DEF Viewer!RowsAfter
<1>3. rows # <<>> /\ toClient' = toClient \o rows /\ streamed' = rows[Len(rows)] + 1
  BY DEF Viewer!Stream
<1>4. size \in Nat /\ size > 0
  <2> HIDE DEF size, first, rows
  <2> SUFFICES ASSUME ~(size > 0) PROVE FALSE
    BY <1>1
  <2>1. rows = [i \in 1 .. 0 |-> first + i - 1]
    <3> 1 .. size = 1 .. 0
      BY <1>1
    <3> QED BY <1>2
  <2>2. rows \in Seq(Int) /\ Len(rows) = 0
    BY <1>1, <2>1
  <2> QED BY <1>3, <2>2, EmptySeq
<1>5. rows \in Seq(0 .. Len(stored) - 1) /\ Len(rows) = size
  <2>1. \A i \in 1 .. size : first + i - 1 \in 0 .. Len(stored) - 1
    BY <1>0, <1>1
  <2> HIDE DEF size, first
  <2> QED BY <1>2, <1>4, <2>1
<1>6. toClient' \in Seq(0 .. Len(stored) - 1)
  BY <1>3, <1>5 DEF Followed
<1>7. streamed' \in Nat
  <2> rows[Len(rows)] \in 0 .. Len(stored) - 1
    BY <1>4, <1>5
  <2> HIDE DEF rows
  <2> QED BY <1>3
<1>8. Viewer!Expected' = Viewer!Expected /\ Viewer!Got' = Viewer!Got
  BY <1>0 DEF Viewer!Expected, Viewer!Got
<1> QED BY <1>0, <1>6, <1>7, <1>8 DEF Followed

LEMMA TakeFollows ==
  ASSUME Ingested, Followed, Viewer!Take, UNCHANGED vars
  PROVE  Followed'
<1> DEFINE n == Head(toClient)
<1>0. /\ None \notin Nat /\ Len(stored) \in Nat /\ Viewer!Expected \in Nat
      /\ stored' = stored /\ Len(got) \in Nat
      /\ UNCHANGED <<earliest, streamed, lost>>
      /\ toClient # <<>> /\ toClient' = Tail(toClient)
  <2>1. None \notin Nat /\ Len(stored) \in Nat /\ Len(got) \in Nat
    BY ReplayAssumption DEF Followed, Ingested
  <2>2. Viewer!Expected \in Nat
    BY ReplayAssumption DEF Followed, Viewer!Expected
  <2>3. stored' = stored
    BY DEF vars
  <2>4. UNCHANGED <<earliest, streamed, lost>> /\ toClient # <<>> /\ toClient' = Tail(toClient)
    BY DEF Viewer!Take
  <2> QED BY <2>1, <2>2, <2>3, <2>4
<1>1. n \in 0 .. Len(stored) - 1 /\ toClient' \in Seq(0 .. Len(stored) - 1)
  BY <1>0 DEF Followed
<1>2. n = Viewer!Expected /\ last_seen' = n /\ got' = Append(got, n)
  BY DEF Viewer!Take, Viewer!Accepts
<1>3. Viewer!Expected' = n + 1
  BY <1>0, <1>1, <1>2 DEF Viewer!Expected
<1> HIDE DEF n
<1>4. got' \in Seq(Nat) /\ Len(got') = Len(got) + 1 /\ got'[Len(got) + 1] = n
      /\ \A i \in 1 .. Len(got) : got'[i] = got[i]
  BY <1>0, <1>1, <1>2 DEF Followed
<1>10. \A i \in 1 .. Len(got') : i = Len(got) + 1 \/ i \in 1 .. Len(got)
  BY <1>0, <1>4
<1>5. \A i \in 1 .. Len(got') : got'[i] < n + 1
  <2> SUFFICES ASSUME NEW i \in 1 .. Len(got') PROVE got'[i] < n + 1
    OBVIOUS
  <2>1. CASE i = Len(got) + 1
    BY <1>1, <1>4, <2>1
  <2>2. CASE i \in 1 .. Len(got)
    <3>1. got'[i] = got[i] /\ got[i] < n /\ got[i] \in Nat
      BY <1>2, <1>4, <2>2 DEF Followed
    <3> QED BY <1>1, <3>1
  <2> QED BY <1>10, <2>1, <2>2
<1>6. \A i, j \in 1 .. Len(got') : i < j => got'[i] < got'[j]
  <2> SUFFICES ASSUME NEW i \in 1 .. Len(got'), NEW j \in 1 .. Len(got'), i < j
               PROVE  got'[i] < got'[j]
    OBVIOUS
  <2>0. i \in 1 .. Len(got)
    BY <1>0, <1>4
  <2>1. CASE j = Len(got) + 1
    BY <1>2, <1>4, <2>0, <2>1 DEF Followed
  <2>2. CASE j \in 1 .. Len(got)
    <3>1. got'[i] = got[i] /\ got'[j] = got[j]
      BY <1>4, <2>0, <2>2
    <3> QED BY <2>0, <2>2, <3>1 DEF Followed
  <2> QED BY <1>10, <2>1, <2>2
<1>7. Viewer!Got' = Viewer!Got \cup {n}
  <2>1. 1 .. Len(got') = 1 .. Len(got) \cup {Len(got) + 1}
    BY <1>0, <1>4
  <2>2. Viewer!Got' = {got'[i] : i \in 1 .. Len(got')}
    BY DEF Viewer!Got
  <2> QED BY <1>4, <2>1, <2>2 DEF Viewer!Got
<1>8. Viewer!Got' \cup lost = 0 .. n
  BY <1>0, <1>1, <1>2, <1>7 DEF Followed
<1>9. Viewer!Got' \cap lost = {}
  <2> n \notin lost
    BY <1>0, <1>1, <1>2 DEF Followed
  <2> QED BY <1>7 DEF Followed
<1>11. (/\ earliest \in Nat /\ earliest <= Len(stored) /\ streamed \in Nat
        /\ lost \subseteq 0 .. earliest - 1)'
  BY <1>0 DEF Followed
<1>12. n \in Nat /\ n < Len(stored) /\ (n + 1) - 1 = n
  BY <1>0, <1>1
<1>13. (/\ last_seen \in Nat \cup {None} /\ (last_seen # None => last_seen < Len(stored))
        /\ toClient \in Seq(0 .. Len(stored) - 1))'
  BY <1>0, <1>1, <1>2, <1>12
<1> QED BY <1>3, <1>4, <1>5, <1>6, <1>8, <1>9, <1>0, <1>11, <1>12, <1>13 DEF Followed

LEMMA FollowedWhileViewing ==
  ASSUME Ingested, Followed, UNCHANGED vars, Viewer!Next
  PROVE  Followed'
<1>1. ASSUME stored' = stored, UNCHANGED <<streamed, last_seen, got, lost>>,
             earliest \in Nat, earliest' \in Nat, Len(stored) \in Nat,
             earliest' <= Len(stored), earliest' >= earliest,
             toClient' = toClient \/ toClient' = <<>>
      PROVE  Followed'
  <2>1. Viewer!Expected' = Viewer!Expected /\ Viewer!Got' = Viewer!Got
    BY <1>1 DEF Viewer!Expected, Viewer!Got
  <2>2. lost' \subseteq 0 .. earliest' - 1
    <3>1. lost' \subseteq 0 .. earliest - 1
      BY <1>1 DEF Followed
    <3>2. earliest \in Nat /\ earliest' \in Nat /\ earliest' >= earliest
      BY <1>1
    <3>3. \A e, f \in Nat : f >= e => 0 .. e - 1 \subseteq 0 .. f - 1
      OBVIOUS
    <3> QED BY <3>1, <3>2, <3>3
  <2>3. toClient' \in Seq(0 .. Len(stored) - 1)
    <3>1. toClient \in Seq(0 .. Len(stored) - 1) /\ <<>> \in Seq(0 .. Len(stored) - 1)
      BY DEF Followed
    <3>2. toClient' = toClient \/ toClient' = <<>>
      BY <1>1
    <3> QED BY <3>1, <3>2
  <2> QED BY <1>1, <2>1, <2>2, <2>3 DEF Followed
<1>2. Len(stored) \in Nat /\ earliest \in Nat /\ earliest <= Len(stored) /\ stored' = stored /\ Kept \in Nat
  BY ReplayAssumption DEF Ingested, Followed, vars
<1>3. CASE Viewer!Delete
  BY <1>1, <1>2, <1>3 DEF Viewer!Delete
<1>4. CASE Viewer!Connect
  BY <1>4, ConnectFollows
<1>5. CASE Viewer!Stream
  BY <1>5, StreamFollows
<1>6. CASE Viewer!Take
  BY <1>6, TakeFollows
<1>7. CASE Viewer!OutOfOrder
  BY <1>1, <1>2, <1>7 DEF Viewer!OutOfOrder
<1>8. CASE Viewer!Break
  BY <1>1, <1>2, <1>8 DEF Viewer!Break
<1> QED BY <1>3, <1>4, <1>5, <1>6, <1>7, <1>8 DEF Viewer!Next

---------------------------------------------------------------------------
LEMMA InitPInv == PathInit => PInv
<1> SUFFICES ASSUME PathInit PROVE PInv
  OBVIOUS
<1> USE DEF PathInit, Init, Viewer!Init
<1>1. Ingested
  BY LogAssumption DEF Ingested, Offset
<1>2. Viewer!Expected = 0 /\ Viewer!Got = {}
  BY DEF Viewer!Expected, Viewer!Got
<1> QED BY <1>1, <1>2 DEF PInv, Followed

LEMMA StepPInv == PInv /\ [PathNext]_<<vars, viewer>> => PInv'
<1> SUFFICES ASSUME PInv, [PathNext]_<<vars, viewer>> PROVE PInv'
  OBVIOUS
<1>1. CASE Next /\ UNCHANGED viewer
  BY <1>1, IngestedStep, FollowedWhileIngesting DEF PInv
<1>2. CASE UNCHANGED vars /\ Viewer!Next
  BY <1>2, IngestedStep, FollowedWhileViewing DEF PInv
<1>3. CASE UNCHANGED <<vars, viewer>>
  BY <1>3, IngestedStep, FollowedWhileIngesting DEF PInv
<1> QED BY <1>1, <1>2, <1>3 DEF PathNext

THEOREM PathIsInductive == Path => []PInv
BY InitPInv, StepPInv, PTL DEF Path

(* Whatever the network and crashes do, the table and the buffer hold the  *)
(* records of the job in order, each once and at its place                 *)
(* (LogCursor::observe, plan_buffer_action, from_expected).                *)
THEOREM IngestionIsExact == Path => []LogIsExact
<1>1. PInv => LogIsExact
  <2> SUFFICES ASSUME PInv PROVE Admitted = [i \in 1 .. Len(Admitted) |-> Record(i - 1)]
    BY DEF LogIsExact
  <2> USE DEF PInv, Ingested, Admitted
  <2>1. Admitted \in Seq(Emitted) /\ Len(Admitted) = Len(stored) + Len(buffer)
    OBVIOUS
  <2>2. Len(stored) \in Nat /\ Len(buffer) \in Nat
    OBVIOUS
  <2>3. \A i \in 1 .. Len(Admitted) : Admitted[i] = Record(i - 1)
    BY <2>1, <2>2
  <2> HIDE DEF Admitted
  <2>4. Admitted = [i \in 1 .. Len(Admitted) |-> Admitted[i]]
    BY <2>1
  <2> QED BY <2>3, <2>4
<1> QED BY <1>1, PathIsInductive, PTL

(* What the viewer took and what it was told is gone are, together, every  *)
(* row up to the last it saw, each once and in order, and the rows it took *)
(* are the job's records (plan_resume, Sequencer::accept).                 *)
THEOREM ViewerIsExact == Path => []ReplayIsExact
<1>1. PInv => ReplayIsExact
  <2> SUFFICES ASSUME PInv PROVE ReplayIsExact
    OBVIOUS
  <2>1. Viewer!ReplayIsExact
    BY DEF PInv, Followed, Viewer!ReplayIsExact
  <2>2. \A i \in 1 .. Len(got) : got[i] \in Nat /\ got[i] < Len(stored)
    <3>1. Len(stored) \in Nat /\ Viewer!Expected \in Nat /\ Viewer!Expected <= Len(stored)
      BY ReplayAssumption DEF PInv, Followed, Ingested, Viewer!Expected
    <3> QED BY <3>1 DEF PInv, Followed
  <2>3. ASSUME NEW i \in 1 .. Len(got) PROVE stored[got[i] + 1] = Record(got[i])
    <3>1. Len(stored) \in Nat /\ got[i] + 1 \in 1 .. Len(stored) /\ (got[i] + 1) - 1 = got[i]
      BY <2>2 DEF PInv, Ingested
    <3> QED BY <3>1 DEF PInv, Ingested
  <2> QED BY <2>1, <2>3 DEF ReplayIsExact
<1> QED BY <1>1, PathIsInductive, PTL

(* Nothing is announced as gone that retention has not deleted             *)
(* (plan_resume's WindowLost, log_chunk_window).                           *)
THEOREM AnnouncedIsDeleted == Path => []LostIsDeleted
<1>1. PInv => LostIsDeleted
  BY DEF PInv, Followed, LostIsDeleted, Viewer!LostIsDeleted
<1> QED BY <1>1, PathIsInductive, PTL
===========================================================================
