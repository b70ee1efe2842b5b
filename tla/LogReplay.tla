----------------------------- MODULE LogReplay -----------------------------
(***************************************************************************)
(* Following one job's log over the websocket: Sequencer and plan_resume   *)
(* of src/src/protocol/ws.rs with the rows that log_chunk_window and       *)
(* log_chunks_after of src/src/query/runs.rs return.  The module is open:  *)
(* whoever instantiates it says how the table grows (produced).  The       *)
(* retention of run_log_chunks, the connection and the two loops are       *)
(* external: a client reconnects with the last sequence it saw, a server   *)
(* answers with plan_resume, replays or streams rows Limit at a time under *)
(* their own sequence, and the client closes on OutOfOrder.                *)
(***************************************************************************)
EXTENDS Integers, Sequences

CONSTANTS
  Limit,      \* log_chunks_after's limit
  Kept,       \* chunks that retention never deletes, the latest ones; when it
              \* may be none, the window of a log that lost all its chunks reads
              \* (0, 0) and plan_resume answers UpToDate to a client that is not
  None,       \* a fresh subscription
  MaxBreaks   \* bound on connections lost

VARIABLES
  produced,   \* chunks so far, numbered from 0; set by the environment
  earliest,   \* retention deleted those before it
  connected, breaks,
  answer,     \* what plan_resume said last
  streamed,   \* server: the next chunk to stream
  toClient,   \* sequences on their way
  last_seen,  \* client: None, or the last sequence it has
  got,        \* history: the sequences the client took, in order
  lost        \* history: the sequences the client was told are gone

vars == <<produced, earliest, connected, breaks, answer, streamed, toClient, last_seen, got, lost>>

Retained == earliest .. produced - 1

---------------------------------------------------------------------------
(* log_chunk_window, with its COALESCE; log_chunks_after. *)
Window == IF Retained = {} THEN [earliest |-> 0, latest |-> 0]
                           ELSE [earliest |-> earliest, latest |-> produced - 1]

(* The rows are numbered without a hole (LogIsExact), so the answer of the *)
(* query is an interval: the first row after the argument, and how many.   *)
FirstAfter(after) == IF after < earliest THEN earliest ELSE after + 1
Capped(rows) == IF rows <= Limit THEN rows ELSE Limit
RowsAfter(after) ==
  [i \in 1 .. Capped(produced - FirstAfter(after)) |-> FirstAfter(after) + i - 1]

(* plan_resume *)
Replay(from, through) == [kind |-> "Replay", from |-> from, through |-> through]
UpToDate == [kind |-> "UpToDate"]
WindowLost(n) == [kind |-> "WindowLost", earliest_retained |-> n]

IsCurrent(seen, latest) == seen >= latest
BeforeWindow(wanted, first) == wanted < first

Wanted(seen) == seen + 1
LatestKept(retained) == retained.latest                 \* mutant: the other end of the window
EarliestKept(retained) == retained.earliest

plan_resume(retained, seen) ==
  IF seen = None THEN Replay(EarliestKept(retained), retained.latest)
  ELSE IF IsCurrent(seen, retained.latest) THEN UpToDate
  ELSE IF BeforeWindow(Wanted(seen), retained.earliest) THEN WindowLost(EarliestKept(retained))
  ELSE Replay(Wanted(seen), retained.latest)

(* Sequencer: resuming_after, accept. *)
Expected == IF last_seen = None THEN 0 ELSE last_seen + 1
Increasing(n) == n >= Expected                          \* mutant: gaps are accepted
Accepts(n) == n = Expected

---------------------------------------------------------------------------
Init ==
  /\ earliest = 0
  /\ connected = FALSE /\ breaks = 0 /\ answer = UpToDate
  /\ streamed = 0 /\ toClient = <<>>
  /\ last_seen = None /\ got = <<>> /\ lost = {}

Delete ==
  /\ earliest + Kept < produced
  /\ earliest' = earliest + 1
  /\ UNCHANGED <<produced, connected, breaks, answer, streamed, toClient, last_seen, got, lost>>

(* A fresh client starts where the replay starts, a client told WindowLost *)
(* where the window starts; both know what they miss.                      *)
Skip(n) ==
  /\ last_seen' = IF n = 0 THEN None ELSE n - 1
  /\ lost' = lost \cup (Expected .. n - 1)

Connect ==
  /\ ~connected
  /\ connected' = TRUE
  /\ answer' = plan_resume(Window, last_seen)
  /\ \/ /\ answer'.kind = "UpToDate"
        /\ streamed' = produced
        /\ UNCHANGED <<last_seen, lost>>
     \/ /\ answer'.kind = "WindowLost"
        /\ streamed' = answer'.earliest_retained
        /\ Skip(answer'.earliest_retained)
     \/ /\ answer'.kind = "Replay"
        /\ streamed' = answer'.from
        /\ IF last_seen = None THEN Skip(answer'.from) ELSE UNCHANGED <<last_seen, lost>>
  /\ UNCHANGED <<produced, earliest, breaks, toClient, got>>

(* One query and the frames it makes.  Rows deleted since the resume was   *)
(* planned are not there any more.                                         *)
Stream ==
  /\ connected
  /\ LET rows == RowsAfter(streamed - 1) IN
       /\ rows # <<>>
       /\ toClient' = toClient \o rows
       /\ streamed' = rows[Len(rows)] + 1
  /\ UNCHANGED <<produced, earliest, connected, breaks, answer, last_seen, got, lost>>

Take ==
  /\ toClient # <<>> /\ Accepts(Head(toClient))
  /\ last_seen' = Head(toClient)
  /\ got' = Append(got, Head(toClient))
  /\ toClient' = Tail(toClient)
  /\ UNCHANGED <<produced, earliest, connected, breaks, answer, streamed, lost>>

OutOfOrder ==
  /\ toClient # <<>> /\ ~Accepts(Head(toClient))
  /\ toClient' = <<>> /\ connected' = FALSE
  /\ UNCHANGED <<produced, earliest, breaks, answer, streamed, last_seen, got, lost>>

Break ==
  /\ connected /\ breaks < MaxBreaks
  /\ connected' = FALSE /\ breaks' = breaks + 1
  /\ toClient' = <<>>
  /\ UNCHANGED <<produced, earliest, answer, streamed, last_seen, got, lost>>

Next == Delete \/ Connect \/ Stream \/ Take \/ OutOfOrder \/ Break

(* Both loops go on and the client reconnects. *)
Fairness == WF_vars(Connect) /\ WF_vars(Stream) /\ WF_vars(Take) /\ WF_vars(OutOfOrder)

---------------------------------------------------------------------------
Got == {got[i] : i \in 1 .. Len(got)}

(* "Log replay after a reconnect is exact rather than approximately right" *)
(* (lines 11-12): each chunk up to the last one seen was taken, once and   *)
(* in order, or the client was told that it is gone.                       *)
ReplayIsExact ==
  /\ Got \cup lost = 0 .. Expected - 1
  /\ Got \cap lost = {}
  /\ \A i, j \in 1 .. Len(got) : i < j => got[i] < got[j]

(* A chunk is given up only when it is deleted. *)
LostIsDeleted == \A n \in lost : n < earliest
===========================================================================
