--------------------------- MODULE SessionStream ---------------------------
(***************************************************************************)
(* One stream of the live session protocol, src/src/runtime/session.rs:    *)
(* FlowControl on the server, Cursor on the client, and the frames         *)
(* Subscribe, Credit, Event and Lagged between them.  The two loops that   *)
(* drive them are external, modelled from the header (lines 12-24) and the *)
(* comments of the frames: a server that keeps the last Window events and  *)
(* a client that subscribes from its cursor whenever it (re)connects and   *)
(* grants a credit for each event it took.  A connection is FIFO and loses *)
(* what it carries when it breaks.                                         *)
(***************************************************************************)
EXTENDS Naturals, Sequences, FiniteSets

CONSTANTS
  Servers,       \* servers to serve the stream: [window, resumes], the events one
                 \* retains and whether it may honour Hello.resume, so that
                 \* the old subscription goes on
  InitialCredit, \* Subscribe.credit
  MaxCredit,     \* FlowControl.max_credit
  Batch,         \* the client grants once it took this many events
  Readings,      \* what a server puts in Lagged.skipped_to: the last event it
                 \* skipped, or the first it serves after the gap
  MaxEvents,     \* bound on events produced
  MaxBreaks      \* bound on broken connections

ASSUME StreamAssumption ==
  /\ Servers \subseteq [window : Nat \ {0}, resumes : BOOLEAN] /\ InitialCredit \in Nat /\ MaxCredit \in Nat /\ Batch \in Nat \ {0}
  /\ Readings \subseteq {"last skipped", "first served"}
  /\ MaxEvents \in Nat /\ MaxBreaks \in Nat

(* Servers that wrap, however soon, or resume and keep what that takes.     *)
WrapOrResume == [window : 1 .. MaxEvents, resumes : {FALSE}] \cup {[window |-> MaxEvents, resumes |-> TRUE]}

VARIABLES
  server,     \* the server: an element of Servers
  produced,   \* events of the stream: 1 .. produced
  subscribed, next, credit,  \* server: a subscription, its next event, FlowControl.credit
  toServer, toClient,        \* the two directions of the connection
  connected, breaks,
  delivered,  \* client: Cursor.delivered
  owed,       \* client: events taken and not yet granted again
  taken,      \* history: the events the client accepted, in order
  announced,  \* history: the events a Lagged passed over
  reported    \* history: the sum of what jump returned

vars == <<server, produced, subscribed, next, credit, toServer, toClient, connected, breaks,
          delivered, owed, taken, announced, reported>>

Subscribe(from) == [type |-> "Subscribe", from |-> from, credit |-> InitialCredit]
Credit(n) == [type |-> "Credit", additional |-> n]
Event(n) == [type |-> "Event", sequence |-> n]
Lagged(n) == [type |-> "Lagged", skipped_to |-> n]

Lesser(m, n) == IF m <= n THEN m ELSE n
Earliest == IF produced > server.window THEN produced - server.window + 1 ELSE 1

---------------------------------------------------------------------------
(* FlowControl::new, consume, grant. *)
NewCredit(initial) == Lesser(initial, MaxCredit)
NotConsumed(c) == c          \* mutant: consume does not decrement
Consumed(c) == c - 1
GrantIgnored(c, n) == c         \* mutant: what is granted is not added
Granted(c, n) == Lesser(c + n, MaxCredit)

(* Cursor::accept and Cursor::jump. *)
TakesAnything(d, n) == TRUE     \* mutant: order is not checked
Accepts(d, n) == n = d + 1
JumpTo(n) == n
Gap(d, n) == IF n > d + 1 THEN n - (d + 1) ELSE 0

---------------------------------------------------------------------------
Init ==
  /\ server \in Servers
  /\ produced = 0
  /\ subscribed = FALSE /\ next = 1 /\ credit = 0
  /\ toServer = <<>> /\ toClient = <<>>
  /\ connected = FALSE /\ breaks = 0
  /\ delivered = 0 /\ owed = 0
  /\ taken = <<>> /\ announced = {} /\ reported = 0

Produce ==
  /\ produced < MaxEvents
  /\ produced' = produced + 1
  /\ UNCHANGED <<server, subscribed, next, credit, toServer, toClient, connected, breaks,
                 delivered, owed, taken, announced, reported>>

Connect ==
  /\ ~connected
  /\ connected' = TRUE
  /\ toServer' = <<Subscribe(delivered)>>
  /\ subscribed' \in {FALSE, subscribed /\ server.resumes}   \* Welcome.resumed
  /\ UNCHANGED <<server, produced, next, credit, toClient, breaks, delivered, owed, taken,
                 announced, reported>>

Break ==
  /\ connected /\ breaks < MaxBreaks
  /\ connected' = FALSE /\ breaks' = breaks + 1
  /\ toServer' = <<>> /\ toClient' = <<>>
  /\ owed' = 0
  /\ UNCHANGED <<server, produced, subscribed, next, credit, delivered, taken, announced, reported>>

ServerReceive ==
  /\ connected /\ toServer # <<>>
  /\ LET frame == Head(toServer) IN
       \/ /\ frame.type = "Subscribe"
          /\ subscribed' = TRUE /\ next' = frame.from + 1
          /\ credit' = NewCredit(frame.credit)
       \/ /\ frame.type = "Credit" /\ subscribed
          /\ credit' = Granted(credit, frame.additional)
          /\ UNCHANGED <<subscribed, next>>
       \/ /\ frame.type = "Credit" /\ ~subscribed
          /\ UNCHANGED <<subscribed, next, credit>>
  /\ toServer' = Tail(toServer)
  /\ UNCHANGED <<server, produced, toClient, connected, breaks, delivered, owed, taken,
                 announced, reported>>

SendEvent ==
  /\ connected /\ subscribed
  /\ Earliest <= next /\ next <= produced
  /\ credit > 0
  /\ credit' = Consumed(credit)
  /\ toClient' = Append(toClient, Event(next))
  /\ next' = next + 1
  /\ UNCHANGED <<server, produced, subscribed, toServer, connected, breaks, delivered, owed,
                 taken, announced, reported>>

(* The buffer wrapped past the subscriber: "saying so is mandatory". *)
SendLagged ==
  /\ connected /\ subscribed
  /\ next < Earliest
  /\ \E reading \in Readings :
       toClient' = Append(toClient, Lagged(IF reading = "first served" THEN Earliest ELSE Earliest - 1))
  /\ next' = Earliest
  /\ UNCHANGED <<server, produced, subscribed, credit, toServer, connected, breaks, delivered, owed,
                 taken, announced, reported>>

TakeEvent ==
  /\ connected /\ toClient # <<>> /\ Head(toClient).type = "Event"
  /\ LET n == Head(toClient).sequence IN
       IF Accepts(delivered, n)
       THEN delivered' = n /\ taken' = Append(taken, n)
       ELSE UNCHANGED <<delivered, taken>>
  /\ toClient' = Tail(toClient)
  /\ owed' = owed + 1
  /\ UNCHANGED <<server, produced, subscribed, next, credit, toServer, connected, breaks,
                 announced, reported>>

TakeLagged ==
  /\ connected /\ toClient # <<>> /\ Head(toClient).type = "Lagged"
  /\ LET n == Head(toClient).skipped_to IN
       /\ delivered' = JumpTo(n)
       /\ announced' = announced \cup (delivered + 1) .. n
       /\ reported' = reported + Gap(delivered, n)
  /\ toClient' = Tail(toClient)
  /\ UNCHANGED <<server, produced, subscribed, next, credit, toServer, connected, breaks, owed, taken>>

Regrant ==
  /\ connected /\ owed >= Batch
  /\ toServer' = Append(toServer, Credit(owed))
  /\ owed' = 0
  /\ UNCHANGED <<server, produced, subscribed, next, credit, toClient, connected, breaks, delivered,
                 taken, announced, reported>>

(* Both ends wait for the other; TailArrives says they do so rightly. *)
Idle ==
  /\ produced = MaxEvents /\ connected /\ toServer = <<>> /\ toClient = <<>>
  /\ UNCHANGED vars

Next ==
  \/ Produce \/ Connect \/ Break
  \/ ServerReceive \/ SendEvent \/ SendLagged
  \/ TakeEvent \/ TakeLagged \/ Regrant
  \/ Idle

Spec == Init /\ [][Next]_vars

(* Both loops keep running and the client reconnects. *)
FairSpec ==
  /\ Spec
  /\ WF_vars(Connect) /\ WF_vars(ServerReceive) /\ WF_vars(SendEvent) /\ WF_vars(SendLagged)
  /\ WF_vars(TakeEvent) /\ WF_vars(TakeLagged) /\ WF_vars(Regrant)

---------------------------------------------------------------------------
Sequences1 == 1 .. MaxEvents
Frames == {Subscribe(n) : n \in 0 .. MaxEvents} \cup {Credit(n) : n \in 1 .. MaxEvents * (MaxBreaks + 1)}

TypeOK ==
  /\ server \in Servers
  /\ produced \in 0 .. MaxEvents
  /\ subscribed \in BOOLEAN /\ connected \in BOOLEAN
  /\ next \in 1 .. MaxEvents + 1
  /\ credit \in 0 .. MaxCredit
  /\ toServer \in Seq(Frames)
  /\ toClient \in Seq({Event(n) : n \in Sequences1} \cup {Lagged(n) : n \in Sequences1})
  /\ breaks \in 0 .. MaxBreaks
  /\ delivered \in 0 .. MaxEvents
  /\ owed \in Nat /\ reported \in Nat
  /\ taken \in Seq(Sequences1) /\ announced \subseteq Sequences1

Held == {taken[i] : i \in 1 .. Len(taken)}
Missing == 1 .. delivered \ Held

(* The client takes each event at most once and in order, although a       *)
(* reconnect makes the server send again what was on its way (lines        *)
(* 671-672); and every event it is past was taken or passed over by a      *)
(* Lagged: "a silent gap in a build log is worse than an error" (line 85). *)
StreamIsExact ==
  /\ \A i, j \in 1 .. Len(taken) : i < j => taken[i] < taken[j]
  /\ Missing \subseteq announced

(* "Never hide it" (lines 688-689): the number of lines reported dropped   *)
(* is the number of events the client does not have.                       *)
LossesReported == Cardinality(Missing) = reported

EventsIn(queue) == {i \in 1 .. Len(queue) : queue[i].type = "Event"}
Unread == Cardinality(EventsIn(toClient))
Grants(frame) == IF frame.type = "Credit" THEN frame.additional ELSE 0
GrantsOf(queue) ==
  LET total[i \in 0 .. Len(queue)] == IF i = 0 THEN 0 ELSE total[i - 1] + Grants(queue[i])
  IN total[Len(queue)]

(* Credit is neither made nor lost: what the server may send, what is on   *)
(* its way in either direction and what the client has yet to grant again  *)
(* add up to the initial credit, so no more than that is ever unread.      *)
CreditConserved ==
  connected /\ subscribed /\ ~server.resumes =>
    credit + Unread + GrantsOf(toServer) + owed = Lesser(InitialCredit, MaxCredit)

(* The tail of the log arrives, through broken connections and a wrapped   *)
(* buffer, unless the connection breaks for ever.                          *)
TailArrives == \A n \in Sequences1 : (produced >= n) ~> (delivered >= n)
===========================================================================
