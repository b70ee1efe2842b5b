------------------------ MODULE SessionStream_proof ------------------------
(***************************************************************************)
(* Proof that a subscriber's log is exact, for every window, credit and    *)
(* number of breaks.  The cursor is safe because of what may be on the     *)
(* wire: with a server that starts every subscription anew, the frames     *)
(* under way never lie before the cursor nor after what the server sends   *)
(* next (Ahead); with one that resumes, no Lagged is under way (Unlagged), *)
(* provided it keeps every event: one that both wraps and resumes can move *)
(* the cursor back (Cursor::jump does not compare).                        *)
(*                                                                         *)
(* And that credit is conserved: until the server takes the Subscribe,     *)
(* that frame is all there is on the wire and nothing is owed (Unopened);  *)
(* from then on only credits go to the server, and the sum stands (Paid).  *)
(***************************************************************************)
EXTENDS SessionStream, SequenceTheorems, FiniteSetTheorems, WellFoundedInduction, TLAPS

ResumersKeepAll == \A s \in Servers : s.resumes => s.window >= MaxEvents

Reach(frame) == IF frame.type = "Event" THEN frame.sequence ELSE frame.skipped_to

ClientFrames == {Event(n) : n \in Nat} \cup {Lagged(n) : n \in Nat}
ServerFrames == {Subscribe(n) : n \in Nat} \cup {Credit(n) : n \in Nat}

Typed ==
  /\ server \in Servers
  /\ produced \in 0 .. MaxEvents
  /\ next \in Nat \ {0} /\ delivered \in Nat /\ owed \in Nat
  /\ toServer \in Seq(ServerFrames) /\ toClient \in Seq(ClientFrames)
  /\ taken \in Seq(Nat)

(* The client's side: what it took and what was announced cover the log up *)
(* to the cursor.                                                          *)
Covered ==
  /\ \A i \in 1 .. Len(taken) : taken[i] <= delivered
  /\ \A i, j \in 1 .. Len(taken) : i < j => taken[i] < taken[j]
  /\ Missing \subseteq announced

(* A connection starts with its Subscribe, which names the cursor.         *)
Opened ==
  /\ ~connected => toServer = <<>> /\ toClient = <<>>
  /\ \A i \in 1 .. Len(toServer) : toServer[i].type = "Subscribe" =>
       /\ i = 1
       /\ ~server.resumes => toServer[i].from = delivered /\ ~subscribed

Ahead ==
  ~server.resumes =>
    /\ ~subscribed => toClient = <<>>
    /\ subscribed => delivered <= next
    /\ \A i \in 1 .. Len(toClient) : delivered <= Reach(toClient[i]) /\ Reach(toClient[i]) <= next
    /\ \A i, j \in 1 .. Len(toClient) : i < j => Reach(toClient[i]) <= Reach(toClient[j])

Unlagged == server.resumes => \A i \in 1 .. Len(toClient) : toClient[i].type = "Event"

SInv == Typed /\ Covered /\ Opened /\ Ahead /\ Unlagged

---------------------------------------------------------------------------
LEMMA FrameFields ==
  /\ \A f \in ClientFrames :
       /\ f.type \in {"Event", "Lagged"} /\ Reach(f) \in Nat
       /\ f.type = "Event" => f.sequence \in Nat /\ Reach(f) = f.sequence
       /\ f.type = "Lagged" => f.skipped_to \in Nat /\ Reach(f) = f.skipped_to
  /\ \A f \in ServerFrames :
       /\ f.type \in {"Subscribe", "Credit"}
       /\ f.type = "Subscribe" => f.from \in Nat
  /\ \A n \in Nat :
       /\ Event(n) \in ClientFrames /\ Event(n).type = "Event" /\ Reach(Event(n)) = n
       /\ Lagged(n) \in ClientFrames /\ Lagged(n).type = "Lagged" /\ Reach(Lagged(n)) = n
       /\ Subscribe(n) \in ServerFrames /\ Subscribe(n).type = "Subscribe" /\ Subscribe(n).from = n
       /\ Credit(n) \in ServerFrames /\ Credit(n).type = "Credit"
<1>1. \A n \in Nat :
        /\ Event(n) \in ClientFrames /\ Event(n).type = "Event" /\ Reach(Event(n)) = n
        /\ Event(n).sequence = n
  BY DEF ClientFrames, Reach, Event
<1>2. \A n \in Nat :
        /\ Lagged(n) \in ClientFrames /\ Lagged(n).type = "Lagged" /\ Reach(Lagged(n)) = n
        /\ Lagged(n).skipped_to = n
  BY DEF ClientFrames, Reach, Lagged
<1>3. \A n \in Nat :
        /\ Subscribe(n) \in ServerFrames /\ Subscribe(n).type = "Subscribe" /\ Subscribe(n).from = n
        /\ Credit(n) \in ServerFrames /\ Credit(n).type = "Credit"
  BY DEF ServerFrames, Subscribe, Credit
<1>4. ASSUME NEW f \in ClientFrames
      PROVE  /\ f.type \in {"Event", "Lagged"} /\ Reach(f) \in Nat
             /\ f.type = "Event" => f.sequence \in Nat /\ Reach(f) = f.sequence
             /\ f.type = "Lagged" => f.skipped_to \in Nat /\ Reach(f) = f.skipped_to
  <2>1. PICK n \in Nat : f = Event(n) \/ f = Lagged(n)
    BY DEF ClientFrames
  <2> QED BY <1>1, <1>2, <2>1
<1>5. ASSUME NEW f \in ServerFrames
      PROVE  f.type \in {"Subscribe", "Credit"} /\ (f.type = "Subscribe" => f.from \in Nat)
  <2>1. PICK n \in Nat : f = Subscribe(n) \/ f = Credit(n)
    BY DEF ServerFrames
  <2> QED BY <1>3, <2>1
<1> QED BY <1>1, <1>2, <1>3, <1>4, <1>5

LEMMA Constants ==
  /\ MaxEvents \in Nat
  /\ \A s \in Servers : s.window \in Nat /\ s.resumes \in BOOLEAN
<1>1. MaxEvents \in Nat
  BY StreamAssumption
<1>2. Servers \subseteq [window : Nat \ {0}, resumes : BOOLEAN]
  BY StreamAssumption
<1> QED BY <1>1, <1>2

(* Elements of a sequence after one is appended or the first is taken away. *)
LEMMA Appended ==
  ASSUME NEW S, NEW s \in Seq(S), NEW e \in S
  PROVE  /\ Append(s, e) \in Seq(S) /\ Len(s) \in Nat /\ Len(Append(s, e)) = Len(s) + 1
         /\ Append(s, e)[Len(s) + 1] = e
         /\ \A i \in 1 .. Len(s) : Append(s, e)[i] = s[i]
         /\ \A i \in 1 .. Len(Append(s, e)) : i \in 1 .. Len(s) \/ i = Len(s) + 1
OBVIOUS

LEMMA Shortened ==
  ASSUME NEW S, NEW s \in Seq(S), s # <<>>
  PROVE  /\ Head(s) \in S /\ Head(s) = s[1] /\ 1 \in 1 .. Len(s)
         /\ Tail(s) \in Seq(S) /\ Len(s) \in Nat /\ Len(Tail(s)) = Len(s) - 1
         /\ \A i \in 1 .. Len(Tail(s)) : Tail(s)[i] = s[i + 1] /\ i + 1 \in 2 .. Len(s)
OBVIOUS

LEMMA CoveredUnchanged ==
  ASSUME Covered, UNCHANGED <<delivered, taken, announced>>
  PROVE  Covered'
BY DEF Covered, Missing, Held

(* A frame that reaches at least as far as every other and not beyond what *)
(* comes next can be sent.                                                 *)
LEMMA SentAhead ==
  ASSUME Typed, Ahead, subscribed, NEW f \in ClientFrames, next' \in Nat,
         next <= Reach(f) + 1 /\ Reach(f) <= next' /\ next <= next',
         ~server.resumes => \A i \in 1 .. Len(toClient) : Reach(toClient[i]) <= Reach(f),
         ~server.resumes => delivered <= Reach(f),
         toClient' = Append(toClient, f),
         UNCHANGED <<server, subscribed, delivered>>
  PROVE  Ahead'
<1> SUFFICES ASSUME ~server.resumes PROVE Ahead'
  BY DEF Ahead
<1>1. toClient \in Seq(ClientFrames) /\ next \in Nat /\ delivered \in Nat /\ Reach(f) \in Nat
  BY FrameFields DEF Typed
<1>2. /\ Len(toClient) \in Nat /\ Len(toClient') = Len(toClient) + 1
      /\ toClient'[Len(toClient) + 1] = f
      /\ \A i \in 1 .. Len(toClient) : toClient'[i] = toClient[i]
      /\ \A i \in 1 .. Len(toClient') : i \in 1 .. Len(toClient) \/ i = Len(toClient) + 1
  BY <1>1, Appended
<1>3. \A i \in 1 .. Len(toClient) : Reach(toClient[i]) \in Nat
  BY <1>1, FrameFields
<1>4. ASSUME NEW i \in 1 .. Len(toClient')
      PROVE  delivered <= Reach(toClient'[i]) /\ Reach(toClient'[i]) <= next'
  BY <1>1, <1>2, <1>3 DEF Ahead
<1>5. ASSUME NEW i \in 1 .. Len(toClient'), NEW j \in 1 .. Len(toClient'), i < j
      PROVE  Reach(toClient'[i]) <= Reach(toClient'[j])
  <2>1. i \in 1 .. Len(toClient)
    BY <1>2, <1>5
  <2> QED BY <1>2, <1>5, <2>1 DEF Ahead
<1>6. delivered' <= next'
  BY <1>1 DEF Ahead
<1> QED BY <1>4, <1>5, <1>6 DEF Ahead, Reach

(* Once the first frame is taken, and the cursor with it, the rest is ahead. *)
LEMMA TakenAhead ==
  ASSUME Typed, Ahead, toClient # <<>>, toClient' = Tail(toClient),
         UNCHANGED <<server, subscribed, next>>,
         delivered' = delivered \/ delivered' = Reach(Head(toClient))
  PROVE  Ahead'
<1> SUFFICES ASSUME ~server.resumes PROVE Ahead'
  BY DEF Ahead
<1>1. toClient \in Seq(ClientFrames) /\ next \in Nat /\ delivered \in Nat
  BY DEF Typed
<1>2. /\ Len(toClient) \in Nat /\ Len(toClient') = Len(toClient) - 1
      /\ Head(toClient) = toClient[1] /\ 1 \in 1 .. Len(toClient)
      /\ \A i \in 1 .. Len(toClient') : toClient'[i] = toClient[i + 1] /\ i + 1 \in 2 .. Len(toClient)
  BY <1>1, Shortened
<1>3. ASSUME NEW i \in 1 .. Len(toClient')
      PROVE  delivered' <= Reach(toClient'[i]) /\ Reach(toClient'[i]) <= next'
  <2>1. i + 1 \in 1 .. Len(toClient) /\ 1 < i + 1 /\ toClient'[i] = toClient[i + 1]
    BY <1>2
  <2> QED BY <1>2, <2>1 DEF Ahead
<1>4. ASSUME NEW i \in 1 .. Len(toClient'), NEW j \in 1 .. Len(toClient'), i < j
      PROVE  Reach(toClient'[i]) <= Reach(toClient'[j])
  <2>1. /\ i + 1 \in 1 .. Len(toClient) /\ j + 1 \in 1 .. Len(toClient) /\ i + 1 < j + 1
        /\ toClient'[i] = toClient[i + 1] /\ toClient'[j] = toClient[j + 1]
    BY <1>2, <1>4
  <2> QED BY <2>1 DEF Ahead
<1>5. subscribed /\ delivered' <= next'
  BY <1>2 DEF Ahead
<1> QED BY <1>3, <1>4, <1>5 DEF Ahead, Reach

---------------------------------------------------------------------------
LEMMA InitSInv == Init => SInv
<1> SUFFICES ASSUME Init PROVE SInv
  OBVIOUS
<1>1. Typed
  BY Constants DEF Init, Typed
<1>2. Missing = {}
  BY DEF Init, Missing
<1> QED BY <1>1, <1>2 DEF Init, SInv, Covered, Opened, Ahead, Unlagged

LEMMA ConnectKeeps ==
  ASSUME SInv, Connect
  PROVE  SInv'
<1>1. Typed'
  BY FrameFields DEF SInv, Typed, Connect
<1>2. Covered'
  BY CoveredUnchanged DEF SInv, Connect
<1>3. toClient' = <<>>
  BY DEF SInv, Opened, Connect
<1>4. /\ Len(toServer') = 1 /\ toServer'[1] = Subscribe(delivered)
      /\ ~server.resumes => subscribed' = FALSE
  BY DEF Connect
<1>5. Opened'
  <2>1. Subscribe(delivered).from = delivered
    BY DEF Subscribe
  <2>2. connected' /\ delivered' = delivered /\ server' = server
    BY DEF Connect
  <2> QED BY <1>4, <2>1, <2>2 DEF Opened
<1>6. Ahead' /\ Unlagged'
  BY <1>3, <1>4 DEF Ahead, Unlagged, Connect
<1> QED BY <1>1, <1>2, <1>5, <1>6 DEF SInv

LEMMA BreakKeeps ==
  ASSUME SInv, Break
  PROVE  SInv'
<1>1. Typed' /\ Opened' /\ Unlagged'
  BY DEF SInv, Typed, Opened, Unlagged, Break
<1>2. Covered'
  BY CoveredUnchanged DEF SInv, Break
<1>3. Ahead'
  BY DEF SInv, Ahead, Break
<1> QED BY <1>1, <1>2, <1>3 DEF SInv

LEMMA ServerReceiveKeeps ==
  ASSUME SInv, ServerReceive
  PROVE  SInv'
<1> DEFINE frame == Head(toServer)
<1>1. /\ toServer \in Seq(ServerFrames) /\ toServer # <<>> /\ toServer' = Tail(toServer)
      /\ UNCHANGED <<server, produced, toClient, connected, breaks, delivered, owed, taken, announced>>
  BY DEF SInv, Typed, ServerReceive
<1>2. /\ frame \in ServerFrames /\ frame = toServer[1] /\ 1 \in 1 .. Len(toServer)
      /\ toServer' \in Seq(ServerFrames) /\ Len(toServer) \in Nat
      /\ \A i \in 1 .. Len(toServer') : toServer'[i] = toServer[i + 1] /\ i + 1 \in 2 .. Len(toServer)
  BY <1>1, Shortened
<1>3. Covered' /\ Unlagged'
  BY <1>1, CoveredUnchanged DEF SInv, Unlagged
<1>4. \A i \in 1 .. Len(toServer') : toServer'[i].type # "Subscribe"
  <2> SUFFICES ASSUME NEW i \in 1 .. Len(toServer'), toServer'[i].type = "Subscribe" PROVE FALSE
    OBVIOUS
  <2>1. i \in Nat /\ i >= 1 /\ i + 1 \in 1 .. Len(toServer) /\ toServer[i + 1].type = "Subscribe"
    BY <1>2
  <2>2. i + 1 = 1
    BY <2>1 DEF SInv, Opened
  <2> QED BY <2>1, <2>2
<1>5. connected
  BY DEF ServerReceive
<1>6. Opened'
  BY <1>1, <1>4, <1>5 DEF Opened
<1>7. CASE frame.type = "Subscribe"
  <2>1. subscribed' = TRUE /\ next' = frame.from + 1
    BY <1>7 DEF ServerReceive
  <2>2. frame.from \in Nat
    BY <1>2, <1>7, FrameFields
  <2>3. Typed'
    BY <1>1, <1>2, <2>1, <2>2 DEF SInv, Typed
  <2>4. ~server.resumes => frame.from = delivered /\ ~subscribed
    BY <1>2, <1>7 DEF SInv, Opened
  <2>5. Ahead'
    BY <1>1, <2>1, <2>2, <2>4 DEF SInv, Ahead
  <2> QED BY <1>3, <1>6, <2>3, <2>5 DEF SInv
<1>8. CASE frame.type # "Subscribe"
  <2>1. UNCHANGED <<subscribed, next>>
    BY <1>8 DEF ServerReceive
  <2>2. Typed' /\ Ahead'
    BY <1>1, <1>2, <2>1 DEF SInv, Typed, Ahead, Reach
  <2> QED BY <1>3, <1>6, <2>2 DEF SInv
<1> QED BY <1>7, <1>8

LEMMA SendEventKeeps ==
  ASSUME SInv, SendEvent
  PROVE  SInv'
<1>1. /\ toClient \in Seq(ClientFrames) /\ next \in Nat \ {0} /\ connected /\ subscribed
      /\ toClient' = Append(toClient, Event(next)) /\ next' = next + 1
      /\ UNCHANGED <<server, produced, subscribed, toServer, connected, delivered, owed, taken, announced>>
  BY DEF SInv, Typed, SendEvent
<1>2. Event(next) \in ClientFrames /\ Event(next).type = "Event" /\ Reach(Event(next)) = next
  BY <1>1, FrameFields
<1>3. Typed'
  BY <1>1, <1>2 DEF SInv, Typed
<1>4. Covered'
  BY <1>1, CoveredUnchanged DEF SInv
<1>5. Opened'
  BY <1>1 DEF SInv, Opened
<1>6. Ahead'
  <2>1. ~server.resumes => \A i \in 1 .. Len(toClient) : Reach(toClient[i]) <= Reach(Event(next))
    BY <1>2 DEF SInv, Ahead
  <2>2. ~server.resumes => delivered <= Reach(Event(next))
    BY <1>1, <1>2 DEF SInv, Ahead
  <2> QED BY <1>1, <1>2, <2>1, <2>2, SentAhead DEF SInv
<1>7. Unlagged'
  BY <1>1, <1>2, Appended DEF SInv, Unlagged
<1> QED BY <1>3, <1>4, <1>5, <1>6, <1>7 DEF SInv

LEMMA SendLaggedKeeps ==
  ASSUME ResumersKeepAll, SInv, SendLagged
  PROVE  SInv'
<1>0. /\ server.window \in Nat /\ server.resumes \in BOOLEAN
      /\ produced \in Nat /\ produced <= MaxEvents /\ MaxEvents \in Nat
      /\ next \in Nat \ {0} /\ next < Earliest
  <2>1. server \in Servers /\ produced \in 0 .. MaxEvents /\ next \in Nat \ {0}
    BY DEF SInv, Typed
  <2>2. next < Earliest
    BY DEF SendLagged
  <2> QED BY <2>1, <2>2, Constants
<1>1. ~server.resumes
  <2> SUFFICES ASSUME server.resumes PROVE FALSE
    OBVIOUS
  <2>1. server.window >= MaxEvents
    BY DEF ResumersKeepAll, SInv, Typed
  <2>2. Earliest = 1
    BY <1>0, <2>1 DEF Earliest
  <2> QED BY <1>0, <2>2
<1>2. Earliest \in Nat
  BY <1>0 DEF Earliest
<1>3. PICK n \in {Earliest, Earliest - 1} : toClient' = Append(toClient, Lagged(n))
  BY DEF SendLagged
<1>4. /\ toClient \in Seq(ClientFrames) /\ connected /\ subscribed /\ next' = Earliest
      /\ UNCHANGED <<server, produced, subscribed, toServer, connected, delivered, owed, taken, announced>>
  BY DEF SInv, Typed, SendLagged
<1>5. n \in Nat /\ next <= n /\ n <= Earliest
  BY <1>0, <1>2
<1>6. Lagged(n) \in ClientFrames /\ Reach(Lagged(n)) = n
  BY <1>5, FrameFields
<1>7. Typed'
  BY <1>0, <1>2, <1>3, <1>4, <1>6 DEF SInv, Typed
<1>8. Covered'
  BY <1>4, CoveredUnchanged DEF SInv
<1>9. Opened' /\ Unlagged'
  BY <1>1, <1>4 DEF SInv, Opened, Unlagged
<1>10. Ahead'
  <2>1. \A i \in 1 .. Len(toClient) : Reach(toClient[i]) <= Reach(Lagged(n))
    <3> SUFFICES ASSUME NEW i \in 1 .. Len(toClient) PROVE Reach(toClient[i]) <= n
      BY <1>6
    <3>1. Reach(toClient[i]) \in Nat /\ Reach(toClient[i]) <= next
      BY <1>1, <1>4, FrameFields DEF SInv, Ahead
    <3> QED BY <1>0, <1>5, <3>1
  <2>2. delivered <= n
    BY <1>0, <1>1, <1>4, <1>5 DEF SInv, Ahead, Typed
  <2> QED BY <1>0, <1>2, <1>3, <1>4, <1>5, <1>6, <2>1, <2>2, SentAhead DEF SInv
<1> QED BY <1>7, <1>8, <1>9, <1>10 DEF SInv

LEMMA TakeEventKeeps ==
  ASSUME SInv, TakeEvent
  PROVE  SInv'
<1> DEFINE n == Head(toClient).sequence
<1>1. /\ toClient \in Seq(ClientFrames) /\ toClient # <<>> /\ connected
      /\ toClient' = Tail(toClient) /\ owed' = owed + 1 /\ Head(toClient).type = "Event"
      /\ UNCHANGED <<server, produced, subscribed, next, toServer, connected, announced>>
      /\ delivered \in Nat /\ taken \in Seq(Nat)
  BY DEF SInv, Typed, TakeEvent
<1>2. /\ Head(toClient) \in ClientFrames /\ toClient' \in Seq(ClientFrames)
      /\ Head(toClient) = toClient[1] /\ 1 \in 1 .. Len(toClient)
      /\ \A i \in 1 .. Len(toClient') : toClient'[i] = toClient[i + 1] /\ i + 1 \in 2 .. Len(toClient)
      /\ Len(toClient) \in Nat
  BY <1>1, Shortened
<1>3. n \in Nat /\ Reach(Head(toClient)) = n
  BY <1>1, <1>2, FrameFields
<1>4. Unlagged'
  BY <1>1, <1>2 DEF SInv, Unlagged
<1>5. CASE ~Accepts(delivered, n)
  <2>1. delivered' = delivered /\ taken' = taken
    BY <1>5 DEF TakeEvent
  <2>2. Typed' /\ Opened'
    BY <1>1, <1>2, <2>1 DEF SInv, Typed, Opened
  <2>3. Covered'
    BY <1>1, <2>1, CoveredUnchanged DEF SInv
  <2>4. Ahead'
    BY <1>1, <2>1, TakenAhead DEF SInv
  <2> QED BY <1>4, <2>2, <2>3, <2>4 DEF SInv
<1>6. CASE Accepts(delivered, n)
  <2>1. delivered' = n /\ n = delivered + 1 /\ taken' = Append(taken, n)
    BY <1>6 DEF TakeEvent, Accepts
  <2> HIDE DEF n
  <2>2. /\ taken' \in Seq(Nat) /\ Len(taken) \in Nat /\ Len(taken') = Len(taken) + 1
        /\ taken'[Len(taken) + 1] = n
        /\ \A i \in 1 .. Len(taken) : taken'[i] = taken[i]
        /\ \A i \in 1 .. Len(taken') : i \in 1 .. Len(taken) \/ i = Len(taken) + 1
    BY <1>1, <1>3, <2>1, Appended
  <2>3. \A i \in 1 .. Len(taken) : taken[i] \in Nat /\ taken[i] <= delivered
    BY <1>1 DEF SInv, Covered
  <2>4. Typed'
    BY <1>1, <1>2, <1>3, <2>1, <2>2 DEF SInv, Typed
  <2>5. Covered'
    <3>1. \A i \in 1 .. Len(taken') : taken'[i] <= delivered'
      BY <1>1, <2>1, <2>2, <2>3
    <3>2. ASSUME NEW i \in 1 .. Len(taken'), NEW j \in 1 .. Len(taken'), i < j
          PROVE  taken'[i] < taken'[j]
      <4>1. i \in 1 .. Len(taken)
        BY <2>2, <3>2
      <4>2. CASE j = Len(taken) + 1
        BY <1>1, <2>1, <2>2, <2>3, <4>1, <4>2
      <4>3. CASE j \in 1 .. Len(taken)
        <5>1. taken'[i] = taken[i] /\ taken'[j] = taken[j]
          BY <2>2, <4>1, <4>3
        <5> QED BY <3>2, <4>1, <4>3, <5>1 DEF SInv, Covered
      <4> QED BY <2>2, <4>2, <4>3
    <3>3. Missing' \subseteq announced'
      <4> SUFFICES ASSUME NEW m \in Missing' PROVE m \in announced
        BY <1>1
      <4>1. m \in 1 .. n /\ m \notin Held'
        BY <2>1 DEF Missing
      <4>2. n \in Held' /\ Held \subseteq Held'
        BY <2>2 DEF Held
      <4>3. m \in 1 .. delivered
        BY <1>1, <2>1, <4>1, <4>2
      <4> QED BY <4>1, <4>2, <4>3 DEF SInv, Covered, Missing
    <3> QED BY <3>1, <3>2, <3>3 DEF Covered
  <2>6. Opened'
    <3>1. ~server.resumes => subscribed
      BY <1>1 DEF SInv, Ahead
    <3> QED BY <1>1, <3>1 DEF SInv, Opened
  <2>7. Ahead'
    BY <1>1, <1>3, <2>1, TakenAhead DEF SInv
  <2> QED BY <1>4, <2>4, <2>5, <2>6, <2>7 DEF SInv
<1> QED BY <1>5, <1>6

LEMMA TakeLaggedKeeps ==
  ASSUME SInv, TakeLagged
  PROVE  SInv'
<1> DEFINE n == Head(toClient).skipped_to
<1>1. /\ toClient \in Seq(ClientFrames) /\ toClient # <<>> /\ connected
      /\ toClient' = Tail(toClient) /\ Head(toClient).type = "Lagged"
      /\ UNCHANGED <<server, produced, subscribed, next, toServer, connected, owed, taken>>
      /\ delivered \in Nat /\ taken \in Seq(Nat)
      /\ delivered' = n /\ announced' = announced \cup (delivered + 1) .. n
  BY DEF SInv, Typed, TakeLagged, JumpTo
<1>2. /\ Head(toClient) \in ClientFrames /\ toClient' \in Seq(ClientFrames)
      /\ Head(toClient) = toClient[1] /\ 1 \in 1 .. Len(toClient)
  BY <1>1, Shortened
<1>3. n \in Nat /\ Reach(Head(toClient)) = n
  BY <1>1, <1>2, FrameFields
<1>4. ~server.resumes
  BY <1>1, <1>2 DEF SInv, Unlagged
<1>5. delivered <= n /\ subscribed
  BY <1>1, <1>2, <1>3, <1>4 DEF SInv, Ahead
<1> HIDE DEF n
<1>6. Typed'
  BY <1>1, <1>2, <1>3 DEF SInv, Typed
<1>7. Covered'
  <2>1. \A i \in 1 .. Len(taken) : taken[i] \in Nat /\ taken[i] <= delivered
    BY <1>1 DEF SInv, Covered
  <2>2. \A i \in 1 .. Len(taken) : taken[i] <= n
    BY <1>1, <1>3, <1>5, <2>1
  <2>3. Missing' \subseteq announced'
    <3> SUFFICES ASSUME NEW m \in Missing' PROVE m \in announced \cup (delivered + 1) .. n
      BY <1>1
    <3>1. m \in 1 .. n /\ m \notin Held
      BY <1>1 DEF Missing, Held
    <3>2. CASE m \in 1 .. delivered
      BY <3>1, <3>2 DEF SInv, Covered, Missing
    <3>3. CASE m \notin 1 .. delivered
      BY <1>1, <1>3, <3>1, <3>3
    <3> QED BY <3>2, <3>3
  <2> QED BY <1>1, <2>2, <2>3 DEF SInv, Covered
<1>8. Opened' /\ Unlagged'
  BY <1>1, <1>4, <1>5 DEF SInv, Opened, Unlagged
<1>9. Ahead'
  BY <1>1, <1>3, TakenAhead DEF SInv
<1> QED BY <1>6, <1>7, <1>8, <1>9 DEF SInv

LEMMA RegrantKeeps ==
  ASSUME SInv, Regrant
  PROVE  SInv'
<1>1. /\ toServer \in Seq(ServerFrames) /\ connected /\ owed \in Nat
      /\ toServer' = Append(toServer, Credit(owed)) /\ owed' = 0
      /\ UNCHANGED <<server, produced, subscribed, next, toClient, connected, delivered, taken, announced>>
  BY DEF SInv, Typed, Regrant
<1>2. Credit(owed) \in ServerFrames /\ Credit(owed).type = "Credit"
  BY <1>1, FrameFields
<1>3. /\ toServer' \in Seq(ServerFrames)
      /\ toServer'[Len(toServer) + 1] = Credit(owed)
      /\ \A i \in 1 .. Len(toServer) : toServer'[i] = toServer[i]
      /\ \A i \in 1 .. Len(toServer') : i \in 1 .. Len(toServer) \/ i = Len(toServer) + 1
  BY <1>1, <1>2, Appended
<1>4. Typed'
  BY <1>1, <1>3 DEF SInv, Typed
<1>5. Covered'
  BY <1>1, CoveredUnchanged DEF SInv
<1>6. Opened'
  BY <1>1, <1>2, <1>3 DEF SInv, Opened
<1>7. Ahead' /\ Unlagged'
  BY <1>1 DEF SInv, Ahead, Unlagged, Reach
<1> QED BY <1>4, <1>5, <1>6, <1>7 DEF SInv

LEMMA StutterKeeps ==
  ASSUME SInv, produced' \in 0 .. MaxEvents,
         UNCHANGED <<server, subscribed, next, toServer, toClient, connected, delivered, owed, taken, announced>>
  PROVE  SInv'
<1>1. Covered'
  BY CoveredUnchanged DEF SInv
<1> QED BY <1>1 DEF SInv, Typed, Opened, Ahead, Unlagged, Reach

LEMMA StepSInv == ResumersKeepAll /\ SInv /\ [Next]_vars => SInv'
<1> SUFFICES ASSUME ResumersKeepAll, SInv, [Next]_vars PROVE SInv'
  OBVIOUS
<1>1. CASE Produce
  <2>1. produced' \in 0 .. MaxEvents
    BY <1>1, Constants DEF Produce, SInv, Typed
  <2> QED BY <1>1, <2>1, StutterKeeps DEF Produce
<1>2. CASE Connect
  BY <1>2, ConnectKeeps
<1>3. CASE Break
  BY <1>3, BreakKeeps
<1>4. CASE ServerReceive
  BY <1>4, ServerReceiveKeeps
<1>5. CASE SendEvent
  BY <1>5, SendEventKeeps
<1>6. CASE SendLagged
  BY <1>6, SendLaggedKeeps
<1>7. CASE TakeEvent
  BY <1>7, TakeEventKeeps
<1>8. CASE TakeLagged
  BY <1>8, TakeLaggedKeeps
<1>9. CASE Regrant
  BY <1>9, RegrantKeeps
<1>10. CASE Idle \/ UNCHANGED vars
  BY <1>10, StutterKeeps DEF Idle, vars, SInv, Typed
<1> QED BY <1>1, <1>2, <1>3, <1>4, <1>5, <1>6, <1>7, <1>8, <1>9, <1>10 DEF Next

(* For every window, credit, batch and number of breaks: the client takes  *)
(* each event at most once and in order, and every event it is past was    *)
(* taken or announced by a Lagged (Cursor::accept, Cursor::jump), if a     *)
(* server that resumes subscriptions keeps every event.                    *)
THEOREM SubscriberIsExact ==
  ASSUME ResumersKeepAll
  PROVE  Spec => []StreamIsExact
<1>1. Init => SInv
  BY InitSInv
<1>2. SInv /\ [Next]_vars => SInv'
  BY StepSInv
<1>3. SInv => StreamIsExact
  BY DEF SInv, Covered, StreamIsExact
<1> QED BY <1>1, <1>2, <1>3, PTL DEF Spec
---------------------------------------------------------------------------
(* Induction over the natural numbers, for sets: the least element outside *)
(* one.                                                                    *)
LEMMA LeastElement ==
  ASSUME NEW T, T \subseteq Nat, T # {}
  PROVE  \E n \in T : \A m \in T : n <= m
<1>1. PICK n \in T : \A m \in T : ~(<<m, n>> \in OpToRel(<, Nat))
  BY WFMin, NatLessThanWellFounded
<1>2. \A m \in T : ~(m < n)
  BY <1>1 DEF OpToRel
<1> QED BY <1>2

LEMMA SetInduction ==
  ASSUME NEW T, 0 \in T, \A n \in Nat : n \in T => n + 1 \in T
  PROVE  Nat \subseteq T
<1> DEFINE Outside == Nat \ T
<1> SUFFICES ASSUME Outside # {} PROVE FALSE
  OBVIOUS
<1>1. PICK n \in Outside : \A m \in Outside : n <= m
  <2> HIDE DEF Outside
  <2>1. Outside \subseteq Nat
    BY DEF Outside
  <2> QED BY <2>1, LeastElement
<1>2. n # 0 /\ n - 1 \in Nat /\ n - 1 \in T
  BY <1>1
<1> QED BY <1>1, <1>2

(* The sums of what a queue grants, up to each of its frames. *)
IsTotal(t, queue, n) ==
  t = [i \in 0 .. n |-> IF i = 0 THEN 0 ELSE t[i - 1] + Grants(queue[i])]

LEMMA TotalExists ==
  ASSUME NEW queue, NEW n \in Nat
  PROVE  \E t : IsTotal(t, queue, n)
<1> DEFINE T == {m \in Nat : \E t : IsTotal(t, queue, m)}
<1>1. 0 \in T
  <2> DEFINE t == [i \in 0 .. 0 |-> 0]
  <2>1. IsTotal(t, queue, 0)
    BY DEF IsTotal
  <2> QED BY <2>1
<1>2. ASSUME NEW m \in Nat, m \in T PROVE m + 1 \in T
  <2>1. PICK t : IsTotal(t, queue, m)
    BY <1>2
  <2> DEFINE u == [i \in 0 .. m + 1 |-> IF i = m + 1 THEN t[m] + Grants(queue[m + 1]) ELSE t[i]]
  <2>2. \A i \in 0 .. m : t[i] = IF i = 0 THEN 0 ELSE t[i - 1] + Grants(queue[i])
    BY <2>1 DEF IsTotal
  <2>3. \A i \in 0 .. m + 1 : u[i] = IF i = 0 THEN 0 ELSE u[i - 1] + Grants(queue[i])
    BY <2>2
  <2>4. u = [i \in 0 .. m + 1 |-> IF i = 0 THEN 0 ELSE u[i - 1] + Grants(queue[i])]
    BY <2>3
  <2>5. IsTotal(u, queue, m + 1)
    BY <2>4 DEF IsTotal
  <2> QED BY <2>5
<1> HIDE DEF T
<1>3. Nat \subseteq T
  BY <1>1, <1>2, SetInduction
<1> QED BY <1>3 DEF T

LEMMA GrantsOfIsTotal ==
  ASSUME NEW queue \in Seq(ServerFrames)
  PROVE  \E t \in [0 .. Len(queue) -> Nat] :
           /\ t[0] = 0 /\ GrantsOf(queue) = t[Len(queue)]
           /\ \A i \in 1 .. Len(queue) : t[i] = t[i - 1] + Grants(queue[i]) /\ Grants(queue[i]) \in Nat
<1> DEFINE n == Len(queue)
           t == CHOOSE t : t = [i \in 0 .. n |-> IF i = 0 THEN 0 ELSE t[i - 1] + Grants(queue[i])]
<1>1. n \in Nat
  OBVIOUS
<1>2. IsTotal(t, queue, n)
  BY <1>1, TotalExists DEF IsTotal
<1>3. GrantsOf(queue) = t[n]
  BY DEF GrantsOf
<1>4. \A i \in 1 .. n : Grants(queue[i]) \in Nat
  <2> SUFFICES ASSUME NEW i \in 1 .. n PROVE Grants(queue[i]) \in Nat
    OBVIOUS
  <2>1. queue[i] \in ServerFrames
    OBVIOUS
  <2>2. PICK m \in Nat : queue[i] = Subscribe(m) \/ queue[i] = Credit(m)
    BY <2>1 DEF ServerFrames
  <2> QED BY <2>2 DEF Grants, Subscribe, Credit
<1> HIDE DEF n, t
<1>5. /\ DOMAIN t = 0 .. n /\ t = [i \in DOMAIN t |-> t[i]] /\ t[0] = 0
      /\ \A i \in 1 .. n : t[i] = t[i - 1] + Grants(queue[i])
  <2>1. t = [i \in 0 .. n |-> IF i = 0 THEN 0 ELSE t[i - 1] + Grants(queue[i])]
    BY <1>2 DEF IsTotal
  <2>2. DOMAIN t = 0 .. n /\ t = [i \in DOMAIN t |-> t[i]]
    BY <2>1
  <2>3. \A i \in 0 .. n : t[i] = IF i = 0 THEN 0 ELSE t[i - 1] + Grants(queue[i])
    BY <2>1
  <2> QED BY <1>1, <2>2, <2>3
<1>6. Nat \subseteq {i \in Nat : i <= n => t[i] \in Nat}
  <2> DEFINE T == {i \in Nat : i <= n => t[i] \in Nat}
  <2>1. 0 \in T
    BY <1>5
  <2>2. ASSUME NEW i \in Nat, i \in T PROVE i + 1 \in T
    <3> SUFFICES ASSUME i + 1 <= n PROVE t[i + 1] \in Nat
      OBVIOUS
    <3>1. i + 1 \in 1 .. n /\ t[i] \in Nat /\ i + 1 - 1 = i
      BY <1>1, <2>2
    <3>2. t[i + 1] = t[i] + Grants(queue[i + 1]) /\ Grants(queue[i + 1]) \in Nat
      BY <1>4, <1>5, <3>1
    <3> QED BY <3>1, <3>2
  <2> HIDE DEF T
  <2>3. Nat \subseteq T
    BY <2>1, <2>2, SetInduction
  <2> QED BY <2>3 DEF T
<1>7. t \in [0 .. n -> Nat]
  BY <1>1, <1>5, <1>6
<1> QED BY <1>3, <1>4, <1>5, <1>7 DEF n

(* Sums of the same terms differ by what they start from. *)
LEMMA TotalsAgree ==
  ASSUME NEW n \in Nat, NEW t \in [0 .. n -> Nat], NEW u \in [0 .. n -> Nat],
         \A i \in 1 .. n : t[i] - t[i - 1] = u[i] - u[i - 1]
  PROVE  u[n] - u[0] = t[n] - t[0]
<1> DEFINE T == {i \in Nat : i <= n => u[i] - u[0] = t[i] - t[0]}
<1>1. 0 \in T
  OBVIOUS
<1>2. ASSUME NEW i \in Nat, i \in T PROVE i + 1 \in T
  <2> SUFFICES ASSUME i + 1 <= n PROVE u[i + 1] - u[0] = t[i + 1] - t[0]
    OBVIOUS
  <2>1. u[i] - u[0] = t[i] - t[0] /\ i + 1 \in 1 .. n /\ i + 1 - 1 = i
    BY <1>2
  <2>2. t[i + 1] - t[i] = u[i + 1] - u[i]
    BY <2>1
  <2>3. /\ t[0] \in Nat /\ t[i] \in Nat /\ t[i + 1] \in Nat
        /\ u[0] \in Nat /\ u[i] \in Nat /\ u[i + 1] \in Nat
    OBVIOUS
  <2> DEFINE a == t[0]
             b == t[i]
             c == t[i + 1]
             d == u[0]
             e == u[i]
             f == u[i + 1]
  <2>4. /\ a \in Nat /\ b \in Nat /\ c \in Nat /\ d \in Nat /\ e \in Nat /\ f \in Nat
        /\ e - d = b - a /\ c - b = f - e
    BY <2>1, <2>2, <2>3
  <2> HIDE DEF a, b, c, d, e, f
  <2>5. f - d = c - a
    BY <2>4
  <2> QED BY <2>5 DEF a, c, d, f
<1> HIDE DEF T
<1>3. Nat \subseteq T
  BY <1>1, <1>2, SetInduction
<1> QED BY <1>3 DEF T

LEMMA GrantsOfIsNat ==
  ASSUME NEW queue \in Seq(ServerFrames)
  PROVE  GrantsOf(queue) \in Nat
<1>1. Len(queue) \in 0 .. Len(queue)
  OBVIOUS
<1> QED BY <1>1, GrantsOfIsTotal

LEMMA GrantsAppended ==
  ASSUME NEW queue \in Seq(ServerFrames), NEW frame \in ServerFrames
  PROVE  /\ GrantsOf(queue) \in Nat /\ Grants(frame) \in Nat
         /\ GrantsOf(Append(queue, frame)) = GrantsOf(queue) + Grants(frame)
<1> DEFINE n == Len(queue)
           longer == Append(queue, frame)
<1>1. /\ longer \in Seq(ServerFrames) /\ n \in Nat /\ Len(longer) = n + 1
      /\ longer[n + 1] = frame /\ \A i \in 1 .. n : longer[i] = queue[i]
  BY Appended
<1>2. PICK t \in [0 .. n -> Nat] :
        /\ t[0] = 0 /\ GrantsOf(queue) = t[n]
        /\ \A i \in 1 .. n : t[i] = t[i - 1] + Grants(queue[i]) /\ Grants(queue[i]) \in Nat
  BY GrantsOfIsTotal
<1> HIDE DEF longer
<1>3. PICK u \in [0 .. Len(longer) -> Nat] :
        /\ u[0] = 0 /\ GrantsOf(longer) = u[Len(longer)]
        /\ \A i \in 1 .. Len(longer) : u[i] = u[i - 1] + Grants(longer[i]) /\ Grants(longer[i]) \in Nat
  BY <1>1, GrantsOfIsTotal
<1> DEFINE v == [i \in 0 .. n |-> u[i]]
<1> HIDE DEF n
<1>4. u \in [0 .. n + 1 -> Nat] /\ v \in [0 .. n -> Nat] /\ v[0] = 0 /\ v[n] = u[n]
  <2>1. n \in Nat /\ u \in [0 .. n + 1 -> Nat]
    BY <1>1, <1>3
  <2>2. \A i \in 0 .. n : i \in 0 .. n + 1
    BY <2>1
  <2>3. \A i \in 0 .. n : u[i] \in Nat
    BY <2>1, <2>2
  <2>4. 0 \in 0 .. n /\ n \in 0 .. n /\ u[0] = 0
    BY <1>3, <2>1
  <2> QED BY <2>1, <2>3, <2>4
<1>5. ASSUME NEW i \in 1 .. n PROVE t[i] - t[i - 1] = v[i] - v[i - 1]
  <2>1. /\ i \in 1 .. n + 1 /\ i \in 0 .. n /\ i - 1 \in 0 .. n
        /\ longer[i] = queue[i] /\ Grants(queue[i]) \in Nat
    BY <1>1, <1>2
  <2>2. t[i] = t[i - 1] + Grants(queue[i]) /\ t[i - 1] \in Nat
    BY <1>2, <2>1
  <2>3. v[i] = v[i - 1] + Grants(queue[i]) /\ v[i - 1] \in Nat
    BY <1>1, <1>3, <1>4, <2>1
  <2> QED BY <2>1, <2>2, <2>3
<1> HIDE DEF v
<1>6. v[n] - 0 = t[n] - 0
  BY <1>1, <1>2, <1>4, <1>5, TotalsAgree
<1>7. /\ u[n + 1] = u[n] + Grants(frame) /\ Grants(frame) \in Nat
      /\ t[n] \in Nat /\ u[n] \in Nat /\ GrantsOf(longer) = u[n + 1]
  BY <1>1, <1>2, <1>3, <1>4
<1> QED BY <1>2, <1>4, <1>6, <1>7 DEF longer

LEMMA GrantsShortened ==
  ASSUME NEW queue \in Seq(ServerFrames), queue # <<>>
  PROVE  /\ GrantsOf(queue) = Grants(Head(queue)) + GrantsOf(Tail(queue))
         /\ Grants(Head(queue)) \in Nat /\ GrantsOf(Tail(queue)) \in Nat
<1> DEFINE n == Len(Tail(queue))
           rest == Tail(queue)
<1>1. /\ rest \in Seq(ServerFrames) /\ n \in Nat /\ Len(queue) = n + 1
      /\ Head(queue) = queue[1] /\ \A i \in 1 .. n : rest[i] = queue[i + 1]
  BY Shortened
<1>2. PICK u \in [0 .. Len(queue) -> Nat] :
        /\ u[0] = 0 /\ GrantsOf(queue) = u[Len(queue)]
        /\ \A i \in 1 .. Len(queue) : u[i] = u[i - 1] + Grants(queue[i]) /\ Grants(queue[i]) \in Nat
  BY GrantsOfIsTotal
<1>3. PICK t \in [0 .. n -> Nat] :
        /\ t[0] = 0 /\ GrantsOf(rest) = t[n]
        /\ \A i \in 1 .. n : t[i] = t[i - 1] + Grants(rest[i]) /\ Grants(rest[i]) \in Nat
  BY <1>1, GrantsOfIsTotal
<1> DEFINE v == [i \in 0 .. n |-> u[i + 1]]
<1> HIDE DEF n, rest
<1>4. u \in [0 .. n + 1 -> Nat] /\ v \in [0 .. n -> Nat] /\ v[0] = u[1] /\ v[n] = u[n + 1]
  BY <1>1, <1>2
<1>5. ASSUME NEW i \in 1 .. n PROVE t[i] - t[i - 1] = v[i] - v[i - 1]
  <2>0. /\ i + 1 \in 1 .. n + 1 /\ i \in 0 .. n /\ i - 1 \in 0 .. n
        /\ i - 1 + 1 = i /\ i + 1 - 1 = i
    BY <1>1
  <2>1. rest[i] = queue[i + 1] /\ Grants(queue[i + 1]) \in Nat
    BY <1>1, <1>2, <2>0
  <2>2. t[i] = t[i - 1] + Grants(queue[i + 1]) /\ t[i - 1] \in Nat
    BY <1>3, <2>0, <2>1
  <2>3. v[i] = v[i - 1] + Grants(queue[i + 1]) /\ v[i - 1] \in Nat
    <3>1. v[i] = u[i + 1] /\ v[i - 1] = u[i]
      BY <2>0
    <3>2. u[i + 1] = u[i] + Grants(queue[i + 1])
      BY <1>1, <1>2, <2>0, <2>1
    <3>3. v[i - 1] \in Nat
      BY <1>4, <2>0
    <3> QED BY <3>1, <3>2, <3>3
  <2> QED BY <2>0, <2>1, <2>2, <2>3
<1> HIDE DEF v
<1>6. v[n] - v[0] = t[n] - 0
  BY <1>1, <1>3, <1>4, <1>5, TotalsAgree
<1>7. /\ u[1] = u[0] + Grants(Head(queue)) /\ Grants(Head(queue)) \in Nat
      /\ t[n] \in Nat /\ u[1] \in Nat /\ u[n + 1] \in Nat /\ GrantsOf(queue) = u[n + 1]
  <2>1. 1 \in 1 .. Len(queue) /\ 1 - 1 = 0 /\ n + 1 \in 0 .. n + 1
    BY <1>1
  <2> QED BY <1>1, <1>2, <1>3, <1>4, <2>1
<1> QED BY <1>2, <1>3, <1>4, <1>6, <1>7 DEF rest

(* The same for the events of a queue, which are counted.                  *)
LEMMA EventsFinite ==
  ASSUME NEW queue \in Seq(ClientFrames)
  PROVE  IsFiniteSet(EventsIn(queue)) /\ Cardinality(EventsIn(queue)) \in Nat
<1>1. Len(queue) \in Nat
  OBVIOUS
<1>2. IsFiniteSet(1 .. Len(queue)) /\ EventsIn(queue) \in SUBSET (1 .. Len(queue))
  BY <1>1, FS_Interval DEF EventsIn
<1>3. IsFiniteSet(EventsIn(queue))
  BY <1>2, FS_Subset
<1> QED BY <1>3, FS_CardinalityType

LEMMA EventsAppended ==
  ASSUME NEW queue \in Seq(ClientFrames), NEW frame \in ClientFrames
  PROVE  Cardinality(EventsIn(Append(queue, frame))) =
           Cardinality(EventsIn(queue)) + (IF frame.type = "Event" THEN 1 ELSE 0)
<1> DEFINE n == Len(queue)
           longer == Append(queue, frame)
<1>1. /\ n \in Nat /\ Len(longer) = n + 1 /\ longer[n + 1] = frame
      /\ \A i \in 1 .. n : longer[i] = queue[i]
      /\ \A i \in 1 .. Len(longer) : i \in 1 .. n \/ i = n + 1
  BY Appended
<1>2. n + 1 \notin EventsIn(queue) /\ n + 1 \in 1 .. n + 1 /\ \A i \in 1 .. n : i \in 1 .. n + 1
  BY <1>1 DEF EventsIn
<1> HIDE DEF longer
<1>3. EventsIn(queue) = {i \in 1 .. n : queue[i].type = "Event"}
  BY DEF EventsIn
<1>4. EventsIn(longer) = {i \in 1 .. n + 1 : longer[i].type = "Event"}
  BY <1>1 DEF EventsIn
<1> HIDE DEF n
<1>5. CASE frame.type = "Event"
  <2>1. EventsIn(longer) = EventsIn(queue) \cup {n + 1}
    BY <1>1, <1>2, <1>3, <1>4, <1>5
  <2> QED BY <1>2, <1>5, <2>1, EventsFinite, FS_AddElement DEF longer
<1>6. CASE frame.type # "Event"
  <2>1. EventsIn(longer) = EventsIn(queue)
    BY <1>1, <1>2, <1>3, <1>4, <1>6
  <2> QED BY <1>6, <2>1, EventsFinite DEF longer
<1> QED BY <1>5, <1>6

LEMMA EventsShortened ==
  ASSUME NEW queue \in Seq(ClientFrames), queue # <<>>
  PROVE  Cardinality(EventsIn(queue)) =
           Cardinality(EventsIn(Tail(queue))) + (IF Head(queue).type = "Event" THEN 1 ELSE 0)
<1> DEFINE rest == Tail(queue)
           n == Len(rest)
           moved == {i + 1 : i \in EventsIn(rest)}
           shift == [i \in EventsIn(rest) |-> i + 1]
<1>1. /\ rest \in Seq(ClientFrames) /\ n \in Nat /\ Len(queue) = n + 1 /\ Head(queue) = queue[1]
      /\ \A i \in 1 .. n : rest[i] = queue[i + 1] /\ i + 1 \in 2 .. Len(queue)
  BY Shortened
<1> HIDE DEF rest
<1>2. EventsIn(rest) = {i \in 1 .. n : rest[i].type = "Event"}
  BY DEF EventsIn
<1>3. EventsIn(queue) = {i \in 1 .. n + 1 : queue[i].type = "Event"}
  BY <1>1 DEF EventsIn
<1> HIDE DEF n
<1>4. shift \in Bijection(EventsIn(rest), moved)
  <2>1. shift \in [EventsIn(rest) -> moved]
    OBVIOUS
  <2>2. \A i, j \in EventsIn(rest) : shift[i] = shift[j] => i = j
    BY <1>1, <1>2
  <2>3. \A k \in moved : \E i \in EventsIn(rest) : shift[i] = k
    OBVIOUS
  <2> HIDE DEF shift, moved
  <2> QED BY <2>1, <2>2, <2>3 DEF Bijection, Injection, Surjection, IsInjective
<1>5. IsFiniteSet(moved) /\ Cardinality(moved) = Cardinality(EventsIn(rest))
  <2>1. IsFiniteSet(EventsIn(rest))
    BY <1>1, EventsFinite
  <2>2. ExistsBijection(EventsIn(rest), moved)
    BY <1>4 DEF ExistsBijection
  <2> HIDE DEF moved
  <2> QED BY <2>1, <2>2, FS_Bijection
<1>6. 1 \notin moved
  BY <1>1, <1>2
<1>7. \A i \in 2 .. n + 1 : queue[i].type = "Event" <=> i \in moved
  <2> SUFFICES ASSUME NEW i \in 2 .. n + 1 PROVE queue[i].type = "Event" <=> i \in moved
    OBVIOUS
  <2>1. i - 1 \in 1 .. n /\ i - 1 + 1 = i /\ rest[i - 1] = queue[i]
    BY <1>1
  <2>2. i \in moved <=> i - 1 \in EventsIn(rest)
    BY <1>1, <1>2, <2>1
  <2> QED BY <1>2, <2>1, <2>2
<1>8. \A i \in moved : i \in 2 .. n + 1
  BY <1>1, <1>2
<1> HIDE DEF moved
<1>9. CASE Head(queue).type = "Event"
  <2>1. EventsIn(queue) = moved \cup {1}
    BY <1>1, <1>3, <1>7, <1>8, <1>9
  <2> QED BY <1>1, <1>5, <1>6, <1>9, <2>1, EventsFinite, FS_AddElement DEF rest
<1>10. CASE Head(queue).type # "Event"
  <2>1. EventsIn(queue) = moved
    BY <1>1, <1>3, <1>7, <1>8, <1>10
  <2> QED BY <1>1, <1>5, <1>10, <2>1, EventsFinite DEF rest
<1> QED BY <1>9, <1>10

---------------------------------------------------------------------------
(* Where the credit of a subscription is.  Before the server has received  *)
(* the Subscribe nothing else is under way; from then on only credits go   *)
(* to the server, and the parts of the sum exchange what they hold.        *)
Budget == Lesser(InitialCredit, MaxCredit)

Unopened ==
  /\ ~connected => owed = 0 /\ toServer = <<>> /\ toClient = <<>>
  /\ connected /\ ~server.resumes /\ ~subscribed =>
       owed = 0 /\ toClient = <<>> /\ \E n \in Nat : toServer = <<Subscribe(n)>>

Paid ==
  connected /\ ~server.resumes /\ subscribed =>
    /\ \A i \in 1 .. Len(toServer) : toServer[i].type = "Credit"
    /\ credit + Unread + GrantsOf(toServer) + owed = Budget

CInv == Typed /\ credit \in Nat /\ Unopened /\ Paid

LEMMA Credits ==
  /\ InitialCredit \in Nat /\ MaxCredit \in Nat /\ Budget \in Nat /\ Budget <= MaxCredit
  /\ NewCredit(InitialCredit) = Budget
  /\ \A c, n \in Nat : Granted(c, n) \in Nat /\ (c + n <= MaxCredit => Granted(c, n) = c + n)
<1>1. InitialCredit \in Nat /\ MaxCredit \in Nat
  BY StreamAssumption
<1>2. \A m, n \in Nat : Lesser(m, n) \in Nat /\ Lesser(m, n) <= n /\ (m <= n => Lesser(m, n) = m)
  BY DEF Lesser
<1>3. ASSUME NEW c \in Nat, NEW n \in Nat
      PROVE  Granted(c, n) \in Nat /\ (c + n <= MaxCredit => Granted(c, n) = c + n)
  <2>1. c + n \in Nat
    OBVIOUS
  <2> QED BY <1>1, <1>2, <2>1 DEF Granted
<1> QED BY <1>1, <1>2, <1>3 DEF Budget, NewCredit

LEMMA EarliestIsNat ==
  ASSUME Typed
  PROVE  Earliest \in Nat \ {0}
<1>1. server.window \in Nat /\ produced \in Nat
  BY Constants DEF Typed
<1> QED BY <1>1 DEF Earliest

LEMMA StepTyped ==
  ASSUME Typed, [Next]_vars
  PROVE  Typed'
<1>1. CASE Produce
  BY <1>1, Constants DEF Typed, Produce
<1>2. CASE Connect
  BY <1>2, FrameFields DEF Typed, Connect
<1>3. CASE Break
  BY <1>3 DEF Typed, Break
<1>4. CASE ServerReceive
  <2> DEFINE frame == Head(toServer)
  <2>1. frame \in ServerFrames /\ Tail(toServer) \in Seq(ServerFrames)
    BY <1>4, Shortened DEF Typed, ServerReceive
  <2>2. next' = next \/ (frame.type = "Subscribe" /\ next' = frame.from + 1)
    BY <1>4 DEF ServerReceive
  <2>3. next' \in Nat \ {0}
    BY <2>1, <2>2, FrameFields DEF Typed
  <2>4. /\ toServer' = Tail(toServer)
        /\ UNCHANGED <<server, produced, delivered, owed, toClient, taken>>
    BY <1>4 DEF ServerReceive
  <2> QED BY <2>1, <2>3, <2>4 DEF Typed
<1>5. CASE SendEvent
  <2>1. Event(next) \in ClientFrames
    BY FrameFields DEF Typed
  <2> QED BY <1>5, <2>1 DEF Typed, SendEvent
<1>6. CASE SendLagged
  <2>1. PICK n \in {Earliest, Earliest - 1} : toClient' = Append(toClient, Lagged(n))
    BY <1>6 DEF SendLagged
  <2>2. Earliest \in Nat \ {0} /\ n \in Nat
    BY EarliestIsNat
  <2>3. Lagged(n) \in ClientFrames
    BY <2>2, FrameFields
  <2>4. next' = Earliest /\ UNCHANGED <<server, produced, delivered, owed, toServer, taken>>
    BY <1>6 DEF SendLagged
  <2> QED BY <2>1, <2>2, <2>3, <2>4 DEF Typed
<1>7. CASE TakeEvent
  <2> DEFINE n == Head(toClient).sequence
  <2>1. Head(toClient) \in ClientFrames /\ Tail(toClient) \in Seq(ClientFrames)
    BY <1>7, Shortened DEF Typed, TakeEvent
  <2>2. n \in Nat
    BY <1>7, <2>1, FrameFields DEF TakeEvent
  <2>3. \/ delivered' = n /\ taken' = Append(taken, n)
        \/ delivered' = delivered /\ taken' = taken
    BY <1>7 DEF TakeEvent
  <2>4. /\ toClient' = Tail(toClient) /\ owed' = owed + 1
        /\ UNCHANGED <<server, produced, next, toServer>>
    BY <1>7 DEF TakeEvent
  <2> HIDE DEF n
  <2>5. delivered' \in Nat /\ taken' \in Seq(Nat)
    <3>1. CASE delivered' = n /\ taken' = Append(taken, n)
      BY <2>2, <3>1 DEF Typed
    <3>2. CASE delivered' = delivered /\ taken' = taken
      BY <3>2 DEF Typed
    <3> QED BY <2>3, <3>1, <3>2
  <2> QED BY <2>1, <2>4, <2>5 DEF Typed
<1>8. CASE TakeLagged
  <2> DEFINE n == Head(toClient).skipped_to
  <2>1. Head(toClient) \in ClientFrames /\ Tail(toClient) \in Seq(ClientFrames)
    BY <1>8, Shortened DEF Typed, TakeLagged
  <2>2. n \in Nat
    BY <1>8, <2>1, FrameFields DEF TakeLagged
  <2>3. /\ toClient' = Tail(toClient) /\ delivered' = n
        /\ UNCHANGED <<server, produced, next, owed, toServer, taken>>
    BY <1>8 DEF TakeLagged, JumpTo
  <2> QED BY <2>1, <2>2, <2>3 DEF Typed
<1>9. CASE Regrant
  <2>1. Credit(owed) \in ServerFrames
    BY FrameFields DEF Typed
  <2> QED BY <1>9, <2>1 DEF Typed, Regrant
<1>10. CASE Idle \/ UNCHANGED vars
  BY <1>10 DEF Typed, Idle, vars
<1> QED BY <1>1, <1>2, <1>3, <1>4, <1>5, <1>6, <1>7, <1>8, <1>9, <1>10 DEF Next

LEMMA EmptyQueues ==
  EventsIn(<<>>) = {} /\ Cardinality(EventsIn(<<>>)) = 0 /\ GrantsOf(<<>>) = 0
<1>1. EventsIn(<<>>) = {}
  BY DEF EventsIn
<1>2. <<>> \in Seq(ServerFrames) /\ Len(<<>>) = 0
  OBVIOUS
<1>3. GrantsOf(<<>>) = 0
  BY <1>2, GrantsOfIsTotal
<1> QED BY <1>1, <1>3, FS_EmptySet

LEMMA OnePart ==
  ASSUME NEW c \in Nat, NEW u \in Nat, NEW n \in Nat, NEW g \in Nat, NEW o \in Nat,
         NEW sum \in Nat, NEW max \in Nat, c + u + (n + g) + o = sum, sum <= max
  PROVE  c + n <= max
OBVIOUS

LEMMA ServerReceivePays ==
  ASSUME CInv, ServerReceive
  PROVE  credit' \in Nat /\ Unopened' /\ Paid'
<1> DEFINE frame == Head(toServer)
<1>1. /\ toServer \in Seq(ServerFrames) /\ toServer # <<>> /\ toServer' = Tail(toServer)
      /\ UNCHANGED <<server, toClient, connected, owed>> /\ connected
      /\ credit \in Nat /\ owed \in Nat /\ toClient \in Seq(ClientFrames)
  BY DEF CInv, Typed, ServerReceive
<1>2. /\ frame \in ServerFrames /\ frame = toServer[1] /\ 1 \in 1 .. Len(toServer)
      /\ toServer' \in Seq(ServerFrames)
      /\ \A i \in 1 .. Len(toServer') : toServer'[i] = toServer[i + 1] /\ i + 1 \in 1 .. Len(toServer)
  BY <1>1, Shortened
<1>3. /\ GrantsOf(toServer) = Grants(frame) + GrantsOf(toServer')
      /\ Grants(frame) \in Nat /\ GrantsOf(toServer') \in Nat /\ Unread \in Nat
  BY <1>1, GrantsShortened, EventsFinite DEF Unread
<1>4. PICK n \in Nat : frame = Subscribe(n) \/ frame = Credit(n)
  BY <1>2 DEF ServerFrames
<1>5. CASE frame = Subscribe(n)
  <2>1. frame.type = "Subscribe" /\ frame.credit = InitialCredit
    BY <1>5 DEF Subscribe
  <2>2. subscribed' = TRUE /\ credit' = Budget /\ Budget \in Nat
    BY <2>1, Credits DEF ServerReceive
  <2>3. Paid'
    <3> SUFFICES ASSUME ~server.resumes PROVE Paid'
      BY <1>1 DEF Paid
    <3>1. ~subscribed
      BY <1>1, <1>2, <2>1 DEF CInv, Paid
    <3>2. owed = 0 /\ toClient = <<>> /\ \E m \in Nat : toServer = <<Subscribe(m)>>
      BY <1>1, <3>1 DEF CInv, Unopened
    <3>3. toServer' = <<>> /\ toClient' = <<>> /\ owed' = 0
      BY <1>1, <3>2
    <3>4. Unread' = 0 /\ GrantsOf(toServer') = 0
      BY <3>3, EmptyQueues DEF Unread
    <3> QED BY <2>2, <3>3, <3>4 DEF Paid, Budget
  <2> QED BY <1>1, <2>2, <2>3 DEF Unopened
<1>6. CASE frame = Credit(n)
  <2>1. frame.type = "Credit" /\ frame.additional = n /\ Grants(frame) = n
    BY <1>6 DEF Credit, Grants
  <2>2. /\ subscribed' = subscribed
        /\ subscribed => credit' = Granted(credit, n)
        /\ ~subscribed => credit' = credit
    BY <2>1 DEF ServerReceive
  <2>3. credit' \in Nat
    BY <1>1, <2>2, Credits
  <2>4. Unopened'
    <3>1. ~(~server.resumes /\ ~subscribed)
      <4> SUFFICES ASSUME ~server.resumes, ~subscribed PROVE FALSE
        OBVIOUS
      <4>1. \E m \in Nat : toServer = <<Subscribe(m)>>
        BY <1>1 DEF CInv, Unopened
      <4> QED BY <1>2, <2>1, <4>1 DEF Subscribe
    <3> QED BY <1>1, <2>2, <3>1 DEF Unopened
  <2>5. Paid'
    <3> SUFFICES ASSUME ~server.resumes, subscribed PROVE Paid'
      BY <1>1, <2>2 DEF Paid
    <3>1. /\ \A i \in 1 .. Len(toServer) : toServer[i].type = "Credit"
          /\ credit + Unread + GrantsOf(toServer) + owed = Budget
      BY <1>1 DEF CInv, Paid
    <3>2. credit' = credit + n
      <4>1. credit + n <= MaxCredit
        <5> DEFINE u == Unread
                   g == GrantsOf(toServer')
                   sum == Budget
        <5>1. u \in Nat /\ g \in Nat /\ sum \in Nat /\ sum <= MaxCredit /\ MaxCredit \in Nat
          BY <1>3, Credits
        <5>2. credit + u + (n + g) + owed = sum
          BY <1>3, <2>1, <3>1
        <5> HIDE DEF u, g, sum
        <5> QED BY <1>1, <5>1, <5>2, OnePart
      <4> QED BY <1>1, <2>2, <4>1, Credits
    <3>3. Unread' = Unread
      BY <1>1 DEF Unread
    <3>4. credit' + Unread' + GrantsOf(toServer') + owed' = Budget
      BY <1>1, <1>3, <2>1, <3>1, <3>2, <3>3
    <3> QED BY <1>2, <3>1, <3>4 DEF Paid, Budget
  <2> QED BY <2>3, <2>4, <2>5
<1> QED BY <1>4, <1>5, <1>6

(* A frame goes to the client, at the price of a credit if it is an event. *)
LEMMA SendPays ==
  ASSUME CInv, connected, subscribed, NEW frame \in ClientFrames,
         toClient' = Append(toClient, frame), credit' \in Nat,
         credit = credit' + (IF frame.type = "Event" THEN 1 ELSE 0),
         UNCHANGED <<server, subscribed, connected, toServer, owed>>
  PROVE  Unopened' /\ Paid'
<1>1. Unopened'
  BY DEF Unopened
<1>2. /\ Unread' = Unread + (IF frame.type = "Event" THEN 1 ELSE 0)
      /\ Unread \in Nat /\ GrantsOf(toServer) \in Nat /\ owed \in Nat
  <2>1. toClient \in Seq(ClientFrames) /\ toServer \in Seq(ServerFrames) /\ owed \in Nat
    BY DEF CInv, Typed
  <2>2. Unread \in Nat /\ Unread' = Cardinality(EventsIn(Append(toClient, frame)))
    BY <2>1, EventsFinite DEF Unread
  <2>3. GrantsOf(toServer) \in Nat
    BY <2>1, GrantsOfIsNat
  <2> QED BY <2>1, <2>2, <2>3, EventsAppended DEF Unread
<1>3. CASE ~server.resumes
  <2>1. credit + Unread + GrantsOf(toServer) + owed = Budget
    BY <1>3 DEF CInv, Paid
  <2>2. credit' + Unread' + GrantsOf(toServer') + owed' = Budget
    BY <1>2, <2>1
  <2>3. \A i \in 1 .. Len(toServer') : toServer'[i].type = "Credit"
    BY <1>3 DEF CInv, Paid
  <2> QED BY <1>1, <2>2, <2>3 DEF Paid, Budget
<1>4. CASE server.resumes
  BY <1>1, <1>4 DEF Paid
<1> QED BY <1>1, <1>3, <1>4

(* And is taken, to be granted again if it is an event.                    *)
LEMMA TakePays ==
  ASSUME CInv, connected, toClient # <<>>, toClient' = Tail(toClient),
         owed' = owed + (IF Head(toClient).type = "Event" THEN 1 ELSE 0),
         UNCHANGED <<server, subscribed, connected, toServer, credit>>
  PROVE  Unopened' /\ Paid'
<1>1. Unopened'
  BY DEF CInv, Unopened
<1>2. /\ Unread = Unread' + (IF Head(toClient).type = "Event" THEN 1 ELSE 0)
      /\ Unread' \in Nat /\ GrantsOf(toServer) \in Nat /\ owed \in Nat /\ credit \in Nat
  <2>1. toClient \in Seq(ClientFrames) /\ toServer \in Seq(ServerFrames) /\ owed \in Nat /\ credit \in Nat
    BY DEF CInv, Typed
  <2>2. toClient' \in Seq(ClientFrames)
    BY <2>1
  <2>3. Unread' \in Nat /\ Unread' = Cardinality(EventsIn(Tail(toClient)))
    BY <2>2, EventsFinite DEF Unread
  <2>4. GrantsOf(toServer) \in Nat
    BY <2>1, GrantsOfIsNat
  <2> QED BY <2>1, <2>3, <2>4, EventsShortened DEF Unread
<1>3. CASE ~server.resumes /\ subscribed
  <2>1. credit + Unread + GrantsOf(toServer) + owed = Budget
    BY <1>3 DEF CInv, Paid
  <2>2. credit' + Unread' + GrantsOf(toServer') + owed' = Budget
    BY <1>2, <2>1
  <2>3. \A i \in 1 .. Len(toServer') : toServer'[i].type = "Credit"
    BY <1>3 DEF CInv, Paid
  <2> QED BY <1>1, <2>2, <2>3 DEF Paid, Budget
<1>4. CASE server.resumes \/ ~subscribed
  BY <1>1, <1>4 DEF Paid
<1> QED BY <1>1, <1>3, <1>4

LEMMA RegrantPays ==
  ASSUME CInv, Regrant
  PROVE  Unopened' /\ Paid'
<1>1. /\ toServer \in Seq(ServerFrames) /\ connected /\ owed \in Nat /\ credit \in Nat
      /\ toServer' = Append(toServer, Credit(owed)) /\ owed' = 0
      /\ toClient \in Seq(ClientFrames) /\ owed # 0
      /\ UNCHANGED <<server, subscribed, toClient, connected, credit>>
  <2>1. Batch \in Nat \ {0}
    BY StreamAssumption
  <2>2. owed >= Batch /\ owed \in Nat
    BY DEF CInv, Typed, Regrant
  <2> QED BY <2>1, <2>2 DEF CInv, Typed, Regrant
<1>2. Credit(owed) \in ServerFrames /\ Credit(owed).type = "Credit" /\ Grants(Credit(owed)) = owed
  BY <1>1, FrameFields DEF Grants, Credit
<1>3. /\ GrantsOf(toServer') = GrantsOf(toServer) + owed
      /\ GrantsOf(toServer) \in Nat /\ Unread \in Nat /\ Unread' = Unread
  BY <1>1, <1>2, GrantsAppended, EventsFinite DEF Unread
<1>4. /\ toServer'[Len(toServer) + 1] = Credit(owed)
      /\ \A i \in 1 .. Len(toServer) : toServer'[i] = toServer[i]
      /\ \A i \in 1 .. Len(toServer') : i \in 1 .. Len(toServer) \/ i = Len(toServer) + 1
  BY <1>1, <1>2, Appended
<1>5. Unopened'
  BY <1>1 DEF CInv, Unopened
<1>6. CASE ~server.resumes /\ subscribed
  <2>1. /\ \A i \in 1 .. Len(toServer) : toServer[i].type = "Credit"
        /\ credit + Unread + GrantsOf(toServer) + owed = Budget
    BY <1>1, <1>6 DEF CInv, Paid
  <2>2. credit' + Unread' + GrantsOf(toServer') + owed' = Budget
    BY <1>1, <1>3, <2>1
  <2>3. \A i \in 1 .. Len(toServer') : toServer'[i].type = "Credit"
    BY <1>2, <1>4, <2>1
  <2> QED BY <1>5, <2>2, <2>3 DEF Paid, Budget
<1>7. CASE server.resumes \/ ~subscribed
  BY <1>1, <1>5, <1>7 DEF Paid
<1> QED BY <1>5, <1>6, <1>7

LEMMA StepCInv == CInv /\ [Next]_vars => CInv'
<1> SUFFICES ASSUME CInv, [Next]_vars PROVE CInv'
  OBVIOUS
<1>1. Typed'
  BY StepTyped DEF CInv
<1> SUFFICES credit' \in Nat /\ Unopened' /\ Paid'
  BY <1>1 DEF CInv
<1>2. credit \in Nat
  BY DEF CInv
<1>3. CASE Produce \/ Idle \/ UNCHANGED vars
  <2>1. UNCHANGED <<server, subscribed, connected, toServer, toClient, owed, credit>>
    BY <1>3 DEF Produce, Idle, vars
  <2> QED BY <1>2, <2>1 DEF CInv, Unopened, Paid, Unread, Budget
<1>4. CASE Connect
  <2>1. /\ credit' = credit /\ owed' = 0 /\ toClient' = <<>> /\ toServer' = <<Subscribe(delivered)>>
        /\ server' = server /\ connected' /\ delivered \in Nat
        /\ ~server.resumes => ~subscribed'
    BY <1>4 DEF Connect, CInv, Typed, Unopened
  <2> QED BY <1>2, <2>1 DEF Unopened, Paid
<1>5. CASE Break
  BY <1>2, <1>5 DEF Break, Unopened, Paid
<1>6. CASE ServerReceive
  BY <1>6, ServerReceivePays
<1>7. CASE SendEvent
  <2>1. Event(next) \in ClientFrames /\ Event(next).type = "Event"
    BY FrameFields DEF CInv, Typed
  <2>2. /\ toClient' = Append(toClient, Event(next)) /\ connected /\ subscribed
        /\ UNCHANGED <<server, subscribed, connected, toServer, owed>>
    BY <1>7 DEF SendEvent
  <2>3. credit' \in Nat /\ credit = credit' + 1
    BY <1>2, <1>7 DEF SendEvent, Consumed
  <2> QED BY <2>1, <2>2, <2>3, SendPays
<1>8. CASE SendLagged
  <2>1. PICK n \in {Earliest, Earliest - 1} : toClient' = Append(toClient, Lagged(n))
    BY <1>8 DEF SendLagged
  <2>2. n \in Nat
    BY EarliestIsNat DEF CInv
  <2>3. Lagged(n) \in ClientFrames /\ Lagged(n).type # "Event"
    BY <2>2, FrameFields
  <2>4. /\ connected /\ subscribed /\ credit' = credit
        /\ UNCHANGED <<server, subscribed, connected, toServer, owed>>
    BY <1>8 DEF SendLagged
  <2>5. credit = credit' + 0
    BY <1>2, <2>4
  <2> QED BY <1>2, <2>1, <2>3, <2>4, <2>5, SendPays
<1>9. CASE TakeEvent
  BY <1>2, <1>9, TakePays DEF TakeEvent
<1>10. CASE TakeLagged
  <2>1. owed' = owed + 0
    BY <1>10 DEF TakeLagged, CInv, Typed
  <2> QED BY <1>2, <1>10, <2>1, TakePays DEF TakeLagged
<1>11. CASE Regrant
  BY <1>2, <1>11, RegrantPays DEF Regrant
<1> QED BY <1>3, <1>4, <1>5, <1>6, <1>7, <1>8, <1>9, <1>10, <1>11 DEF Next

(* For every initial and maximum credit, batch, window and number of       *)
(* breaks: as long as the server does not go on with an old subscription,  *)
(* what it may send, what is on its way in either direction and what the   *)
(* client has yet to grant again add up to the initial credit              *)
(* (FlowControl::new, consume and grant): the minimum in grant never cuts. *)
THEOREM CreditIsConserved == Spec => []CreditConserved
<1>1. Init => CInv
  BY Constants DEF Init, CInv, Typed, Unopened, Paid
<1>2. CInv /\ [Next]_vars => CInv'
  BY StepCInv
<1>3. CInv => CreditConserved
  BY DEF CInv, Paid, CreditConserved, Budget
<1> QED BY <1>1, <1>2, <1>3, PTL DEF Spec
===========================================================================
