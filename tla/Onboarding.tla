----------------------------- MODULE Onboarding -----------------------------
(***************************************************************************)
(* The org and the user machine of src/src/onboarding.rs, one subject.     *)
(* advance is pure; the server that reads the state, calls it and writes   *)
(* the result is external and takes one request at a time.  Requests reach *)
(* it in any order, as often as the clients and the network repeat them:   *)
(* a request asked for may be delivered at any time, any number of times.  *)
(* An event that only the other machine knows (UnknownEvent) has no edge   *)
(* here: to the subject it is one more Rejected.                           *)
(***************************************************************************)
EXTENDS Naturals, Sequences, FiniteSets

CONSTANTS
  Machines,   \* the machines to look at: "org", "user"
  MaxMoves    \* bound on deliveries that move the subject

ASSUME OnboardingAssumption == Machines \subseteq {"org", "user"} /\ MaxMoves \in Nat

VARIABLES
  machine,
  state,
  asked,     \* the events clients have asked for
  settled,   \* those that were answered Advanced or AlreadyThere
  path       \* history: the events that moved the subject, in order

onboarding == <<machine, state, asked, settled, path>>

(* The stations of a healthy subject, and the event that leads to each. *)
Stations ==
  IF machine = "org"
  THEN <<"Created", "OrgProfile", "BillingLinked", "GithubAppInstalled", "FirstWorkflowPlanned", "Active">>
  ELSE <<"Created", "EmailVerified", "ProfileComplete", "OrgJoined", "Active">>
Steps ==
  IF machine = "org"
  THEN <<"ProfileCompleted", "BillingLinked", "GithubAppInstalled", "FirstWorkflowPlanned", "Activated">>
  ELSE <<"EmailVerified", "ProfileCompleted", "OrgJoined", "Activated">>

Parked == IF machine = "org" THEN "Suspended" ELSE "Dormant"
Park == IF machine = "org" THEN "Suspended" ELSE "WentDormant"
Unpark == IF machine = "org" THEN "Activated" ELSE "Resumed"

States == {Stations[i] : i \in 1 .. Len(Stations)} \cup {Parked}
Events == {Steps[i] : i \in 1 .. Len(Steps)} \cup {Park, Unpark}

Edge(from, event, to) == [from |-> from, event |-> event, to |-> to]
ParkEdges == {Edge(s, Park, Parked) : s \in States \ {Parked}}
StepEdges == {Edge(Stations[i], Steps[i], Stations[i + 1]) : i \in 1 .. Len(Steps)}
CopiedRow ==       \* mutant: the second row has the event of the first
  {Edge(Stations[i], Steps[IF i = 2 THEN 1 ELSE i], Stations[i + 1]) : i \in 1 .. Len(Steps)}
    \cup ParkEdges \cup {Edge(Parked, Unpark, "Active")}
transitions == StepEdges \cup ParkEdges \cup {Edge(Parked, Unpark, "Active")}

---------------------------------------------------------------------------
AnyFrom(event) == {e \in transitions : e.event = event}  \* mutant: `from` is not compared
EdgesOut(event) == {e \in transitions : e.from = state /\ e.event = event}
IsThere(event) == \E e \in transitions : e.event = event /\ e.to = state

OnboardingInit ==
  /\ machine \in Machines
  /\ state = "Created"
  /\ asked = {} /\ settled = {} /\ path = <<>>

Ask(event) ==
  /\ event \notin asked
  /\ asked' = asked \cup {event}
  /\ UNCHANGED <<machine, state, settled, path>>

(* The three answers of advance. *)
Advanced(event) ==
  /\ Len(path) < MaxMoves   \* Park and Unpark can alternate for ever
  /\ \E e \in EdgesOut(event) : state' = e.to
  /\ path' = Append(path, event)
  /\ settled' = settled \cup {event}

AlreadyThere(event) ==
  /\ EdgesOut(event) = {} /\ IsThere(event)
  /\ settled' = settled \cup {event}
  /\ UNCHANGED <<state, path>>

Rejected(event) ==
  /\ EdgesOut(event) = {} /\ ~IsThere(event)
  /\ UNCHANGED <<state, settled, path>>

Deliver(event) ==
  /\ event \in asked
  /\ Advanced(event) \/ AlreadyThere(event) \/ Rejected(event)
  /\ UNCHANGED <<machine, asked>>

OnboardingNext == \E event \in Events : Ask(event) \/ Deliver(event)

OnboardingSpec == OnboardingInit /\ [][OnboardingNext]_onboarding

---------------------------------------------------------------------------
TypeOK ==
  /\ machine \in Machines
  /\ state \in States
  /\ asked \subseteq Events
  /\ settled \subseteq asked
  /\ path \in Seq(settled)
  /\ state = "Created" <=> path = <<>>    \* nothing leads back

(* Unless somebody parks the subject, it goes through the stations one by  *)
(* one, whatever the order of the requests (the order of lines 22-23).     *)
StationsInOrder ==
  Park \notin asked =>
    \E n \in 0 .. Len(Steps) : state = Stations[n + 1] /\ path = SubSeq(Steps, 1, n)

(* Clients that repeat a request until it is settled bring a subject       *)
(* nobody parks to Active, in whatever order they ask: as long as it is    *)
(* not, one of the requests that are still repeated moves it.              *)
RepeatsSuffice ==
  {Steps[i] : i \in 1 .. Len(Steps)} \subseteq asked /\ Park \notin asked /\ state # "Active" =>
    \E event \in asked \ settled : EdgesOut(event) # {}
===========================================================================
