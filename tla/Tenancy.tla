------------------------------ MODULE Tenancy ------------------------------
(***************************************************************************)
(* Members, seats and invitations of one organization, with the rules of   *)
(* src/src/runtime/tenancy.rs:233-366.  The functions judge a ledger that  *)
(* their caller computes from the rows; the caller is external and does    *)
(* that, and writes the outcome, in one transaction per request.  An       *)
(* address is invited at most once at a time and only while it belongs to  *)
(* no member.                                                              *)
(***************************************************************************)
EXTENDS Naturals, FiniteSets

CONSTANTS
  People,
  Founder,      \* the person who signed the organization up
  Employees,    \* the people with an address in a verified domain
  DomainJoin,   \* JoinPolicy.domain_join_enabled
  Restricted,   \* JoinPolicy.restrict_invitations_to_verified_domains
  DefaultRole,  \* JoinPolicy.default_role
  MaxSeats      \* bound on seats

Viewer == 1
Member == 2
Admin == 3
Owner == 4
Nobody == 0   \* holds no role
Roles == Viewer .. Owner

ASSUME TenancyAssumption ==
  /\ IsFiniteSet(People) /\ Founder \in People /\ Employees \subseteq People
  /\ DomainJoin \in BOOLEAN /\ Restricted \in BOOLEAN
  /\ DefaultRole \in Roles /\ MaxSeats \in Nat \ {0}

VARIABLES
  role,       \* membership rows: person -> role, or Nobody
  invited,    \* open invitations: person -> role, or Nobody
  purchased,  \* Seats.purchased
  sponsor     \* history: the role of whoever granted what the person holds or is offered

vars == <<role, invited, purchased, sponsor>>

Holding(r) == {p \in People : role[p] = r}
owner_count == Cardinality(Holding(Owner))
Occupied == Cardinality({p \in People : role[p] # Nobody})
Reserved == Cardinality({p \in People : invited[p] # Nobody})

TypeOK ==
  /\ role \in [People -> Roles \cup {Nobody}]
  /\ invited \in [People -> Roles \cup {Nobody}]
  /\ purchased \in 1 .. MaxSeats
  /\ sponsor \in [People -> Roles \cup {Nobody}]
  /\ \A p \in People : role[p] = Nobody \/ invited[p] = Nobody

Init ==
  /\ role = [p \in People |-> IF p = Founder THEN Owner ELSE Nobody]
  /\ invited = [p \in People |-> Nobody]
  /\ purchased = MaxSeats
  /\ sponsor = [p \in People |-> IF p = Founder THEN Owner ELSE Nobody]

---------------------------------------------------------------------------
ReservationsIgnored == Occupied < purchased       \* mutant: reserved is not counted
HasRoom == Occupied + Reserved < purchased

AdminsGrantAll(actor, granted) == actor >= Admin  \* mutant: `granted > actor` is not checked
MayGrant(actor, granted) == actor >= Admin /\ granted <= actor

MayTouch(actor, current) == actor >= Admin /\ current <= actor

NoOwnerLeft(current) == current = Owner /\ owner_count = 0  \* mutant: `< 1` for `<= 1`
LastOwner(current) == current = Owner /\ owner_count <= 1

Closed(p) == [invited EXCEPT ![p] = Nobody]

SeatGone == Occupied >= purchased /\ Reserved = 0

Invite(actor, p, granted) ==
  /\ role[p] = Nobody /\ invited[p] = Nobody
  /\ MayGrant(role[actor], granted)
  /\ Restricted => p \in Employees
  /\ HasRoom
  /\ invited' = [invited EXCEPT ![p] = granted]
  /\ sponsor' = [sponsor EXCEPT ![p] = role[actor]]
  /\ UNCHANGED <<role, purchased>>

(* An acceptance of an open invitation by its addressee.  The ledger       *)
(* counts the invitation itself among the reserved ones, so SeatGone is    *)
(* never true of it: it is accepted although seats were removed since.     *)
Accept(p) ==
  /\ invited[p] # Nobody
  /\ ~SeatGone
  /\ role' = [role EXCEPT ![p] = invited[p]]
  /\ invited' = Closed(p)
  /\ UNCHANGED <<purchased, sponsor>>

(* The invitation is revoked or expires. *)
CloseInvitation(p) ==
  /\ invited[p] # Nobody
  /\ invited' = Closed(p)
  /\ sponsor' = [sponsor EXCEPT ![p] = Nobody]
  /\ UNCHANGED <<role, purchased>>

JoinByDomain(p) ==
  /\ role[p] = Nobody /\ invited[p] = Nobody
  /\ DomainJoin /\ p \in Employees
  /\ HasRoom
  /\ role' = [role EXCEPT ![p] = DefaultRole]
  /\ sponsor' = [sponsor EXCEPT ![p] = DefaultRole]
  /\ UNCHANGED <<invited, purchased>>

ChangeRole(actor, p, next) ==
  /\ role[p] # Nobody
  /\ MayGrant(role[actor], next) /\ MayTouch(role[actor], role[p])
  /\ next # Owner => ~LastOwner(role[p])
  /\ role' = [role EXCEPT ![p] = next]
  /\ sponsor' = [sponsor EXCEPT ![p] = role[actor]]
  /\ UNCHANGED <<invited, purchased>>

RemoveMember(actor, p) ==
  /\ role[p] # Nobody
  /\ MayTouch(role[actor], role[p])
  /\ ~LastOwner(role[p])
  /\ role' = [role EXCEPT ![p] = Nobody]
  /\ sponsor' = [sponsor EXCEPT ![p] = Nobody]
  /\ UNCHANGED <<invited, purchased>>

(* Billing, which this library does not judge. *)
SetSeats(n) ==
  /\ purchased' = n
  /\ UNCHANGED <<role, invited, sponsor>>

(* What a person asks for, and what happens without being asked. *)
Asks(actor) ==
  \/ \E p \in People :
       \/ \E r \in Roles : Invite(actor, p, r) \/ ChangeRole(actor, p, r)
       \/ RemoveMember(actor, p)
  \/ Accept(actor) \/ JoinByDomain(actor)

Befalls == (\E p \in People : CloseInvitation(p)) \/ (\E n \in 1 .. MaxSeats : SetSeats(n))

---------------------------------------------------------------------------
(* "An organization must always have at least one owner" (line 143),       *)
(* whatever its members do to each other and themselves.                   *)
AlwaysAnOwner == owner_count >= 1

(* "Escalating past your own role" (lines 324-325) is impossible even in   *)
(* several steps and through an invitation accepted when its sender is no  *)
(* longer who they were: what a person holds or is offered was granted by  *)
(* somebody of at least that role.                                         *)
NobodyOutranksSponsor ==
  \A p \in People : role[p] <= sponsor[p] /\ invited[p] <= sponsor[p]

(* "They hold a seat so an org cannot over-invite" (line 88): members and  *)
(* open invitations come to exceed the seats by giving seats back and in   *)
(* no other way, and nothing makes the excess larger.                      *)
NeverOverInvited ==
  [][Occupied' + Reserved' > purchased' =>
       purchased' # purchased \/ Occupied' + Reserved' <= Occupied + Reserved]_vars
===========================================================================
