--------------------------- MODULE Service_proof ---------------------------
(***************************************************************************)
(* Proofs about Service: what the members of an organization cannot do to  *)
(* it, and what no environment and no token can do to the planes.          *)
(***************************************************************************)
EXTENDS Service, FiniteSetTheorems, TLAPS

---------------------------------------------------------------------------
(* The organization.  Every step of the service is a step of one person,   *)
(* of the organization's surroundings, or leaves the organization alone.   *)
(***************************************************************************)
OrgNext == Befalls \/ \E p \in People : Asks(p)

LEMMA ServiceStep == [ServiceNext]_serviceVars => [OrgNext]_vars
<1>1. ASSUME ServiceNext PROVE OrgNext \/ UNCHANGED vars
  BY <1>1 DEF ServiceNext, OrgNext, Edit, Boot, Tick, Happen, Follow, Act, Open
<1> QED BY <1>1 DEF serviceVars, vars

THEOREM Types == Serves => []TypeOK
<1> USE TenancyAssumption DEF Roles, Nobody, Owner, Admin, Member, Viewer
<1>1. ServiceInit => TypeOK
  BY DEF ServiceInit, Init, TypeOK
<1>2. ASSUME TypeOK, [OrgNext]_vars PROVE TypeOK'
  <2> USE <1>2 DEF TypeOK
  <2>1. ASSUME NEW actor \in People, NEW p \in People, NEW r \in Roles, Invite(actor, p, r)
        PROVE  TypeOK'
    BY <2>1 DEF Invite, MayGrant
  <2>2. ASSUME NEW p \in People, Accept(p) PROVE TypeOK'
    BY <2>2 DEF Accept, Closed
  <2>3. ASSUME NEW p \in People, CloseInvitation(p) PROVE TypeOK'
    BY <2>3 DEF CloseInvitation, Closed
  <2>4. ASSUME NEW p \in People, JoinByDomain(p) PROVE TypeOK'
    BY <2>4 DEF JoinByDomain
  <2>5. ASSUME NEW actor \in People, NEW p \in People, NEW r \in Roles, ChangeRole(actor, p, r)
        PROVE  TypeOK'
    BY <2>5 DEF ChangeRole, MayGrant
  <2>6. ASSUME NEW actor \in People, NEW p \in People, RemoveMember(actor, p) PROVE TypeOK'
    BY <2>6 DEF RemoveMember
  <2>7. ASSUME NEW n \in 1 .. MaxSeats, SetSeats(n) PROVE TypeOK'
    BY <2>7 DEF SetSeats
  <2>8. CASE UNCHANGED vars
    BY <2>8 DEF vars
  <2> QED BY <2>1, <2>2, <2>3, <2>4, <2>5, <2>6, <2>7, <2>8 DEF OrgNext, Asks, Befalls
<1> QED BY <1>1, <1>2, ServiceStep, PTL DEF Serves

(* The number of owners matters in one place only, where LastOwner is      *)
(* asked; elsewhere it is enough that there is one.                        *)
LEMMA OwnerCounted ==
  ASSUME TypeOK
  PROVE  /\ AlwaysAnOwner <=> \E p \in People : role[p] = Owner
         /\ \A p \in People : role[p] = Owner /\ ~LastOwner(Owner) =>
              \E q \in People \ {p} : role[q] = Owner
<1> DEFINE Owners == Holding(Owner)
<1>1. IsFiniteSet(Owners) /\ Cardinality(Owners) \in Nat
  <2>1. Owners \subseteq People
    BY DEF Holding
  <2> QED BY <2>1, TenancyAssumption, FS_Subset, FS_CardinalityType
<1>2. Cardinality(Owners) = 0 <=> Owners = {}
  BY <1>1, FS_EmptySet
<1>3. AlwaysAnOwner <=> \E p \in People : role[p] = Owner
  BY <1>1, <1>2 DEF AlwaysAnOwner, owner_count, Holding
<1>4. ASSUME NEW p \in People, role[p] = Owner, ~LastOwner(Owner)
      PROVE  \E q \in People \ {p} : role[q] = Owner
  <2>1. p \in Owners
    BY <1>4 DEF Holding
  <2>2. Cardinality(Owners) > 1
    BY <1>1, <1>4 DEF LastOwner, owner_count
  <2>3. Cardinality(Owners \ {p}) = Cardinality(Owners) - 1 /\ IsFiniteSet(Owners \ {p})
    BY <1>1, <2>1, FS_RemoveElement
  <2>4. Owners \ {p} # {}
    BY <1>1, <2>2, <2>3, FS_EmptySet
  <2> QED BY <2>4 DEF Holding
<1> QED BY <1>3, <1>4

(* "An organization must always have at least one owner" (tenancy.rs line  *)
(* 143), for any number of people and whatever they do to each other.      *)
THEOREM OwnerRemains == Serves => []AlwaysAnOwner
<1> USE DEF Roles, Nobody, Owner, Admin, Member, Viewer
<1>1. ServiceInit => TypeOK /\ AlwaysAnOwner
  <2>1. SUFFICES ASSUME ServiceInit PROVE TypeOK /\ AlwaysAnOwner
    OBVIOUS
  <2>2. TypeOK
    BY <2>1, TenancyAssumption DEF ServiceInit, Init, TypeOK
  <2>3. role[Founder] = Owner
    BY <2>1, TenancyAssumption DEF ServiceInit, Init
  <2> QED BY <2>2, <2>3, TenancyAssumption, OwnerCounted
<1>2. ASSUME TypeOK, TypeOK', AlwaysAnOwner, [OrgNext]_vars PROVE AlwaysAnOwner'
  <2>1. PICK owner \in People : role[owner] = Owner
    BY <1>2, OwnerCounted
  <2>2. SUFFICES \E q \in People : role'[q] = Owner
    <3>1. \A q \in People : role'[q] = Owner => owner_count' >= 1
      <4>1. (Holding(Owner))' \subseteq People
        BY DEF Holding
      <4>2. IsFiniteSet((Holding(Owner))') /\ Cardinality((Holding(Owner))') \in Nat
        BY <4>1, TenancyAssumption, FS_Subset, FS_CardinalityType
      <4>3. Cardinality((Holding(Owner))') = 0 <=> (Holding(Owner))' = {}
        BY <4>2, FS_EmptySet
      <4> QED BY <4>2, <4>3 DEF owner_count, Holding
    <3> QED BY <3>1 DEF AlwaysAnOwner
  <2> USE <1>2, <2>1 DEF TypeOK
  <2>3. ASSUME NEW actor \in People, NEW p \in People, NEW r \in Roles, Invite(actor, p, r)
        PROVE  role'[owner] = Owner
    BY <2>3 DEF Invite
  <2>4. ASSUME NEW p \in People, Accept(p) PROVE role'[owner] = Owner
    BY <2>4 DEF Accept
  <2>5. ASSUME NEW p \in People, CloseInvitation(p) PROVE role'[owner] = Owner
    BY <2>5 DEF CloseInvitation
  <2>6. ASSUME NEW p \in People, JoinByDomain(p) PROVE role'[owner] = Owner
    BY <2>6 DEF JoinByDomain
  <2>7. ASSUME NEW actor \in People, NEW p \in People, NEW r \in Roles, ChangeRole(actor, p, r)
        PROVE  \E q \in People : role'[q] = Owner
    <3>1. CASE r = Owner
      BY <2>7, <3>1 DEF ChangeRole
    <3>2. CASE role[p] # Owner
      BY <2>7, <3>2 DEF ChangeRole
    <3>3. CASE r # Owner /\ role[p] = Owner
      <4>1. PICK q \in People \ {p} : role[q] = Owner
        BY <2>7, <3>3, OwnerCounted DEF ChangeRole
      <4> QED BY <2>7, <4>1 DEF ChangeRole
    <3> QED BY <3>1, <3>2, <3>3
  <2>8. ASSUME NEW actor \in People, NEW p \in People, RemoveMember(actor, p)
        PROVE  \E q \in People : role'[q] = Owner
    <3>1. CASE role[p] # Owner
      BY <2>8, <3>1 DEF RemoveMember
    <3>2. CASE role[p] = Owner
      <4>1. PICK q \in People \ {p} : role[q] = Owner
        BY <2>8, <3>2, OwnerCounted DEF RemoveMember
      <4> QED BY <2>8, <4>1 DEF RemoveMember
    <3> QED BY <3>1, <3>2
  <2>9. ASSUME NEW n \in 1 .. MaxSeats, SetSeats(n) PROVE role'[owner] = Owner
    BY <2>9 DEF SetSeats
  <2>10. CASE UNCHANGED vars
    BY <2>10 DEF vars
  <2> QED BY <2>3, <2>4, <2>5, <2>6, <2>7, <2>8, <2>9, <2>10 DEF OrgNext, Asks, Befalls
<1> QED BY <1>1, <1>2, Types, ServiceStep, PTL DEF Serves

(* "Escalating past your own role" (tenancy.rs lines 324-325) is           *)
(* impossible in any number of steps.                                      *)
THEOREM NobodyEscalates == Serves => []NobodyOutranksSponsor
<1> USE TenancyAssumption DEF Roles, Nobody, Owner, Admin, Member, Viewer
<1>1. ServiceInit => NobodyOutranksSponsor
  BY DEF ServiceInit, Init, NobodyOutranksSponsor
<1>2. ASSUME TypeOK, NobodyOutranksSponsor, [OrgNext]_vars PROVE NobodyOutranksSponsor'
  <2> USE <1>2 DEF TypeOK, NobodyOutranksSponsor
  <2>1. ASSUME NEW actor \in People, NEW p \in People, NEW r \in Roles, Invite(actor, p, r)
        PROVE  NobodyOutranksSponsor'
    BY <2>1 DEF Invite, MayGrant
  <2>2. ASSUME NEW p \in People, Accept(p) PROVE NobodyOutranksSponsor'
    BY <2>2 DEF Accept, Closed
  <2>3. ASSUME NEW p \in People, CloseInvitation(p) PROVE NobodyOutranksSponsor'
    BY <2>3 DEF CloseInvitation, Closed
  <2>4. ASSUME NEW p \in People, JoinByDomain(p) PROVE NobodyOutranksSponsor'
    BY <2>4 DEF JoinByDomain
  <2>5. ASSUME NEW actor \in People, NEW p \in People, NEW r \in Roles, ChangeRole(actor, p, r)
        PROVE  NobodyOutranksSponsor'
    BY <2>5 DEF ChangeRole, MayGrant
  <2>6. ASSUME NEW actor \in People, NEW p \in People, RemoveMember(actor, p)
        PROVE  NobodyOutranksSponsor'
    BY <2>6 DEF RemoveMember
  <2>7. ASSUME NEW n \in 1 .. MaxSeats, SetSeats(n) PROVE NobodyOutranksSponsor'
    BY <2>7 DEF SetSeats
  <2>8. CASE UNCHANGED vars
    BY <2>8 DEF vars
  <2> QED BY <2>1, <2>2, <2>3, <2>4, <2>5, <2>6, <2>7, <2>8 DEF OrgNext, Asks, Befalls
<1> QED BY <1>1, <1>2, Types, ServiceStep, PTL DEF Serves

(* Adding and taking away one person.                                      *)
LEMMA OneMore ==
  ASSUME NEW f, NEW g, NEW p \in People, f[p] = Nobody, g[p] # Nobody,
         \A q \in People \ {p} : g[q] = f[q]
  PROVE  Cardinality({q \in People : g[q] # Nobody}) = Cardinality({q \in People : f[q] # Nobody}) + 1
<1> DEFINE F == {q \in People : f[q] # Nobody}
           G == {q \in People : g[q] # Nobody}
<1>1. G = F \cup {p} /\ p \notin F
  OBVIOUS
<1>2. IsFiniteSet(F)
  BY TenancyAssumption, FS_Subset, F \subseteq People
<1> HIDE DEF F, G
<1>3. Cardinality(G) = Cardinality(F) + 1
  BY <1>1, <1>2, FS_AddElement
<1> QED BY <1>3 DEF F, G

LEMMA Counts ==
  /\ Occupied \in Nat /\ Reserved \in Nat
  /\ Occupied' \in Nat /\ Reserved' \in Nat
<1>1. \A S : S \subseteq People => Cardinality(S) \in Nat
  BY TenancyAssumption, FS_Subset, FS_CardinalityType
<1> QED BY <1>1 DEF Occupied, Reserved

LEMMA OneLess ==
  ASSUME NEW a \in Nat, NEW b \in Nat, NEW c \in Nat, NEW d \in Nat, c = a \/ c = a + 1, b = d + 1
  PROVE  c + d <= a + b /\ d + c <= b + a
OBVIOUS

(* "They hold a seat so an org cannot over-invite" (tenancy.rs line 88):   *)
(* only giving seats back can leave fewer seats than people and open       *)
(* invitations.                                                            *)
THEOREM SeatsHold == Serves => NeverOverInvited
<1> USE DEF Roles, Nobody, Owner, Admin, Member, Viewer
<1> DEFINE Good == Occupied' + Reserved' > purchased' =>
                     purchased' # purchased \/ Occupied' + Reserved' <= Occupied + Reserved
<1>1. ASSUME TypeOK, TypeOK', [OrgNext]_vars PROVE Good
  <2> USE <1>1, TenancyAssumption DEF TypeOK
  <2>1. ASSUME NEW actor \in People, NEW p \in People, NEW r \in Roles, Invite(actor, p, r) PROVE Good
    <3>1. Reserved' = Reserved + 1
      <4>1. /\ invited[p] = Nobody /\ invited'[p] # Nobody
            /\ \A q \in People \ {p} : invited'[q] = invited[q]
        BY <2>1 DEF Invite
      <4> QED BY <4>1, OneMore DEF Reserved
    <3>2. Occupied' = Occupied
      BY <2>1 DEF Invite, Occupied
    <3> QED BY <2>1, <3>1, <3>2, Counts DEF Invite, HasRoom
  <2>2. ASSUME NEW p \in People, Accept(p) PROVE Good
    <3>1. Reserved = Reserved' + 1
      <4>1. /\ invited'[p] = Nobody /\ invited[p] # Nobody
            /\ \A q \in People \ {p} : invited[q] = invited'[q]
        BY <2>2 DEF Accept, Closed
      <4> QED BY <4>1, OneMore DEF Reserved
    <3>2. Occupied' = Occupied + 1
      <4>1. /\ role[p] = Nobody /\ role'[p] # Nobody
            /\ \A q \in People \ {p} : role'[q] = role[q]
        BY <2>2 DEF Accept
      <4> QED BY <4>1, OneMore DEF Occupied
    <3> HIDE <1>1
    <3>3. Occupied' + Reserved' <= Occupied + Reserved
      BY <3>1, <3>2, Counts, OneLess
    <3> QED BY <3>3
  <2>3. ASSUME NEW p \in People, CloseInvitation(p) PROVE Good
    <3>1. Reserved = Reserved' + 1
      <4>1. /\ invited'[p] = Nobody /\ invited[p] # Nobody
            /\ \A q \in People \ {p} : invited[q] = invited'[q]
        BY <2>3 DEF CloseInvitation, Closed
      <4> QED BY <4>1, OneMore DEF Reserved
    <3>2. Occupied' = Occupied
      BY <2>3 DEF CloseInvitation, Occupied
    <3> HIDE <1>1
    <3>3. Occupied' + Reserved' <= Occupied + Reserved
      BY <3>1, <3>2, Counts, OneLess
    <3> QED BY <3>3
  <2>4. ASSUME NEW p \in People, JoinByDomain(p) PROVE Good
    <3>1. Occupied' = Occupied + 1
      <4>1. /\ role[p] = Nobody /\ role'[p] # Nobody
            /\ \A q \in People \ {p} : role'[q] = role[q]
        BY <2>4, TenancyAssumption DEF JoinByDomain
      <4> QED BY <4>1, OneMore DEF Occupied
    <3>2. Reserved' = Reserved
      BY <2>4 DEF JoinByDomain, Reserved
    <3> QED BY <2>4, <3>1, <3>2, Counts DEF JoinByDomain, HasRoom
  <2>5. ASSUME NEW actor \in People, NEW p \in People, NEW r \in Roles, ChangeRole(actor, p, r) PROVE Good
    <3>1. \A q \in People : role'[q] # Nobody <=> role[q] # Nobody
      BY <2>5 DEF ChangeRole
    <3>2. Occupied' = Occupied
      BY <3>1 DEF Occupied
    <3>3. Reserved' = Reserved
      BY <2>5 DEF ChangeRole, Reserved
    <3> QED BY <3>2, <3>3, Counts
  <2>6. ASSUME NEW actor \in People, NEW p \in People, RemoveMember(actor, p) PROVE Good
    <3>1. Occupied = Occupied' + 1
      <4>1. /\ role'[p] = Nobody /\ role[p] # Nobody
            /\ \A q \in People \ {p} : role[q] = role'[q]
        BY <2>6 DEF RemoveMember
      <4> QED BY <4>1, OneMore DEF Occupied
    <3>2. Reserved' = Reserved
      BY <2>6 DEF RemoveMember, Reserved
    <3> HIDE <1>1
    <3>3. Occupied' + Reserved' <= Occupied + Reserved
      BY <3>1, <3>2, Counts, OneLess
    <3> QED BY <3>3
  <2>7. ASSUME NEW n \in 1 .. MaxSeats, SetSeats(n) PROVE Good
    <3>1. Occupied' = Occupied /\ Reserved' = Reserved
      BY <2>7 DEF SetSeats, Occupied, Reserved
    <3> QED BY <3>1, Counts
  <2>8. CASE UNCHANGED vars
    <3>1. Occupied' = Occupied /\ Reserved' = Reserved
      BY <2>8 DEF vars, Occupied, Reserved
    <3> QED BY <3>1, Counts
  <2> QED BY <2>1, <2>2, <2>3, <2>4, <2>5, <2>6, <2>7, <2>8 DEF OrgNext, Asks, Befalls
<1> QED BY <1>1, Types, ServiceStep, PTL DEF Serves, NeverOverInvited

---------------------------------------------------------------------------
(***************************************************************************)
(* The planes.  First answers with the error of the earliest check that    *)
(* fails, for the ten checks of project.                                   *)
(***************************************************************************)
LEMMA SmallestOfTen ==
  ASSUME NEW S, S \subseteq 1 .. 10, S # {}
  PROVE  Min(S) \in S
<1>1. SUFFICES \E x \in S : \A y \in S : x <= y
  BY DEF Min
<1>2. \A y \in S : y = 1 \/ y = 2 \/ y = 3 \/ y = 4 \/ y = 5 \/ y = 6 \/ y = 7 \/ y = 8 \/ y = 9 \/ y = 10
  OBVIOUS
<1>3. SUFFICES ASSUME \A x \in S : \E y \in S : y < x PROVE FALSE
  BY <1>2
<1>4. \A y \in S : y > 1
  BY <1>2, <1>3
<1>5. \A y \in S : y > 2
  BY <1>2, <1>3, <1>4
<1>6. \A y \in S : y > 3
  BY <1>2, <1>3, <1>5
<1>7. \A y \in S : y > 4
  BY <1>2, <1>3, <1>6
<1>8. \A y \in S : y > 5
  BY <1>2, <1>3, <1>7
<1>9. \A y \in S : y > 6
  BY <1>2, <1>3, <1>8
<1>10. \A y \in S : y > 7
  BY <1>2, <1>3, <1>9
<1>11. \A y \in S : y > 8
  BY <1>2, <1>3, <1>10
<1>12. \A y \in S : y > 9
  BY <1>2, <1>3, <1>11
<1>13. \A y \in S : y > 10
  BY <1>2, <1>3, <1>12
<1>14. PICK y \in S : TRUE
  OBVIOUS
<1>15. y \in 1 .. 10 /\ y > 10
  BY <1>13, <1>14
<1> QED BY <1>15

LEMMA FirstOfTen ==
  ASSUME NEW checks, DOMAIN checks = 1 .. 10
  PROVE  \/ First(checks) = "" /\ \A i \in 1 .. 10 : ~checks[i].fails
         \/ \E i \in 1 .. 10 : checks[i].fails /\ First(checks) = checks[i].error
<1> DEFINE Failed == {i \in DOMAIN checks : checks[i].fails}
<1>1. CASE Failed = {}
  BY <1>1 DEF First
<1>2. CASE Failed # {}
  <2>1. Min(Failed) \in Failed
    BY <1>2, SmallestOfTen
  <2>2. First(checks) = checks[Min(Failed)].error
    BY <1>2 DEF First
  <2> QED BY <2>1, <2>2
<1> QED BY <1>1, <1>2

(* What an accepted, an expired and a premature token have in common.      *)
LEMMA ProjectAnswers ==
  ASSUME NEW token, NEW wanted, NEW at
  PROVE  LET TooOld == \E e \in token.expires_at : Expired(e, at, wanted.leeway)
             TooYoung == \E b \in token.not_before : at + wanted.leeway < b
             verdict == project(token, wanted, at)
         IN  /\ verdict = "" => ~WrongRealm(token, wanted) /\ ~TooOld
             /\ verdict = "Expired" => TooOld
             /\ verdict = "NotYetValid" => TooYoung
<1> DEFINE TooOld == \E e \in token.expires_at : Expired(e, at, wanted.leeway)
           TooYoung == \E b \in token.not_before : at + wanted.leeway < b
           checks == 
            <<Check(~token.active, "Inactive"),
          Check(\/ normalize_issuer(wanted.issuer) = ""
                \/ normalize_issuer(token.issuer) # normalize_issuer(wanted.issuer), "Issuer"),
          Check(wanted.audience \notin token.audiences, "Audience"),
          Check(WrongRealm(token, wanted), "Realm"),
          Check(TooOld, "Expired"),
          Check(TooYoung, "NotYetValid"),
          Check(Assurance(token) < wanted.min_assurance_level, "InsufficientAssurance"),
          Check(token.subject = {}, "MissingSubject"),
          Check(~ \A s \in token.subject : valid_subject(s), "InvalidSubject"),
          Check(~(wanted.required_scopes \subseteq token.scopes), "MissingScope")>>
<1>1. project(token, wanted, at) = First(checks)
  BY DEF project
<1>2. DOMAIN checks = 1 .. 10
  OBVIOUS
<1>3. /\ checks[1].error = "Inactive" /\ checks[2].error = "Issuer" /\ checks[3].error = "Audience"
      /\ checks[4].error = "Realm" /\ checks[5].error = "Expired" /\ checks[6].error = "NotYetValid"
      /\ checks[7].error = "InsufficientAssurance" /\ checks[8].error = "MissingSubject"
      /\ checks[9].error = "InvalidSubject" /\ checks[10].error = "MissingScope"
  BY DEF Check
<1>4. /\ checks[4].fails <=> WrongRealm(token, wanted)
      /\ checks[5].fails <=> TooOld
      /\ checks[6].fails <=> TooYoung
  BY DEF Check
<1> HIDE DEF checks
<1>5. \A i \in 1 .. 10 : i = 1 \/ i = 2 \/ i = 3 \/ i = 4 \/ i = 5 \/ i = 6 \/ i = 7 \/ i = 8 \/ i = 9 \/ i = 10
  OBVIOUS
<1> HIDE DEF TooOld, TooYoung
<1>6. \A i \in 1 .. 10 : /\ checks[i].error # "" 
                         /\ checks[i].error = "Expired" => i = 5
                         /\ checks[i].error = "NotYetValid" => i = 6
  BY <1>3, <1>5
<1>7. \/ First(checks) = "" /\ \A i \in 1 .. 10 : ~checks[i].fails
      \/ \E i \in 1 .. 10 : checks[i].fails /\ First(checks) = checks[i].error
  BY <1>2, FirstOfTen
<1> 4 \in 1 .. 10 /\ 5 \in 1 .. 10 /\ 6 \in 1 .. 10
  OBVIOUS
<1>8. First(checks) = "" => ~checks[4].fails /\ ~checks[5].fails
  BY <1>6, <1>7, Zenon
<1>9. First(checks) = "Expired" => checks[5].fails
  BY <1>6, <1>7
<1>10. First(checks) = "NotYetValid" => checks[6].fails
  BY <1>6, <1>7
<1>11. /\ First(checks) = "" => ~WrongRealm(token, wanted) /\ ~TooOld
       /\ First(checks) = "Expired" => TooOld
       /\ First(checks) = "NotYetValid" => TooYoung
  BY <1>4, <1>8, <1>9, <1>10, Zenon
<1> QED BY <1>1, <1>11 DEF TooOld, TooYoung

(* "The single failure that would matter most" (authz.rs lines 189-190)    *)
(* does not happen, for any environments and any tokens: issuers that      *)
(* coincide do not matter as long as the realm is compared.                *)
THEOREM RealmsSeparate == Serves => []PlanesApart
<1>1. ASSUME NEW t \in Tokens, Entitled("product", t), Entitled("admin", t) PROVE FALSE
  <2>1. ~WrongRealm(t, Requirements("product"))
    BY <1>1, ProjectAnswers DEF Entitled
  <2>2. t.realm = "customer"
    BY <2>1 DEF WrongRealm, Requirements, realm
  <2>3. t.realm = "admin"
    BY <1>1 DEF Entitled, is_allowlisted
  <2> QED BY <2>2, <2>3
<1>2. PlanesApart
  BY <1>1 DEF PlanesApart
<1> QED BY <1>2, PTL

(* "Tolerated clock skew" (authz.rs line 100) works in both directions, at *)
(* any time and for any leeway.                                            *)
THEOREM SkewIsTolerated == Serves => []SkewTolerated
<1> DEFINE Clock == now \in Nat
<1>1. ServiceInit => Clock
  BY DEF ServiceInit
<1>2. ASSUME Clock, [ServiceNext]_serviceVars PROVE Clock'
  <2>1. CASE Tick
    BY <1>2, <2>1 DEF Tick
  <2>2. CASE ~Tick
    BY <1>2, <2>2 DEF ServiceNext, serviceVars, Edit, Boot, Act, Happen, Open, Follow
  <2> QED BY <2>1, <2>2
<1>3. ASSUME Clock PROVE SkewTolerated
  <2>1. SUFFICES ASSUME NEW t \in Tokens, NEW plane \in Planes, NEW skew \in -Leeway .. Leeway
                 PROVE  LET verdict == project(t, Requirements(plane), now + skew)
                            Timely == (\A e \in t.expires_at : now < e) /\ (\A b \in t.not_before : b <= now)
                        IN  /\ Timely => verdict \notin {"Expired", "NotYetValid"}
                            /\ (\E e \in t.expires_at : now >= e + 2 * Leeway) => verdict # ""
    BY DEF SkewTolerated
  <2> DEFINE verdict == project(t, Requirements(plane), now + skew)
             TooOld == \E e \in t.expires_at : Expired(e, now + skew, Leeway)
             TooYoung == \E b \in t.not_before : now + skew + Leeway < b
  <2>2. Requirements(plane).leeway = Leeway
    BY DEF Requirements
  <2>3. /\ verdict = "" => ~TooOld
        /\ verdict = "Expired" => TooOld
        /\ verdict = "NotYetValid" => TooYoung
    BY <2>2, ProjectAnswers
  <2>4. t.expires_at \subseteq Nat /\ t.not_before \subseteq Nat /\ Leeway \in Nat /\ skew \in Int
    BY ServiceAssumption
  <2>5. TooOld => \E e \in t.expires_at : now >= e
    BY <1>3, <2>1, <2>4 DEF Expired
  <2>6. TooYoung => \E b \in t.not_before : ~(b <= now)
    BY <1>3, <2>1, <2>4
  <2>7. (\E e \in t.expires_at : now >= e + 2 * Leeway) => TooOld
    BY <1>3, <2>1, <2>4 DEF Expired
  <2> HIDE DEF verdict, TooOld, TooYoung
  <2>8. \A e \in t.expires_at : now < e => ~(now >= e)
    BY <1>3, <2>4
  <2> QED BY <2>3, <2>5, <2>6, <2>7, <2>8 DEF verdict
<1> HIDE DEF Clock
<1> QED BY <1>1, <1>2, <1>3, PTL DEF Serves

(* A redirect leads to a page that is served (surface.rs lines 67-69),     *)
(* from whatever host it starts.                                           *)
LoginSurfaces == {"User", "Org", "Mobile"}

LEMMA LabelOfLogin ==
  ASSUME NEW surface \in LoginSurfaces
  PROVE  dispose(<<label(surface)>>, FALSE).kind = "Serve"
<1>1. \E name \in {"app", "user", "org", "m", "www"} : Labels[name] = surface
  BY DEF Labels, LoginSurfaces
<1>2. label(surface) \in {"app", "user", "org", "m", "www"} /\ Labels[label(surface)] = surface
  BY <1>1 DEF label
<1>3. label(surface) \in DOMAIN Labels
  BY <1>2 DEF Labels
<1> DEFINE host == <<label(surface)>>
<1>4. host # <<>> /\ Len(host) = 1 /\ host[1] = label(surface)
  OBVIOUS
<1> HIDE DEF host
<1>5. resolve(host) = surface
  BY <1>2, <1>3, <1>4 DEF resolve
<1> DEFINE answer == dispose(host, FALSE)
<1>6. answer = [kind |-> "Serve", surface |-> surface]
  BY <1>5 DEF dispose, is_admin, allows_anonymous_landing, LoginSurfaces
<1> HIDE DEF answer
<1>7. answer.kind = "Serve"
  BY <1>6
<1> QED BY <1>7 DEF answer, host

THEOREM RedirectsEnd == Serves => []RedirectsLand
<1> DEFINE Landing == /\ screen.answer.kind = "RedirectToLogin" => screen.answer.surface \in LoginSurfaces
                      /\ RedirectsLand
<1>1. ServiceInit => Landing
  BY DEF ServiceInit, Blank, NotFound, RedirectsLand
<1>2. ASSUME Landing, [ServiceNext]_serviceVars PROVE Landing'
  <2>1. ASSUME NEW host \in Hosts, Open(host) PROVE Landing'
    <3> DEFINE answer == dispose(host, FALSE)
    <3>1. screen' = [answer |-> answer, followed |-> 0]
      BY <2>1 DEF Open
    <3>2. answer.kind = "RedirectToLogin" => answer.surface \in LoginSurfaces
      BY DEF dispose, NotFound, login_surface, LoginSurfaces
    <3> HIDE DEF answer
    <3> QED BY <3>1, <3>2 DEF RedirectsLand
  <2>2. CASE Follow
    <3>1. dispose(<<label(screen.answer.surface)>>, FALSE).kind = "Serve"
      BY <1>2, <2>2, LabelOfLogin DEF Follow
    <3>2. screen'.answer.kind = "Serve"
      BY <2>2, <3>1 DEF Follow
    <3> QED BY <3>2 DEF RedirectsLand
  <2>3. CASE UNCHANGED screen
    BY <1>2, <2>3 DEF RedirectsLand
  <2> QED BY <1>2, <2>1, <2>2, <2>3
        DEF ServiceNext, serviceVars, Edit, Boot, Tick, Act, Happen
<1> QED BY <1>1, <1>2, PTL DEF Serves
===========================================================================
