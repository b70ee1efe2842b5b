---------------------------- MODULE Locks_proof ----------------------------
(***************************************************************************)
(* Proofs about the locks of src/src/locks.rs: CompositeLock for any       *)
(* callers, keys, owners and policy, then LockProvider for any threads,    *)
(* keys and owners.                                                        *)
(***************************************************************************)
EXTENDS CompositeLock, LockProvider, TLAPS

(* What a caller holds at each point of with_lock. *)
FullyHeld(c) == \A s \in Slots : Present(s) => Holds(c, s)

ProgressOf(c) ==
  /\ key[c] \in Keys <=> stage[c] # "idle"
  /\ stage[c] = "idle" => \A s \in Slots : ~Holds(c, s)
  /\ stage[c] = "acquire" /\ slot[c] = "outer" => Present("outer")
  /\ stage[c] = "acquire" /\ slot[c] = "inner" =>
       Present("inner") /\ (Present("outer") => Holds(c, "outer"))
  /\ stage[c] = "acquire" /\ slot[c] = "end" => FullyHeld(c)
  /\ stage[c] = "fence" =>
       slot[c] = "outer" /\ provider["outer"] = "fencing" /\ Holds(c, "outer")
  /\ stage[c] = "work" => FullyHeld(c)

Progress == \A c \in Callers : ProgressOf(c)

(* A lease of a durable provider is the entry in that provider's table. *)
Ownership ==
  \A s \in Slots, c \in Callers : Durable(s) /\ Holds(c, s) =>
    /\ table[s][key[c]] = OwnerOf[c]
    /\ current[s][key[c]] = lease[c][s].grant

UniqueGrants ==
  \A s \in Slots, c, d \in Callers :
    Holds(c, s) /\ lease[c][s].grant = lease[d][s].grant => c = d

(* Only the outer provider fences, and a token belongs to a lease. *)
OuterFences ==
  /\ provider["inner"] \notin Fencing
  /\ \A c \in Callers : lease[c]["inner"].fence = 0
  /\ \A c \in Callers : lease[c]["outer"].fence # 0 => Holds(c, "outer")
  /\ require_fencing => \A c \in Callers : stage[c] = "work" => lease[c]["outer"].fence # 0

IInv == TypeOK /\ Progress /\ Ownership /\ UniqueGrants /\ OuterFences

LEMMA InitIInv == Init => IInv
<1> SUFFICES ASSUME Init PROVE IInv
  OBVIOUS
<1> USE CompositeAssumption, RequestAssumption
<1> PICK enabled \in [Slots -> BOOLEAN], outer \in Kinds \cup {Absent}, inner \in Kinds \cup {Absent} :
      /\ outer # "advisory" /\ inner \notin Fencing
      /\ provider = New(enabled, [s \in Slots |-> IF s = "outer" THEN outer ELSE inner])
  BY DEF Init
<1>1. provider \in [Slots -> Kinds \cup {Absent}] /\ provider["inner"] \notin Fencing
  BY DEF New, Slots, Fencing, Absent
<1>2. \A c \in Callers, s \in Slots : lease[c][s].grant = 0 /\ lease[c][s].fence = 0
  BY DEF Init, NoLease
<1>3. TypeOK
  <2>1. lease \in [Callers -> [Slots -> LeaseType]] /\ seen \in [Keys -> LeaseType]
    BY DEF Init, NoLease, LeaseType
  <2>2. grants = 0 /\ fences \in [Slots -> Nat] /\ \A s \in Slots : fences[s] = 0
    BY DEF Init
  <2> QED BY <1>1, <1>2, <2>1, <2>2 DEF Init, TypeOK, Stages
<1>4. Progress /\ Ownership /\ UniqueGrants
  BY <1>2 DEF Init, Progress, ProgressOf, Ownership, UniqueGrants, Holds
<1>5. OuterFences
  BY <1>1, <1>2 DEF Init, OuterFences, Slots
<1> QED BY <1>3, <1>4, <1>5 DEF IInv

(* A step that leaves tables, leases and tokens alone and only moves the   *)
(* callers' stage, slot and key keeps everything but Progress for free.    *)
LEMMA MoveKeeps ==
  ASSUME IInv, NEW c \in Callers,
         UNCHANGED <<provider, require_fencing, table, current, grants, fences, lease, seen>>,
         stage' \in [Callers -> Stages], slot' \in [Callers -> Slots \cup {"end"}],
         key' \in [Callers -> Keys \cup {Free}],
         \A d \in Callers : d = c \/ key'[d] = key[d],
         (key'[c] = key[c]) \/ (\A s \in Slots : ~Holds(c, s)),
         \A d \in Callers : (d = c \/ stage'[d] = stage[d]),
         stage'[c] = "work" => (require_fencing => lease[c]["outer"].fence # 0)
  PROVE  TypeOK' /\ Ownership' /\ UniqueGrants' /\ OuterFences'
<1>1. TypeOK'
  BY DEF IInv, TypeOK
<1>2. Ownership'
  BY DEF IInv, Ownership, Holds, Durable, Present
<1>3. UniqueGrants'
  BY DEF IInv, UniqueGrants, Holds
<1>4. OuterFences'
  BY DEF IInv, OuterFences, Holds
<1> QED BY <1>1, <1>2, <1>3, <1>4

LEMMA CallIInv ==
  ASSUME IInv, NEW c \in Callers, NEW k \in Keys, Call(c, k)
  PROVE  IInv'
<1>1. /\ UNCHANGED <<provider, require_fencing, table, current, grants, fences, lease, seen>>
      /\ stage' = [stage EXCEPT ![c] = "acquire"]
      /\ slot' = [slot EXCEPT ![c] = FirstSlot]
      /\ key' = [key EXCEPT ![c] = k]
      /\ stage[c] = "idle"
  BY DEF Call
<1>2. FirstSlot \in Slots \cup {"end"}
  BY DEF FirstSlot, Slots
<1>3. stage' \in [Callers -> Stages] /\ slot' \in [Callers -> Slots \cup {"end"}]
      /\ key' \in [Callers -> Keys \cup {Free}]
  BY <1>1, <1>2 DEF IInv, TypeOK, Stages
<1>4. \A s \in Slots : ~Holds(c, s)
  BY <1>1 DEF IInv, Progress, ProgressOf
<1>5. stage'[c] = "acquire" /\ slot'[c] = FirstSlot /\ key'[c] = k
  BY <1>1 DEF IInv, TypeOK
<1>6. \A d \in Callers \ {c} : stage'[d] = stage[d] /\ slot'[d] = slot[d] /\ key'[d] = key[d]
  BY <1>1 DEF IInv, TypeOK
<1>7. TypeOK' /\ Ownership' /\ UniqueGrants' /\ OuterFences'
  BY <1>1, <1>3, <1>4, <1>5, <1>6, MoveKeeps
<1>8. Progress'
  <2>1. ASSUME NEW d \in Callers, d # c PROVE ProgressOf(d)'
    BY <1>1, <1>6, <2>1 DEF IInv, Progress, ProgressOf, FullyHeld, Holds, Present
  <2>2. ProgressOf(c)'
    BY <1>1, <1>4, <1>5 DEF ProgressOf, FullyHeld, Holds, Present, FirstSlot, Slots
  <2> QED BY <2>1, <2>2 DEF Progress
<1> QED BY <1>7, <1>8 DEF IInv

(* Refused, Begin, Finish and Panic move one caller to another stage. *)
LEMMA TurnIInv ==
  ASSUME IInv, NEW c \in Callers, Refused(c) \/ Begin(c) \/ Finish(c) \/ Panic(c)
  PROVE  IInv'
<1>1. /\ UNCHANGED <<provider, require_fencing, table, current, grants, fences,
                     slot, key, lease, seen>>
      /\ stage[c] \in {"acquire", "work"}
      /\ \/ stage' = [stage EXCEPT ![c] = "release"]
         \/ stage' = [stage EXCEPT ![c] = "unwound"]
         \/ /\ stage' = [stage EXCEPT ![c] = "work"]
            /\ stage[c] = "acquire" /\ slot[c] = "end" /\ FencingSatisfied(c)
  BY DEF Refused, Begin, Finish, Panic
<1>2. stage' \in [Callers -> Stages] /\ stage'[c] \in {"release", "unwound", "work"}
      /\ \A d \in Callers : d # c => stage'[d] = stage[d]
  BY <1>1 DEF IInv, TypeOK, Stages
<1>3. stage'[c] = "work" =>
        /\ stage[c] = "acquire" /\ slot[c] = "end"
        /\ require_fencing => lease[c]["outer"].fence # 0
  <2>1. stage'[c] = "work" => stage[c] = "acquire" /\ slot[c] = "end" /\ FencingSatisfied(c)
    BY <1>1 DEF IInv, TypeOK
  <2>2. FencingSatisfied(c) => (require_fencing => lease[c]["outer"].fence # 0)
    BY DEF FencingSatisfied, Fenced, IInv, OuterFences, Slots
  <2> QED BY <2>1, <2>2
<1>4. TypeOK' /\ Ownership' /\ UniqueGrants' /\ OuterFences'
  <2>1. slot' \in [Callers -> Slots \cup {"end"}] /\ key' \in [Callers -> Keys \cup {Free}]
    BY <1>1 DEF IInv, TypeOK
  <2> QED BY <1>1, <1>2, <1>3, <2>1, MoveKeeps
<1>5. Progress'
  <2>1. ASSUME NEW d \in Callers, d # c PROVE ProgressOf(d)'
    BY <1>1, <1>2, <2>1 DEF IInv, Progress, ProgressOf, FullyHeld, Holds, Present
  <2>2. ProgressOf(c)'
    <3>1. key[c] \in Keys /\ (stage'[c] = "work" => FullyHeld(c))
      BY <1>1, <1>3 DEF IInv, Progress, ProgressOf
    <3> QED BY <3>1, <1>1, <1>2 DEF ProgressOf, FullyHeld, Holds, Present
  <2> QED BY <2>1, <2>2 DEF Progress
<1> QED BY <1>4, <1>5 DEF IInv

LEMMA AcquireIInv ==
  ASSUME IInv, NEW c \in Callers, Acquire(c)
  PROVE  IInv'
<1> USE CompositeAssumption, RequestAssumption
<1> DEFINE s == slot[c]
           k == key[c]
           g == grants + 1
           isFiducia == provider[s] = "fiducia"
           fence == IF isFiducia THEN fences[s] + 1 ELSE 0
<1>1. /\ stage[c] = "acquire" /\ s # "end" /\ table[s][k] = Free
      /\ grants' = g
      /\ table' = [table EXCEPT ![s][k] = OwnerOf[c]]
      /\ current' = [current EXCEPT ![s][k] = g]
      /\ lease' = [lease EXCEPT ![c][s] = [grant |-> g, fence |-> fence]]
      /\ fences' = [fences EXCEPT ![s] = IF isFiducia THEN fences[s] + 1
                                                             ELSE fences[s]]
      /\ IF provider[s] = "fencing"
         THEN stage' = [stage EXCEPT ![c] = "fence"] /\ UNCHANGED slot
         ELSE slot' = [slot EXCEPT ![c] = SlotAfter(s)] /\ UNCHANGED stage
      /\ UNCHANGED <<provider, require_fencing, key, seen>>
  BY DEF Acquire, Available, Bumped
<1>2. /\ s \in Slots /\ k \in Keys /\ OwnerOf[c] \in Owners /\ OwnerOf[c] # Free
      /\ g \in Nat /\ fence \in Nat /\ fences[s] \in Nat /\ Present(s)
  <2>1. s \in Slots /\ k \in Keys /\ Present(s)
    BY <1>1 DEF IInv, TypeOK, Progress, ProgressOf, Slots
  <2>2. grants \in Nat /\ fences[s] \in Nat
    BY <2>1 DEF IInv, TypeOK
  <2> QED BY <2>1, <2>2
<1>3. /\ \A d \in Callers, t \in Slots : d # c \/ t # s => lease'[d][t] = lease[d][t]
      /\ lease'[c][s] = [grant |-> g, fence |-> fence]
      /\ lease' \in [Callers -> [Slots -> LeaseType]]
  BY <1>1, <1>2 DEF IInv, TypeOK, LeaseType
<1>4. TypeOK'
  <2>1. /\ table' \in [Slots -> [Keys -> Owners \cup {Free}]]
        /\ current' \in [Slots -> [Keys -> Nat]]
        /\ fences' \in [Slots -> Nat]
    BY <1>1, <1>2 DEF IInv, TypeOK
  <2>2. stage' \in [Callers -> Stages] /\ slot' \in [Callers -> Slots \cup {"end"}]
    BY <1>1, <1>2 DEF IInv, TypeOK, Stages, SlotAfter, Slots
  <2>3. ASSUME NEW d \in Callers, NEW t \in Slots
        PROVE  lease'[d][t].grant <= grants' /\ lease'[d][t].fence <= fences'[t]
    <3>1. CASE d = c /\ t = s
      BY <3>1, <1>1, <1>2, <1>3 DEF IInv, TypeOK
    <3>2. CASE d # c \/ t # s
      <4>1. lease[d][t].grant \in Nat /\ lease[d][t].fence \in Nat /\ fences[t] \in Nat
        BY DEF IInv, TypeOK, LeaseType
      <4>2. fences'[t] >= fences[t] /\ grants' > grants /\ grants \in Nat
        BY <1>1, <1>2, <4>1 DEF IInv, TypeOK
      <4>3. lease[d][t].grant <= grants /\ lease[d][t].fence <= fences[t]
        BY DEF IInv, TypeOK
      <4>4. fences'[t] \in Nat
        BY <2>1
      <4> QED BY <3>2, <1>3, <1>2, <1>1, <4>1, <4>2, <4>3, <4>4
    <3> QED BY <3>1, <3>2
  <2> QED BY <1>1, <1>2, <1>3, <2>1, <2>2, <2>3 DEF IInv, TypeOK
<1>5. Ownership'
  <2> SUFFICES ASSUME NEW t \in Slots, NEW d \in Callers, Durable(t)', Holds(d, t)'
               PROVE  /\ table'[t][key'[d]] = OwnerOf[d]
                      /\ current'[t][key'[d]] = lease'[d][t].grant
    BY DEF Ownership
  <2>1. CASE d = c /\ t = s
    BY <2>1, <1>1, <1>2, <1>3 DEF IInv, TypeOK
  <2>2. CASE d # c \/ t # s
    <3>1. /\ Durable(t) /\ Holds(d, t) /\ lease'[d][t] = lease[d][t]
      BY <2>2, <1>1, <1>3 DEF Durable, Present, Holds
    <3>2. table[t][key[d]] = OwnerOf[d] /\ current[t][key[d]] = lease[d][t].grant
      BY <3>1 DEF IInv, Ownership
    <3>3. stage[d] # "idle" /\ key[d] \in Keys
      BY <3>1 DEF IInv, Progress, ProgressOf
    <3>4. t # s \/ key[d] # k
      BY <3>2, <1>1
    <3>5. table'[t][key[d]] = table[t][key[d]] /\ current'[t][key[d]] = current[t][key[d]]
      BY <3>3, <3>4, <1>1, <1>2 DEF IInv, TypeOK
    <3> QED BY <3>1, <3>2, <3>5, <1>1
  <2> QED BY <2>1, <2>2
<1>6. UniqueGrants'
  <2> SUFFICES ASSUME NEW t \in Slots, NEW d \in Callers, NEW e \in Callers,
                      Holds(d, t)', lease'[d][t].grant = lease'[e][t].grant, d # e
               PROVE  FALSE
    BY DEF UniqueGrants
  <2>1. \A x \in Callers : lease[x][t].grant <= grants /\ lease[x][t].grant \in Nat
    BY DEF IInv, TypeOK, LeaseType
  <2>2. CASE t = s /\ (d = c \/ e = c)
    <3>1. grants \in Nat
      BY DEF IInv, TypeOK
    <3> QED BY <3>1, <2>1, <2>2, <1>3
  <2>3. CASE ~(t = s /\ (d = c \/ e = c))
    BY <2>3, <1>3 DEF IInv, UniqueGrants, Holds
  <2> QED BY <2>2, <2>3
<1>7. OuterFences'
  <2>1. provider'["inner"] \notin Fencing /\ "inner" \in Slots /\ "outer" \in Slots
    BY <1>1 DEF IInv, OuterFences, Slots
  <2>2. s = "inner" => fence = 0
    BY DEF IInv, OuterFences, Fencing
  <2>3. \A d \in Callers : lease'[d]["inner"].fence = 0
    BY <1>3, <2>1, <2>2 DEF IInv, OuterFences
  <2>4. \A d \in Callers : lease'[d]["outer"].fence # 0 => lease'[d]["outer"].grant # 0
    <3>1. g # 0
      BY DEF IInv, TypeOK
    <3> QED BY <1>3, <2>1, <3>1 DEF IInv, OuterFences, Holds
  <2>5. \A d \in Callers : stage'[d] = "work" => d # c /\ stage[d] = "work"
    BY <1>1, <1>2 DEF IInv, TypeOK
  <2>6. require_fencing' => \A d \in Callers : stage'[d] = "work" => lease'[d]["outer"].fence # 0
    BY <1>1, <1>3, <2>1, <2>5 DEF IInv, OuterFences
  <2> QED BY <2>1, <2>3, <2>4, <2>6 DEF OuterFences, Holds
<1>8. Progress'
  <2>1. ASSUME NEW d \in Callers, d # c PROVE ProgressOf(d)'
    <3>1. stage'[d] = stage[d] /\ slot'[d] = slot[d] /\ key'[d] = key[d]
      BY <1>1, <2>1 DEF IInv, TypeOK
    <3>2. \A t \in Slots : lease'[d][t] = lease[d][t]
      BY <1>3, <2>1
    <3> QED BY <1>1, <3>1, <3>2 DEF IInv, Progress, ProgressOf, FullyHeld, Holds, Present, Slots
  <2>2. ProgressOf(c)'
    <3>1. g # 0
      BY DEF IInv, TypeOK
    <3>2. lease'[c][s].grant # 0 /\ \A t \in Slots \ {s} : lease'[c][t] = lease[c][t]
      BY <1>3, <3>1, <1>2
    <3>3. ProgressOf(c)
      BY DEF IInv, Progress
    <3>4. CASE provider[s] = "fencing"
      <4>1. s = "outer" /\ stage'[c] = "fence" /\ slot'[c] = s
        BY <1>1, <1>2, <3>4 DEF IInv, OuterFences, Fencing, TypeOK, Slots
      <4> QED BY <4>1, <3>2, <3>4, <1>1, <1>2 DEF ProgressOf, FullyHeld, Holds, Present
    <3>5. CASE provider[s] # "fencing"
      <4>1. stage'[c] = "acquire" /\ slot'[c] = SlotAfter(s)
        BY <1>1, <1>2, <3>5 DEF IInv, TypeOK
      <4> QED BY <4>1, <3>2, <3>3, <1>1, <1>2
              DEF ProgressOf, FullyHeld, Holds, Present, Slots, SlotAfter
    <3> QED BY <3>4, <3>5
  <2> QED BY <2>1, <2>2 DEF Progress
<1> QED BY <1>4, <1>5, <1>6, <1>7, <1>8 DEF IInv

LEMMA FenceIInv ==
  ASSUME IInv, NEW c \in Callers, Fence(c)
  PROVE  IInv'
<1> DEFINE f == fences["outer"] + 1
<1>1. /\ slot[c] = "outer" /\ provider["outer"] = "fencing" /\ Holds(c, "outer")
      /\ stage[c] = "fence" /\ key[c] \in Keys /\ f \in Nat /\ "outer" \in Slots
  <2>1. stage[c] = "fence" /\ "outer" \in Slots
    BY DEF Fence, Slots
  <2>2. fences["outer"] \in Nat
    BY <2>1 DEF IInv, TypeOK
  <2> QED BY <2>1, <2>2 DEF IInv, Progress, ProgressOf
<1>2. /\ fences' = [fences EXCEPT !["outer"] = f]
      /\ lease' = [lease EXCEPT ![c]["outer"].fence = f]
      /\ stage' = [stage EXCEPT ![c] = "acquire"]
      /\ slot' = [slot EXCEPT ![c] = SlotAfter("outer")]
      /\ UNCHANGED <<provider, require_fencing, table, current, grants, key, seen>>
  BY <1>1 DEF Fence, Bumped
<1>3. /\ \A d \in Callers, t \in Slots : lease'[d][t].grant = lease[d][t].grant
      /\ \A d \in Callers, t \in Slots : d # c \/ t # "outer" => lease'[d][t] = lease[d][t]
      /\ lease'[c]["outer"].fence = f
      /\ lease' \in [Callers -> [Slots -> LeaseType]]
  <2> DEFINE old == lease[c]["outer"]
             r == [old EXCEPT !.fence = f]
  <2>1. lease \in [Callers -> [Slots -> LeaseType]] /\ old \in LeaseType
    BY <1>1 DEF IInv, TypeOK
  <2>2. r \in LeaseType /\ r.grant = old.grant /\ r.fence = f
    BY <2>1, <1>1 DEF LeaseType
  <2>3. lease' = [lease EXCEPT ![c]["outer"] = r]
    BY <1>2
  <2> HIDE DEF r, f
  <2>4. /\ lease'[c]["outer"] = r /\ lease' \in [Callers -> [Slots -> LeaseType]]
        /\ \A d \in Callers, t \in Slots : d # c \/ t # "outer" => lease'[d][t] = lease[d][t]
    BY <2>1, <2>2, <2>3, <1>1
  <2> QED BY <2>2, <2>4
<1>4. /\ stage'[c] = "acquire" /\ slot'[c] = SlotAfter("outer")
      /\ \A d \in Callers : d # c => stage'[d] = stage[d] /\ slot'[d] = slot[d]
  BY <1>2 DEF IInv, TypeOK
<1>5. TypeOK'
  <2>1. fences' \in [Slots -> Nat] /\ stage' \in [Callers -> Stages]
    BY <1>1, <1>2 DEF IInv, TypeOK, Stages
  <2>2. slot' \in [Callers -> Slots \cup {"end"}]
    BY <1>2 DEF IInv, TypeOK, SlotAfter, Slots
  <2>3. ASSUME NEW d \in Callers, NEW t \in Slots
        PROVE  lease'[d][t].grant <= grants' /\ lease'[d][t].fence <= fences'[t]
    <3>1. /\ lease[d][t].fence <= fences[t] /\ lease[d][t].grant <= grants
          /\ fences[t] \in Nat /\ lease[d][t].fence \in Nat
          /\ fences'[t] = IF t = "outer" THEN f ELSE fences[t]
      BY <1>1, <1>2 DEF IInv, TypeOK, LeaseType
    <3>2. CASE d = c /\ t = "outer"
      BY <3>1, <3>2, <1>1, <1>2, <1>3
    <3>3. CASE d # c \/ t # "outer"
      BY <3>1, <3>3, <1>2, <1>3
    <3> QED BY <3>2, <3>3
  <2> QED BY <1>2, <1>3, <2>1, <2>2, <2>3 DEF IInv, TypeOK
<1>6. Ownership' /\ UniqueGrants'
  BY <1>2, <1>3 DEF IInv, Ownership, UniqueGrants, Holds, Durable, Present
<1>7. OuterFences'
  <2>1. \A d \in Callers : lease'[d]["inner"].fence = 0
    BY <1>3 DEF IInv, OuterFences, Slots
  <2>2. \A d \in Callers : lease'[d]["outer"].fence # 0 => lease'[d]["outer"].grant # 0
    BY <1>1, <1>3 DEF IInv, OuterFences, Holds
  <2>3. require_fencing => \A d \in Callers : stage'[d] = "work" => lease'[d]["outer"].fence # 0
    BY <1>1, <1>3, <1>4 DEF IInv, OuterFences
  <2> QED BY <1>2, <2>1, <2>2, <2>3 DEF IInv, OuterFences, Holds
<1>8. Progress'
  <2>1. ASSUME NEW d \in Callers, d # c PROVE ProgressOf(d)'
    BY <1>2, <1>3, <1>4, <2>1 DEF IInv, Progress, ProgressOf, FullyHeld, Holds, Present, Slots
  <2>2. ProgressOf(c)'
    BY <1>1, <1>2, <1>3, <1>4 DEF ProgressOf, FullyHeld, Holds, Present, Slots, SlotAfter
  <2> QED BY <2>1, <2>2 DEF Progress
<1> QED BY <1>5, <1>6, <1>7, <1>8 DEF IInv

(* with_lock is over and its leases are gone. *)
LEMMA ReturnIInv ==
  ASSUME IInv, NEW c \in Callers, Return(c)
  PROVE  IInv'
<1> USE CompositeAssumption, RequestAssumption
<1>1. /\ stage' = [stage EXCEPT ![c] = "idle"]
      /\ key' = [key EXCEPT ![c] = Free]
      /\ lease' = [lease EXCEPT ![c] = [s \in Slots |-> NoLease]]
      /\ UNCHANGED <<provider, require_fencing, table, current, grants, fences, slot, seen>>
  BY DEF Return
<1>2. /\ \A d \in Callers : d # c =>
           stage'[d] = stage[d] /\ key'[d] = key[d] /\ lease'[d] = lease[d]
      /\ stage'[c] = "idle" /\ key'[c] = Free
      /\ \A s \in Slots : lease'[c][s].grant = 0 /\ lease'[c][s].fence = 0
  BY <1>1 DEF IInv, TypeOK, NoLease
<1>3. TypeOK'
  <2>1. lease' \in [Callers -> [Slots -> LeaseType]]
    BY <1>1 DEF IInv, TypeOK, NoLease, LeaseType
  <2>2. stage' \in [Callers -> Stages] /\ key' \in [Callers -> Keys \cup {Free}]
    BY <1>1 DEF IInv, TypeOK, Stages
  <2>3. ASSUME NEW d \in Callers, NEW s \in Slots
        PROVE  lease'[d][s].grant <= grants' /\ lease'[d][s].fence <= fences'[s]
    BY <1>1, <1>2 DEF IInv, TypeOK
  <2> QED BY <1>1, <2>1, <2>2, <2>3 DEF IInv, TypeOK
<1>4. Ownership' /\ UniqueGrants'
  <2>1. Ownership'
    BY <1>1, <1>2 DEF IInv, Ownership, Holds, Durable, Present
  <2>2. UniqueGrants'
    BY <1>1, <1>2 DEF IInv, UniqueGrants, Holds
  <2> QED BY <2>1, <2>2
<1>5. OuterFences'
  BY <1>1, <1>2 DEF IInv, OuterFences, Holds, Slots
<1>6. Progress'
  <2>1. ASSUME NEW d \in Callers, d # c PROVE ProgressOf(d)'
    BY <1>1, <1>2, <2>1 DEF IInv, Progress, ProgressOf, FullyHeld, Holds, Present
  <2>2. ProgressOf(c)'
    BY <1>1, <1>2 DEF ProgressOf, Holds
  <2> QED BY <2>1, <2>2 DEF Progress
<1> QED BY <1>3, <1>4, <1>5, <1>6 DEF IInv

LEMMA ReleaseOneIInv ==
  ASSUME IInv, NEW c \in Callers, ReleaseOne(c)
  PROVE  IInv'
<1> USE CompositeAssumption, RequestAssumption
<1> DEFINE s == LastHeld(c)
           k == key[c]
<1>1. /\ stage[c] = "release" /\ Holds(c, s) /\ s \in Slots /\ k \in Keys
      /\ lease' = [lease EXCEPT ![c][s] = NoLease]
      /\ \/ /\ table' = [table EXCEPT ![s][k] = Free]
            /\ current' = [current EXCEPT ![s][k] = 0]
         \/ UNCHANGED <<table, current>>
      /\ UNCHANGED <<provider, require_fencing, grants, fences, stage, slot, key, seen>>
  BY DEF ReleaseOne, LastHeld, Slots, IInv, Progress, ProgressOf
<1>2. /\ \A d \in Callers, t \in Slots : d # c \/ t # s => lease'[d][t] = lease[d][t]
      /\ lease'[c][s] = NoLease
      /\ lease' \in [Callers -> [Slots -> LeaseType]]
  BY <1>1 DEF IInv, TypeOK, LeaseType, NoLease
<1>3. TypeOK'
  <2>1. table' \in [Slots -> [Keys -> Owners \cup {Free}]] /\ current' \in [Slots -> [Keys -> Nat]]
    <3>1. CASE UNCHANGED <<table, current>>
      BY <3>1 DEF IInv, TypeOK
    <3>2. CASE /\ table' = [table EXCEPT ![s][k] = Free]
               /\ current' = [current EXCEPT ![s][k] = 0]
      BY <3>2, <1>1 DEF IInv, TypeOK
    <3> QED BY <3>1, <3>2, <1>1
  <2>2. ASSUME NEW d \in Callers, NEW t \in Slots
        PROVE  lease'[d][t].grant <= grants' /\ lease'[d][t].fence <= fences'[t]
    <3>1. grants \in Nat /\ fences[t] \in Nat
      BY DEF IInv, TypeOK
    <3>2. CASE d = c /\ t = s
      BY <3>1, <3>2, <1>1, <1>2 DEF NoLease
    <3>3. CASE d # c \/ t # s
      BY <3>3, <1>1, <1>2 DEF IInv, TypeOK
    <3> QED BY <3>2, <3>3
  <2> QED BY <1>1, <1>2, <2>1, <2>2 DEF IInv, TypeOK
<1>4. Ownership'
  <2> SUFFICES ASSUME NEW t \in Slots, NEW d \in Callers, Durable(t)', Holds(d, t)'
               PROVE  /\ table'[t][key'[d]] = OwnerOf[d]
                      /\ current'[t][key'[d]] = lease'[d][t].grant
    BY DEF Ownership
  <2>1. d # c \/ t # s
    BY <1>2 DEF Holds, NoLease
  <2>2. Durable(t) /\ Holds(d, t) /\ lease'[d][t] = lease[d][t] /\ key'[d] = key[d]
    BY <1>1, <1>2, <2>1 DEF Durable, Present, Holds
  <2>3. table[t][key[d]] = OwnerOf[d] /\ current[t][key[d]] = lease[d][t].grant
    BY <2>2 DEF IInv, Ownership
  <2>4. t # s \/ key[d] # k
    <3> SUFFICES ASSUME t = s, key[d] = k PROVE FALSE
      OBVIOUS
    <3>1. current[s][k] = lease[c][s].grant
      BY <1>1, <2>2 DEF IInv, Ownership
    <3> QED BY <3>1, <2>1, <2>2, <2>3 DEF IInv, UniqueGrants
  <2>5. key[d] \in Keys
    BY <2>2 DEF IInv, Progress, ProgressOf
  <2>6. table'[t][key[d]] = table[t][key[d]] /\ current'[t][key[d]] = current[t][key[d]]
    BY <2>4, <2>5, <1>1 DEF IInv, TypeOK
  <2> QED BY <2>2, <2>3, <2>6
<1>5. UniqueGrants'
  BY <1>1, <1>2 DEF IInv, UniqueGrants, Holds, NoLease
<1>6. OuterFences'
  <2>1. "inner" \in Slots /\ "outer" \in Slots
    BY DEF Slots
  <2> QED BY <1>1, <1>2, <2>1 DEF IInv, OuterFences, Holds, NoLease
<1>7. Progress'
  <2>1. ASSUME NEW d \in Callers, d # c PROVE ProgressOf(d)'
    BY <1>1, <1>2, <2>1 DEF IInv, Progress, ProgressOf, FullyHeld, Holds, Present, Slots
  <2>2. ProgressOf(c)'
    BY <1>1 DEF ProgressOf
  <2> QED BY <2>1, <2>2 DEF Progress
<1> QED BY <1>3, <1>4, <1>5, <1>6, <1>7 DEF IInv

LEMMA ExpireIInv ==
  ASSUME IInv, NEW s \in Slots, NEW k \in Keys, Expire(s, k)
  PROVE  IInv'
<1>1. /\ ~Durable(s)
      /\ table' = [table EXCEPT ![s][k] = Free]
      /\ current' = [current EXCEPT ![s][k] = 0]
      /\ UNCHANGED <<provider, require_fencing, grants, fences, stage, slot, key, lease, seen>>
  BY DEF Expire, Durable
<1>2. TypeOK'
  <2>1. table' \in [Slots -> [Keys -> Owners \cup {Free}]] /\ current' \in [Slots -> [Keys -> Nat]]
    BY <1>1 DEF IInv, TypeOK
  <2> QED BY <1>1, <2>1 DEF IInv, TypeOK
<1>3. Ownership'
  <2>1. \A t \in Slots : Durable(t)' => t # s /\ Durable(t) /\ table'[t] = table[t] /\ current'[t] = current[t]
    BY <1>1 DEF IInv, TypeOK, Durable, Present
  <2> QED BY <1>1, <2>1 DEF IInv, Ownership, Holds
<1>4. UniqueGrants' /\ OuterFences' /\ Progress'
  BY <1>1 DEF IInv, UniqueGrants, OuterFences, Progress, ProgressOf, FullyHeld, Holds, Present
<1> QED BY <1>2, <1>3, <1>4 DEF IInv

LEMMA WriteIInv ==
  ASSUME IInv, NEW c \in Callers, Write(c)
  PROVE  IInv'
<1>1. /\ seen' = [seen EXCEPT ![key[c]] = lease[c]["outer"]]
      /\ lease[c]["outer"] \in LeaseType
      /\ UNCHANGED <<provider, require_fencing, table, current, grants, fences,
                     stage, slot, key, lease>>
  BY DEF Write, IInv, TypeOK, Slots
<1>2. TypeOK'
  <2>1. seen' \in [Keys -> LeaseType]
    BY <1>1 DEF IInv, TypeOK
  <2> QED BY <1>1, <2>1 DEF IInv, TypeOK
<1> QED
  BY <1>1, <1>2 DEF IInv, Ownership, UniqueGrants, OuterFences, Progress, ProgressOf,
     FullyHeld, Holds, Durable, Present

LEMMA NextIInv == IInv /\ [Next]_vars => IInv'
<1> SUFFICES ASSUME IInv, [Next]_vars PROVE IInv'
  OBVIOUS
<1>1. CASE UNCHANGED vars
  BY <1>1 DEF vars, IInv, TypeOK, Ownership, UniqueGrants, OuterFences, Progress, ProgressOf,
     FullyHeld, Holds, Durable, Present
<1>2. CASE \E c \in Callers, k \in Keys : Call(c, k)
  BY <1>2, CallIInv
<1>3. CASE \E c \in Callers : Step(c)
  BY <1>3, AcquireIInv, FenceIInv, TurnIInv, ReleaseOneIInv, ReturnIInv DEF Step
<1>4. CASE \E c \in Callers : Finish(c) \/ Panic(c) \/ Write(c)
  BY <1>4, TurnIInv, ReturnIInv, WriteIInv
<1>5. CASE \E s \in Slots, k \in Keys : Expire(s, k)
  BY <1>5, ExpireIInv
<1> QED BY <1>1, <1>2, <1>3, <1>4, <1>5 DEF Next, Exhausted

(* The inductive invariant holds of every behaviour. *)
THEOREM CompositeInvariant == Spec => []IInv
  BY InitIInv, NextIInv, PTL DEF Spec

(* Types are respected, tokens and acquisitions stay within their counters. *)
THEOREM CompositeTypeCorrect == Spec => []TypeOK
<1>1. IInv => TypeOK
  BY DEF IInv
<1> QED BY <1>1, CompositeInvariant, PTL

(* Work never starts without every composed lock, nor unfenced when the    *)
(* policy requires a fence (locks.rs:236-256).                             *)
THEOREM WorkFullyLocked == Spec => []WorkIsFullyLocked
<1>1. IInv => WorkIsFullyLocked
  BY DEF IInv, WorkIsFullyLocked, Progress, ProgressOf, FullyHeld, OuterFences
<1> QED BY <1>1, CompositeInvariant, PTL

LEMMA Exclusion == IInv => MutualExclusion
<1> SUFFICES ASSUME IInv, NEW s \in Slots, Durable(s), NEW c \in Callers, NEW d \in Callers,
                    NEW k \in Keys, Working(c, k), Working(d, k)
             PROVE  c = d
  BY DEF MutualExclusion, Coordinated
<1>1. Holds(c, s) /\ Holds(d, s) /\ key[c] = k /\ key[d] = k
  BY DEF Working, IInv, Progress, ProgressOf, FullyHeld, Durable
<1>2. lease[c][s].grant = current[s][k] /\ lease[d][s].grant = current[s][k]
  BY <1>1 DEF IInv, Ownership
<1> QED BY <1>1, <1>2 DEF IInv, UniqueGrants

(* One provider that keeps its leases is enough for mutual exclusion,      *)
(* whatever the other does, for any number of callers (locks.rs:6-36).     *)
THEOREM CallersExclude == Spec => []MutualExclusion
  BY Exclusion, CompositeInvariant, PTL

---------------------------------------------------------------------------
(* Fencing: tokens of one key are ordered as the acquisitions they come    *)
(* from, and no pending token can end up older than one already used.      *)
Token(c) == lease[c]["outer"].fence # 0
Ordered(x, y) == x.fence >= y.fence => x.grant >= y.grant

SeenBound ==
  \A k \in Keys : seen[k].fence <= fences["outer"] /\ seen[k].grant <= grants

TokenOrder ==
  \A c \in Callers : Token(c) =>
    /\ Ordered(lease[c]["outer"], seen[key[c]])
    /\ \A d \in Callers : Token(d) /\ key[d] = key[c] =>
         Ordered(lease[c]["outer"], lease[d]["outer"])

PendingNewest ==
  \A c \in Callers : stage[c] = "fence" =>
    lease[c]["outer"].grant >= seen[key[c]].grant

TInv == SeenBound /\ TokenOrder /\ PendingNewest

LEMMA InitTInv == Init => TInv
  BY DEF Init, TInv, SeenBound, TokenOrder, PendingNewest, Token, NoLease, Slots

(* What a token is worth knowing about, from the invariant. *)
LEMMA TokenFacts ==
  ASSUME IInv, NEW c \in Callers
  PROVE  /\ "outer" \in Slots /\ fences["outer"] \in Nat /\ grants \in Nat
         /\ lease[c]["outer"].fence \in Nat /\ lease[c]["outer"].grant \in Nat
         /\ lease[c]["outer"].fence <= fences["outer"]
         /\ lease[c]["outer"].grant <= grants
         /\ Token(c) => Holds(c, "outer") /\ key[c] \in Keys
         /\ stage[c] = "fence" => Holds(c, "outer") /\ key[c] \in Keys
         /\ \A k \in Keys : seen[k].fence \in Nat /\ seen[k].grant \in Nat
  BY DEF IInv, TypeOK, LeaseType, Slots, OuterFences, Token, Progress, ProgressOf

(* A caller between insert and token is alone on its key. *)
LEMMA PendingAlone ==
  ASSUME IInv, NEW c \in Callers, NEW d \in Callers,
         stage[c] = "fence", Holds(d, "outer"), key[d] = key[c]
  PROVE  c = d
<1>1. Durable("outer") /\ Holds(c, "outer") /\ "outer" \in Slots
  BY CompositeAssumption, RequestAssumption DEF IInv, Progress, ProgressOf, Durable, Present, Absent, Slots
<1>2. lease[c]["outer"].grant = lease[d]["outer"].grant
  BY <1>1 DEF IInv, Ownership
<1> QED BY <1>1, <1>2 DEF IInv, UniqueGrants

LEMMA AcquireTInv ==
  ASSUME IInv, TInv, NEW c \in Callers, Acquire(c)
  PROVE  TInv'
<1> DEFINE s == slot[c]
           isFiducia == provider[s] = "fiducia"
           g == grants + 1
           r == [grant |-> g, fence |-> IF isFiducia THEN fences[s] + 1 ELSE 0]
<1>1. /\ stage[c] = "acquire" /\ s \in Slots /\ grants' = g /\ UNCHANGED <<key, seen>>
      /\ lease' = [lease EXCEPT ![c][s] = r]
      /\ fences' = [fences EXCEPT ![s] = IF isFiducia THEN fences[s] + 1
                                                             ELSE fences[s]]
      /\ \A d \in Callers : stage'[d] = "fence" => stage[d] = "fence" \/ (d = c /\ provider[s] = "fencing")
  BY DEF Acquire, Bumped, IInv, TypeOK, Slots
<1>2. /\ \A d \in Callers : d # c => lease'[d] = lease[d]
      /\ IF s = "outer" THEN lease'[c]["outer"] = r ELSE lease'[c]["outer"] = lease[c]["outer"]
  BY <1>1 DEF IInv, TypeOK, Slots
<1>3. /\ fences["outer"] \in Nat /\ grants \in Nat /\ g \in Nat /\ key[c] \in Keys
      /\ fences'["outer"] \in Nat /\ fences'["outer"] >= fences["outer"]
      /\ s = "outer" /\ isFiducia => fences'["outer"] = fences["outer"] + 1
  BY <1>1, TokenFacts DEF IInv, TypeOK, Slots, Progress, ProgressOf
<1>4. SeenBound'
  BY <1>1, <1>3, TokenFacts DEF TInv, SeenBound
<1>5. ASSUME NEW d \in Callers, lease'[d]["outer"].fence # 0, NEW x, x.fence \in Nat, x.grant \in Nat,
             x.fence <= fences["outer"], x.grant <= grants,
             Token(d) => Ordered(lease[d]["outer"], x)
      PROVE  Ordered(lease'[d]["outer"], x)
  <2>1. CASE d = c /\ s = "outer"
    BY <1>2, <1>3, <1>5, <2>1 DEF Ordered
  <2>2. CASE d # c \/ s # "outer"
    BY <1>2, <1>5, <2>2 DEF Token
  <2> QED BY <2>1, <2>2
<1>6. TokenOrder'
  <2> SUFFICES ASSUME NEW d \in Callers, lease'[d]["outer"].fence # 0
               PROVE  /\ Ordered(lease'[d]["outer"], seen[key[d]])
                      /\ \A e \in Callers : lease'[e]["outer"].fence # 0 /\ key[e] = key[d] =>
                           Ordered(lease'[d]["outer"], lease'[e]["outer"])
    BY <1>1 DEF TokenOrder, Token, Ordered
  <2>1. key[d] \in Keys
    BY <1>2, <1>3, TokenFacts DEF Token
  <2>2. Ordered(lease'[d]["outer"], seen[key[d]])
    BY <1>5, <2>1, TokenFacts DEF TInv, SeenBound, TokenOrder
  <2>3. ASSUME NEW e \in Callers, lease'[e]["outer"].fence # 0, key[e] = key[d]
        PROVE  Ordered(lease'[d]["outer"], lease'[e]["outer"])
    <3>1. CASE e = c /\ s = "outer" /\ d # c
      <4>1. /\ isFiducia /\ lease'[e]["outer"].fence = fences["outer"] + 1
            /\ lease'[d]["outer"] = lease[d]["outer"]
        BY <3>1, <2>3, <1>2
      <4> QED BY <4>1, TokenFacts DEF Ordered
    <3>2. CASE e = c /\ s = "outer" /\ d = c
      BY <3>2, <1>2, <1>3 DEF Ordered
    <3>3. CASE e # c \/ s # "outer"
      <4>1. lease'[e]["outer"] = lease[e]["outer"] /\ Token(e)
        BY <3>3, <1>2, <2>3 DEF Token
      <4>2. Token(d) => Ordered(lease[d]["outer"], lease[e]["outer"])
        BY <4>1, <2>3 DEF TInv, TokenOrder
      <4> QED BY <4>1, <4>2, <1>5, TokenFacts
    <3> QED BY <3>1, <3>2, <3>3
  <2> QED BY <2>2, <2>3
<1>7. PendingNewest'
  <2> SUFFICES ASSUME NEW d \in Callers, stage'[d] = "fence"
               PROVE  lease'[d]["outer"].grant >= seen[key[d]].grant
    BY <1>1 DEF PendingNewest
  <2>1. CASE d = c
    <3>1. s = "outer"
      BY <1>1, <2>1 DEF IInv, OuterFences, Fencing, Slots
    <3> QED BY <3>1, <2>1, <1>2, <1>3, TokenFacts DEF TInv, SeenBound
  <2>2. CASE d # c
    BY <2>2, <1>1, <1>2 DEF TInv, PendingNewest
  <2> QED BY <2>1, <2>2
<1> QED BY <1>4, <1>6, <1>7 DEF TInv

LEMMA FenceTInv ==
  ASSUME IInv, TInv, NEW c \in Callers, Fence(c)
  PROVE  TInv'
<1> DEFINE old == lease[c]["outer"]
           f == fences["outer"] + 1
           r == [old EXCEPT !.fence = f]
<1>1. stage[c] = "fence" /\ slot[c] = "outer" /\ "outer" \in Slots /\ key[c] \in Keys
  BY DEF Fence, IInv, Progress, ProgressOf, Slots
<1>2. /\ fences' = [fences EXCEPT !["outer"] = f]
      /\ lease' = [lease EXCEPT ![c]["outer"] = r]
      /\ stage' = [stage EXCEPT ![c] = "acquire"] /\ UNCHANGED <<grants, key, seen>>
  BY <1>1 DEF Fence, Bumped
<1>3. /\ lease'[c]["outer"] = r /\ r.fence = f /\ r.grant = old.grant
      /\ old.grant \in Nat /\ f \in Nat /\ fences'["outer"] = f
      /\ \A d \in Callers : d # c => lease'[d] = lease[d]
      /\ \A d \in Callers : stage'[d] = "fence" => stage[d] = "fence" /\ d # c
  <2>1. lease \in [Callers -> [Slots -> LeaseType]] /\ stage \in [Callers -> Stages]
        /\ fences \in [Slots -> Nat] /\ old \in LeaseType /\ f \in Nat
    BY <1>1 DEF IInv, TypeOK
  <2>2. r \in LeaseType /\ r.fence = f /\ r.grant = old.grant /\ old.grant \in Nat
    BY <2>1 DEF LeaseType
  <2> HIDE DEF r, f, old
  <2>3. lease'[c]["outer"] = r /\ \A d \in Callers : d # c => lease'[d] = lease[d]
    BY <2>1, <1>1, <1>2
  <2>4. \A d \in Callers : stage'[d] = "fence" => stage[d] = "fence" /\ d # c
    BY <2>1, <1>2
  <2> QED BY <2>1, <2>2, <2>3, <2>4, <1>1, <1>2
<1> HIDE DEF r, f
<1>4. fences["outer"] \in Nat /\ f = fences["outer"] + 1
  BY TokenFacts DEF f
<1>5. SeenBound'
  BY <1>2, <1>3, <1>4, TokenFacts DEF TInv, SeenBound
<1>6. \A d \in Callers : d # c /\ Token(d) => key[d] # key[c]
  BY <1>1, TokenFacts, PendingAlone
<1>7. TokenOrder'
  <2> SUFFICES ASSUME NEW d \in Callers, lease'[d]["outer"].fence # 0
               PROVE  /\ Ordered(lease'[d]["outer"], seen[key[d]])
                      /\ \A e \in Callers : lease'[e]["outer"].fence # 0 /\ key[e] = key[d] =>
                           Ordered(lease'[d]["outer"], lease'[e]["outer"])
    BY <1>2 DEF TokenOrder, Token, Ordered
  <2>1. CASE d = c
    <3>1. Ordered(r, seen[key[c]])
      BY <1>1, <1>3, TokenFacts DEF Ordered, TInv, PendingNewest
    <3>2. ASSUME NEW e \in Callers, lease'[e]["outer"].fence # 0, key[e] = key[c]
          PROVE  e = c
      BY <3>2, <1>3, <1>6 DEF Token
    <3>3. Ordered(r, r)
      BY <1>3 DEF Ordered
    <3> QED BY <2>1, <3>1, <3>2, <3>3, <1>3
  <2>2. CASE d # c
    <3>1. Token(d) /\ lease'[d] = lease[d] /\ key[d] # key[c]
      BY <2>2, <1>3, <1>6 DEF Token
    <3>2. ASSUME NEW e \in Callers, lease'[e]["outer"].fence # 0, key[e] = key[d]
          PROVE  e # c /\ Token(e) /\ lease'[e] = lease[e]
      BY <3>1, <3>2, <1>3 DEF Token
    <3> QED BY <3>1, <3>2 DEF TInv, TokenOrder
  <2> QED BY <2>1, <2>2
<1>8. PendingNewest'
  BY <1>2, <1>3 DEF TInv, PendingNewest
<1> QED BY <1>5, <1>7, <1>8 DEF TInv

LEMMA WriteTInv ==
  ASSUME IInv, TInv, NEW c \in Callers, Write(c)
  PROVE  TInv' /\ \A k \in Keys : seen'[k].grant >= seen[k].grant
<1>1. /\ stage[c] = "work" /\ Token(c) /\ AcceptsToken(c)
      /\ seen' = [seen EXCEPT ![key[c]] = lease[c]["outer"]]
      /\ UNCHANGED <<grants, fences, stage, key, lease>>
  BY DEF Write, Token
<1>2. key[c] \in Keys /\ Holds(c, "outer")
  BY <1>1, TokenFacts
<1>3. /\ seen'[key[c]] = lease[c]["outer"]
      /\ \A k \in Keys : k # key[c] => seen'[k] = seen[k]
  BY <1>1, <1>2 DEF IInv, TypeOK
<1>4. SeenBound'
  BY <1>1, <1>3, TokenFacts DEF TInv, SeenBound
<1>5. TokenOrder'
  <2> SUFFICES ASSUME NEW d \in Callers, Token(d)
               PROVE  /\ Ordered(lease[d]["outer"], seen'[key[d]])
                      /\ \A e \in Callers : Token(e) /\ key[e] = key[d] =>
                           Ordered(lease[d]["outer"], lease[e]["outer"])
    BY <1>1 DEF TokenOrder, Token, Ordered
  <2>1. key[d] \in Keys
    BY TokenFacts
  <2> QED BY <2>1, <1>1, <1>3 DEF TInv, TokenOrder
<1>6. PendingNewest'
  <2> SUFFICES ASSUME NEW d \in Callers, stage[d] = "fence"
               PROVE  lease[d]["outer"].grant >= seen'[key[d]].grant
    BY <1>1 DEF PendingNewest
  <2>1. key[d] # key[c]
    BY <1>1, <1>2, PendingAlone
  <2> QED BY <2>1, <1>3, TokenFacts DEF TInv, PendingNewest
<1>7. lease[c]["outer"].grant >= seen[key[c]].grant
  BY <1>1 DEF AcceptsToken, TInv, TokenOrder, Ordered
<1>8. \A k \in Keys : seen'[k].grant >= seen[k].grant
  BY <1>3, <1>7, TokenFacts
<1> QED BY <1>4, <1>5, <1>6, <1>8 DEF TInv

(* The remaining steps issue no token and write nothing. *)
LEMMA QuietTInv ==
  ASSUME IInv, TInv,
         UNCHANGED <<grants, fences, seen>>,
         \A d \in Callers : lease'[d]["outer"].fence # 0 =>
           lease'[d]["outer"] = lease[d]["outer"] /\ key'[d] = key[d],
         \A d \in Callers : stage'[d] = "fence" =>
           stage[d] = "fence" /\ lease'[d]["outer"] = lease[d]["outer"] /\ key'[d] = key[d]
  PROVE  TInv'
<1>1. SeenBound' /\ PendingNewest'
  BY DEF TInv, SeenBound, PendingNewest
<1>2. TokenOrder'
  BY DEF TInv, TokenOrder, Token, Ordered
<1> QED BY <1>1, <1>2 DEF TInv

LEMMA QuietSteps ==
  ASSUME IInv, TInv, NEW c \in Callers,
         \/ \E k \in Keys : Call(c, k)
         \/ Refused(c) \/ Begin(c) \/ Finish(c)
         \/ ReleaseOne(c) \/ Return(c) \/ Panic(c)
         \/ \E s \in Slots, k \in Keys : Expire(s, k)
  PROVE  TInv' /\ UNCHANGED seen
<1>1. CASE \E k \in Keys : Call(c, k)
  <2>1. /\ UNCHANGED <<grants, fences, seen, lease>>
        /\ \A d \in Callers : d # c => key'[d] = key[d] /\ stage'[d] = stage[d]
        /\ stage[c] = "idle" /\ stage'[c] = "acquire"
    BY <1>1 DEF Call, IInv, TypeOK
  <2>2. lease[c]["outer"].fence = 0
    BY <2>1 DEF IInv, Progress, ProgressOf, OuterFences, Slots
  <2> QED BY <2>1, <2>2, QuietTInv
<1>2. CASE Refused(c) \/ Begin(c) \/ Finish(c) \/ Panic(c)
  <2>1. /\ UNCHANGED <<grants, fences, seen, lease, key>>
        /\ \A d \in Callers : stage'[d] = "fence" => stage[d] = "fence"
    BY <1>2 DEF Refused, Begin, Finish, Panic, IInv, TypeOK
  <2> QED BY <2>1, QuietTInv
<1>3. CASE ReleaseOne(c)
  <2>1. /\ UNCHANGED <<grants, fences, seen, key, stage>> /\ stage[c] = "release"
        /\ \A d \in Callers : d # c => lease'[d] = lease[d]
        /\ lease'[c]["outer"] \in {lease[c]["outer"], NoLease}
    BY <1>3 DEF ReleaseOne, LastHeld, IInv, TypeOK, Slots
  <2> QED BY <2>1, QuietTInv DEF NoLease
<1>4. CASE Return(c)
  <2>1. /\ UNCHANGED <<grants, fences, seen>>
        /\ \A d \in Callers : d # c =>
             lease'[d] = lease[d] /\ key'[d] = key[d] /\ stage'[d] = stage[d]
        /\ lease'[c]["outer"].fence = 0 /\ stage'[c] = "idle"
    BY <1>4 DEF Return, IInv, TypeOK, Slots, NoLease
  <2> QED BY <2>1, QuietTInv
<1>5. CASE \E s \in Slots, k \in Keys : Expire(s, k)
  <2>1. UNCHANGED <<grants, fences, seen, lease, key, stage>>
    BY <1>5 DEF Expire
  <2> QED BY <2>1, QuietTInv
<1> QED BY <1>1, <1>2, <1>3, <1>4, <1>5

LEMMA NextTInv ==
  IInv /\ TInv /\ [Next]_vars =>
    TInv' /\ [\A k \in Keys : seen'[k].grant >= seen[k].grant]_vars
<1> SUFFICES ASSUME IInv, TInv, [Next]_vars
             PROVE  TInv' /\ [\A k \in Keys : seen'[k].grant >= seen[k].grant]_vars
  OBVIOUS
<1>1. \A k \in Keys : seen[k].grant >= seen[k].grant
  BY DEF IInv, TypeOK, LeaseType
<1>2. CASE UNCHANGED vars
  BY <1>2 DEF vars, TInv, SeenBound, TokenOrder, PendingNewest, Token, Ordered
<1>3. CASE \E c \in Callers : Write(c)
  BY <1>3, WriteTInv
<1>4. CASE \E c \in Callers : Acquire(c) \/ Fence(c)
  <2>1. UNCHANGED seen
    BY <1>4 DEF Acquire, Fence
  <2> QED BY <2>1, <1>1, <1>4, AcquireTInv, FenceTInv
<1>5. CASE \E c \in Callers : \/ \E k \in Keys : Call(c, k)
                             \/ Refused(c) \/ Begin(c) \/ Finish(c)
                             \/ ReleaseOne(c) \/ Return(c) \/ Panic(c)
  BY <1>5, <1>1, QuietSteps
<1>6. CASE \E s \in Slots, k \in Keys : Expire(s, k)
  <2>1. UNCHANGED <<grants, fences, seen, lease, key, stage>>
    BY <1>6 DEF Expire
  <2> QED BY <2>1, <1>1, QuietTInv
<1> QED BY <1>2, <1>3, <1>4, <1>5, <1>6 DEF Next, Step, Exhausted

(* The token check protects the resource from a holder whose lease ran     *)
(* out: writes are accepted in the order of the acquisitions               *)
(* (locks.rs:70-76), for both ways a provider issues tokens.               *)
THEOREM WritesFollowAcquisitions == Spec => NoStaleWrite
  BY InitIInv, NextIInv, InitTInv, NextTInv, PTL DEF Spec, NoStaleWrite

---------------------------------------------------------------------------
(* Refinement of Mutex. *)
LEMMA CoordinatedStays == [Next]_vars => (Coordinated' <=> Coordinated)
<1>1. [Next]_vars => UNCHANGED provider
  BY DEF Next, vars, Step, Call, Acquire, Fence, Refused, Begin, Finish, Panic, ReleaseOne,
     Return, Expire, Write, Exhausted
<1> QED BY <1>1 DEF Coordinated, Durable, Present

LEMMA MutexStep ==
  IInv /\ [Next]_vars => [Abstract!Next]_Inside
<1> SUFFICES ASSUME IInv, [Next]_vars
             PROVE  Abstract!Next \/ UNCHANGED Inside
  OBVIOUS
<1> USE CompositeAssumption, RequestAssumption
<1>1. IInv' /\ (Coordinated' <=> Coordinated)
  BY NextIInv, CoordinatedStays
<1>7. CASE ~Coordinated
  BY <1>1, <1>7 DEF Inside
<1> SUFFICES ASSUME Coordinated PROVE Abstract!Next \/ UNCHANGED Inside
  BY <1>7
<1>2. ASSUME NEW c \in Callers, stage' = [stage EXCEPT ![c] = "work"], stage[c] = "acquire",
             UNCHANGED key
      PROVE  Abstract!Enter(c, key[c]) /\ key[c] \in Keys
  <2>1. key[c] \in Keys /\ stage'[c] = "work" /\ \A d \in Callers : d # c => stage'[d] = stage[d]
    BY <1>2 DEF IInv, TypeOK, Progress, ProgressOf
  <2>2. \A d \in Callers : Inside[d] # key[c]
    <3> SUFFICES ASSUME NEW d \in Callers, Inside[d] = key[c] PROVE FALSE
      OBVIOUS
    <3>1. stage[d] = "work" /\ key[d] = key[c] /\ d # c
      BY <1>1, <1>2, <2>1 DEF Inside
    <3>2. Working(c, key[c])' /\ Working(d, key[c])'
      BY <1>2, <2>1, <3>1 DEF Working
    <3>3. MutualExclusion'
      BY <1>1, Exclusion, PTL
    <3> QED BY <3>1, <3>2, <3>3, <2>1, <1>1, <1>2 DEF MutualExclusion
  <2>3. Inside[c] = Free
    BY <1>1, <1>2 DEF Inside
  <2>4. Inside' = [Inside EXCEPT ![c] = key[c]]
    BY <1>1, <1>2, <2>1 DEF Inside
  <2> QED BY <2>1, <2>2, <2>3, <2>4 DEF Abstract!Enter
<1>3. ASSUME NEW c \in Callers, Finish(c) \/ Panic(c)
      PROVE  Abstract!Leave(c)
  <2>1. /\ stage[c] = "work" /\ stage'[c] # "work" /\ key[c] \in Keys
        /\ \A d \in Callers : d # c => stage'[d] = stage[d] /\ key'[d] = key[d]
    BY <1>3 DEF Finish, Panic, IInv, TypeOK, Progress, ProgressOf
  <2>2. Inside' = [Inside EXCEPT ![c] = Free]
    BY <1>1, <2>1 DEF Inside
  <2>3. Inside[c] # Free
    BY <1>1, <2>1 DEF Inside
  <2> QED BY <2>2, <2>3 DEF Abstract!Leave
<1>4. ASSUME NEW c \in Callers, Begin(c)
      PROVE  Abstract!Next \/ UNCHANGED Inside
  <2>1. CASE FencingSatisfied(c)
    BY <2>1, <1>2, <1>4 DEF Begin, Abstract!Next
  <2>2. CASE ~FencingSatisfied(c)
    <3>1. /\ UNCHANGED key /\ stage[c] = "acquire" /\ stage'[c] = "release"
          /\ \A d \in Callers : d # c => stage'[d] = stage[d]
      BY <1>4, <2>2 DEF Begin, IInv, TypeOK
    <3> QED BY <1>1, <3>1 DEF Inside
  <2> QED BY <2>1, <2>2
<1>5. ASSUME NEW c \in Callers,
             \/ \E k \in Keys : Call(c, k)
             \/ Acquire(c) \/ Fence(c) \/ Refused(c) \/ ReleaseOne(c) \/ Return(c) \/ Write(c)
      PROVE  UNCHANGED Inside
  <2>1. /\ stage[c] # "work" \/ (stage'[c] = stage[c] /\ key'[c] = key[c])
        /\ stage'[c] = "work" => stage[c] = "work"
        /\ \A d \in Callers : d # c => stage'[d] = stage[d] /\ key'[d] = key[d]
    BY <1>5 DEF Call, Acquire, Fence, Refused, ReleaseOne, Return, Write, IInv, TypeOK
  <2> QED BY <1>1, <2>1 DEF Inside
<1>6. ASSUME \/ \E s \in Slots, k \in Keys : Expire(s, k)
             \/ UNCHANGED vars
      PROVE  UNCHANGED Inside
  BY <1>1, <1>6 DEF Expire, vars, Inside
<1> QED BY <1>3, <1>4, <1>5, <1>6 DEF Next, Step, Exhausted, Abstract!Next

(* with_lock under a provider that keeps its leases is a mutex per key.    *)
THEOREM CompositeImplementsMutex == Spec => ImplementsMutex
<1>1. Init => Abstract!Init
  BY DEF Init, Inside, Abstract!Init
<1> QED
  BY <1>1, InitIInv, NextIInv, MutexStep, PTL
  DEF Spec, ImplementsMutex, Abstract!Spec

---------------------------------------------------------------------------
(* LockProvider.  That a lease is released once is what the code relies on *)
(* (release_all pops every lease before it releases it): a second release  *)
(* removes whatever entry the owner has on the key by then.                *)
USE RequestAssumption, ProviderAssumption

Pending(c) == inserted[c] # Nothing
PKey(c) == inserted[c][1]
PGrant(c) == inserted[c][2]

(* A half-finished acquisition owns its table entry, and it is the latest  *)
(* acquisition of its key.                                                 *)
PendingOwnsEntry ==
  \A c \in Callers : Pending(c) =>
    /\ PKey(c) \in Keys
    /\ PGrant(c) \in 1..inserts
    /\ PGrant(c) \notin released
    /\ held[PKey(c)] = OwnerOf[c]
    /\ entry[PKey(c)] = PGrant(c)
    /\ \A l \in leases : l.grant # PGrant(c)
    /\ \A l \in leases : l.key = PKey(c) => l.grant < PGrant(c)

(* Every acquisition has a number of its own. *)
GrantsAreUnique ==
  /\ \A c, d \in Callers : Pending(c) /\ Pending(d) /\ PGrant(c) = PGrant(d) => c = d
  /\ \A a, b \in leases : a.grant = b.grant => a = b

(* The history variable follows the table. *)
CurrentFollowsTable == \A k \in Keys : held[k] = Free <=> entry[k] = 0

ProviderInv ==
  /\ ProviderTypeOK
  /\ released \subseteq 1..inserts
  /\ \A k \in Keys : entry[k] <= inserts
  /\ CurrentFollowsTable
  /\ PendingOwnsEntry
  /\ GrantsAreUnique
  /\ UnreleasedLeaseStands
  /\ FencesFollowGrants

LEMMA ProviderStart == ProviderInit => ProviderInv
  BY DEF ProviderInit, ProviderInv, ProviderTypeOK, CurrentFollowsTable, PendingOwnsEntry,
     GrantsAreUnique, UnreleasedLeaseStands, FencesFollowGrants, Pending, Nothing

LEMMA InsertKeeps ==
  ASSUME ProviderInv, NEW c \in Callers, NEW k \in Keys, Insert(c, k)
  PROVE  ProviderInv'
<1> DEFINE g == inserts + 1
<1> OwnerOf[c] \in Owners /\ OwnerOf[c] # Free /\ g \in Nat /\ g > inserts
  BY DEF ProviderInv, ProviderTypeOK
<1>1. ProviderTypeOK'
  <2>1. inserted' \in [Callers -> (Keys \cup {Free}) \X Nat]
    BY DEF ProviderInv, ProviderTypeOK, Insert
  <2>2. held' \in [Keys -> Owners \cup {Free}]
    BY DEF ProviderInv, ProviderTypeOK, Insert
  <2>3. entry' \in [Keys -> Nat]
    BY DEF ProviderInv, ProviderTypeOK, Insert
  <2>4. \A l \in leases : l.grant \in 1..inserts'
    BY DEF ProviderInv, ProviderTypeOK, Insert
  <2> QED BY <2>1, <2>2, <2>3, <2>4 DEF ProviderInv, ProviderTypeOK, Insert
<1>2. (released \subseteq 1..inserts)' /\ (\A q \in Keys : entry[q] <= inserts)'
  BY DEF ProviderInv, ProviderTypeOK, Insert
<1>3. CurrentFollowsTable'
  <2> SUFFICES ASSUME NEW q \in Keys PROVE held'[q] = Free <=> entry'[q] = 0
    BY DEF CurrentFollowsTable
  <2>1. CASE q = k
    BY <2>1 DEF ProviderInv, ProviderTypeOK, Insert
  <2>2. CASE q # k
    BY <2>2 DEF ProviderInv, ProviderTypeOK, Insert, CurrentFollowsTable
  <2> QED BY <2>1, <2>2
<1>4. /\ inserted' = [inserted EXCEPT ![c] = <<k, g>>]
      /\ \A d \in Callers \ {c} : inserted'[d] = inserted[d]
      /\ inserted'[c] = <<k, g>> /\ ~Pending(c) /\ held[k] = Free
      /\ leases' = leases /\ released' = released
  BY DEF Insert, MayInsert, ProviderInv, ProviderTypeOK, Pending
<1>5. \A d \in Callers : Pending(d) => PKey(d) # k
  BY <1>4 DEF ProviderInv, PendingOwnsEntry
<1>6. PendingOwnsEntry'
  <2> SUFFICES ASSUME NEW d \in Callers, Pending(d)'
               PROVE  /\ PKey(d)' \in Keys
                      /\ PGrant(d)' \in 1..inserts'
                      /\ PGrant(d)' \notin released'
                      /\ held'[PKey(d)'] = OwnerOf[d]
                      /\ entry'[PKey(d)'] = PGrant(d)'
                      /\ \A l \in leases' : l.grant # PGrant(d)'
                      /\ \A l \in leases' : l.key = PKey(d)' => l.grant < PGrant(d)'
    BY DEF PendingOwnsEntry
  <2>1. CASE d = c
    BY <1>4, <2>1 DEF ProviderInv, ProviderTypeOK, Insert, PKey, PGrant, Lease
  <2>2. CASE d # c
    <3>1. Pending(d) /\ PKey(d)' = PKey(d) /\ PGrant(d)' = PGrant(d)
      BY <1>4, <2>2 DEF Pending, PKey, PGrant
    <3>2. QED
      BY <3>1, <1>4, <1>5 DEF ProviderInv, ProviderTypeOK, Insert, PendingOwnsEntry
  <2> QED BY <2>1, <2>2
<1>7. GrantsAreUnique'
  BY <1>4 DEF ProviderInv, ProviderTypeOK, Insert, GrantsAreUnique, PendingOwnsEntry, Pending, PKey, PGrant
<1>8. UnreleasedLeaseStands'
  BY <1>4 DEF ProviderInv, ProviderTypeOK, Insert, UnreleasedLeaseStands, StillHeldBy, Live, Lease
<1>9. FencesFollowGrants'
  BY <1>4 DEF ProviderInv, FencesFollowGrants
<1> QED BY <1>1, <1>2, <1>3, <1>6, <1>7, <1>8, <1>9 DEF ProviderInv

LEMMA TakeFenceKeeps ==
  ASSUME ProviderInv, NEW c \in Callers, TakeFence(c)
  PROVE  ProviderInv'
<1> DEFINE new == [key |-> PKey(c), owner |-> OwnerOf[c],
                   fence |-> next_fence + 1, grant |-> PGrant(c)]
<1>1. /\ Pending(c) /\ leases' = leases \cup {new}
      /\ next_fence' = next_fence + 1
      /\ inserted' = [inserted EXCEPT ![c] = Nothing]
      /\ UNCHANGED <<held, released, inserts, entry>>
  BY DEF TakeFence, Pending, PKey, PGrant, NewFence
<1>2. /\ PKey(c) \in Keys /\ PGrant(c) \in 1..inserts /\ new \in Lease
      /\ new.key = PKey(c) /\ new.grant = PGrant(c) /\ new.owner = OwnerOf[c]
      /\ new.fence = next_fence + 1
  BY <1>1 DEF ProviderInv, ProviderTypeOK, PendingOwnsEntry, Lease
<1>3. ~Pending(c)' /\ \A d \in Callers \ {c} : inserted'[d] = inserted[d]
  BY <1>1 DEF ProviderInv, ProviderTypeOK, Pending
<1>4. ProviderTypeOK'
  <2>1. leases' \subseteq Lease
    BY <1>1, <1>2 DEF ProviderInv, ProviderTypeOK
  <2>2. \A l \in leases' : l.fence \in 1..next_fence' /\ l.grant \in 1..inserts'
    BY <1>1, <1>2 DEF ProviderInv, ProviderTypeOK
  <2>3. inserted' \in [Callers -> (Keys \cup {Free}) \X Nat]
    BY <1>1 DEF ProviderInv, ProviderTypeOK, Nothing
  <2> QED BY <1>1, <2>1, <2>2, <2>3 DEF ProviderInv, ProviderTypeOK
<1>5. \A d \in Callers \ {c} : Pending(d) => PGrant(d) # PGrant(c) /\ PKey(d) # PKey(c)
  BY <1>1 DEF ProviderInv, PendingOwnsEntry, GrantsAreUnique
<1>6. PendingOwnsEntry'
  <2> SUFFICES ASSUME NEW d \in Callers, Pending(d)'
               PROVE  /\ PKey(d)' \in Keys
                      /\ PGrant(d)' \in 1..inserts'
                      /\ PGrant(d)' \notin released'
                      /\ held'[PKey(d)'] = OwnerOf[d]
                      /\ entry'[PKey(d)'] = PGrant(d)'
                      /\ \A l \in leases' : l.grant # PGrant(d)'
                      /\ \A l \in leases' : l.key = PKey(d)' => l.grant < PGrant(d)'
    BY DEF PendingOwnsEntry
  <2>1. d # c /\ Pending(d) /\ PKey(d)' = PKey(d) /\ PGrant(d)' = PGrant(d)
    BY <1>3 DEF Pending, PKey, PGrant
  <2> QED BY <2>1, <1>1, <1>2, <1>5 DEF ProviderInv, PendingOwnsEntry
<1>7. GrantsAreUnique'
  <2>1. \A a, b \in leases' : a.grant = b.grant => a = b
    BY <1>1, <1>2 DEF ProviderInv, GrantsAreUnique, PendingOwnsEntry
  <2>2. \A d, e \in Callers : Pending(d)' /\ Pending(e)' /\ PGrant(d)' = PGrant(e)' => d = e
    BY <1>3 DEF ProviderInv, GrantsAreUnique, Pending, PGrant
  <2> QED BY <2>1, <2>2 DEF GrantsAreUnique
<1>8. UnreleasedLeaseStands'
  BY <1>1, <1>2 DEF ProviderInv, UnreleasedLeaseStands, PendingOwnsEntry, StillHeldBy, Live
<1>9. FencesFollowGrants'
  <2> SUFFICES ASSUME NEW a \in leases', NEW b \in leases', a.key = b.key, a.grant < b.grant
               PROVE  a.fence < b.fence
    BY DEF FencesFollowGrants
  <2>1. CASE a \in leases /\ b \in leases
    BY <2>1 DEF ProviderInv, FencesFollowGrants
  <2>2. CASE a \in leases /\ b = new
    BY <2>2, <1>2 DEF ProviderInv, ProviderTypeOK
  <2>3. CASE a = new /\ b \in leases
    BY <2>3, <1>1, <1>2 DEF ProviderInv, ProviderTypeOK, PendingOwnsEntry
  <2>4. CASE a = new /\ b = new
    BY <2>4, <1>2
  <2> QED BY <2>1, <2>2, <2>3, <2>4, <1>1
<1>10. (released \subseteq 1..inserts)' /\ (\A q \in Keys : entry[q] <= inserts)' /\ CurrentFollowsTable'
  BY <1>1 DEF ProviderInv, CurrentFollowsTable
<1> QED BY <1>4, <1>6, <1>7, <1>8, <1>9, <1>10 DEF ProviderInv

LEMMA ReleaseKeeps ==
  ASSUME MayRetryRelease = FALSE, ProviderInv, NEW given \in leases, Release(given)
  PROVE  ProviderInv'
<1>1. /\ given.grant \notin released /\ StillHeldBy(given) /\ Live(given)
      /\ given \in Lease /\ given.key \in Keys /\ given.grant \in 1..inserts
  BY DEF Release, ProviderInv, UnreleasedLeaseStands, ProviderTypeOK, Lease
<1>2. /\ held' = [held EXCEPT ![given.key] = Free]
      /\ entry' = [entry EXCEPT ![given.key] = 0]
      /\ released' = released \cup {given.grant}
      /\ UNCHANGED <<next_fence, inserted, leases, inserts>>
  BY <1>1 DEF Release
<1>3. \A c \in Callers : Pending(c) => PKey(c) # given.key /\ PGrant(c) # given.grant
  BY <1>1 DEF ProviderInv, PendingOwnsEntry, Live
<1>10. released' \subseteq Nat /\ released' \subseteq 1..inserts'
  <2>1. released \subseteq 1..inserts /\ inserts \in Nat
    BY DEF ProviderInv, ProviderTypeOK
  <2>2. released' = released \cup {given.grant} /\ inserts' = inserts /\ given.grant \in 1..inserts
    BY <1>1, <1>2
  <2>3. \A g \in released' : g \in 1..inserts
    BY <2>1, <2>2
  <2>4. \A g \in 1..inserts : g \in Nat
    BY <2>1
  <2> QED BY <2>2, <2>3, <2>4
<1>4. ProviderTypeOK'
  <2>1. held' \in [Keys -> Owners \cup {Free}]
    BY <1>2 DEF ProviderInv, ProviderTypeOK
  <2>2. entry' \in [Keys -> Nat]
    BY <1>2 DEF ProviderInv, ProviderTypeOK
  <2>3. \A l \in leases' : l.fence \in 1..next_fence' /\ l.grant \in 1..inserts'
    BY <1>2 DEF ProviderInv, ProviderTypeOK
  <2> QED BY <1>2, <1>10, <2>1, <2>2, <2>3 DEF ProviderInv, ProviderTypeOK
<1>5. (released \subseteq 1..inserts)' /\ (\A q \in Keys : entry[q] <= inserts)' /\ CurrentFollowsTable'
  <2>1. \A q \in Keys : q # given.key => held'[q] = held[q] /\ entry'[q] = entry[q]
    BY <1>2 DEF ProviderInv, ProviderTypeOK
  <2>2. held'[given.key] = Free /\ entry'[given.key] = 0
    BY <1>1, <1>2 DEF ProviderInv, ProviderTypeOK
  <2>3. \A q \in Keys : entry'[q] <= inserts'
    BY <1>2, <2>1, <2>2 DEF ProviderInv, ProviderTypeOK
  <2>4. CurrentFollowsTable'
    BY <2>1, <2>2 DEF ProviderInv, CurrentFollowsTable
  <2> QED BY <1>10, <2>3, <2>4
<1>6. PendingOwnsEntry'
  BY <1>1, <1>2, <1>3 DEF ProviderInv, ProviderTypeOK, PendingOwnsEntry, Pending, PKey, PGrant
<1>7. GrantsAreUnique'
  BY <1>2 DEF ProviderInv, GrantsAreUnique, Pending, PGrant
<1>8. UnreleasedLeaseStands'
  <2> SUFFICES ASSUME NEW l \in leases, l.grant \notin released'
               PROVE  StillHeldBy(l)' /\ Live(l)'
    BY <1>2 DEF UnreleasedLeaseStands
  <2>1. l.grant # given.grant /\ StillHeldBy(l) /\ Live(l) /\ l.key \in Keys
    BY <1>2 DEF ProviderInv, UnreleasedLeaseStands, ProviderTypeOK, Lease
  <2>2. l.key # given.key
    BY <2>1, <1>1 DEF Live
  <2> QED BY <2>1, <2>2, <1>2 DEF StillHeldBy, Live, ProviderInv, ProviderTypeOK
<1>9. FencesFollowGrants'
  BY <1>2 DEF ProviderInv, FencesFollowGrants
<1> QED BY <1>4, <1>5, <1>6, <1>7, <1>8, <1>9 DEF ProviderInv

LEMMA ProviderStep ==
  ASSUME MayRetryRelease = FALSE
  PROVE  ProviderInv /\ [ProviderNext]_locking => ProviderInv'
<1> SUFFICES ASSUME ProviderInv, [ProviderNext]_locking PROVE ProviderInv'
  OBVIOUS
<1>1. CASE \E c \in Callers, k \in Keys : Insert(c, k)
  BY <1>1, InsertKeeps
<1>2. CASE \E c \in Callers : TakeFence(c)
  BY <1>2, TakeFenceKeeps
<1>3. CASE \E given \in leases : Release(given)
  BY <1>3, ReleaseKeeps
<1>4. CASE UNCHANGED locking
  BY <1>4 DEF locking, ProviderInv, ProviderTypeOK, CurrentFollowsTable, PendingOwnsEntry, GrantsAreUnique,
     UnreleasedLeaseStands, FencesFollowGrants, Pending, PKey, PGrant, StillHeldBy, Live
<1> QED BY <1>1, <1>2, <1>3, <1>4 DEF ProviderNext, GrantsExhausted

(* The inductive invariant holds of every behaviour. *)
THEOREM ProviderInvariant ==
  ASSUME MayRetryRelease = FALSE
  PROVE  ProviderSpec => []ProviderInv
  BY ProviderStart, ProviderStep, PTL DEF ProviderSpec

(* Types are respected: tokens and inserts stay within their counters.      *)
THEOREM ProviderTypeCorrect ==
  ASSUME MayRetryRelease = FALSE
  PROVE  ProviderSpec => []ProviderTypeOK
<1>1. ProviderInv => ProviderTypeOK
  BY DEF ProviderInv
<1> QED BY <1>1, ProviderInvariant, PTL

(* Tokens of one key follow the order in which the key was won, for any    *)
(* number of threads (locks.rs:368-377).                                   *)
THEOREM TokensFollowGrants ==
  ASSUME MayRetryRelease = FALSE
  PROVE  ProviderSpec => []FencesFollowGrants
<1>1. ProviderInv => FencesFollowGrants
  BY DEF ProviderInv
<1> QED BY <1>1, ProviderInvariant, PTL

(* Nobody but its holder ends a lease (locks.rs:328-342).                  *)
THEOREM LeaseStands ==
  ASSUME MayRetryRelease = FALSE
  PROVE  ProviderSpec => []UnreleasedLeaseStands
<1>1. ProviderInv => UnreleasedLeaseStands
  BY DEF ProviderInv
<1> QED BY <1>1, ProviderInvariant, PTL

---------------------------------------------------------------------------
(* Refinement of FencedLock. *)
LEMMA ProviderInitRefines == ProviderInit => AbstractLock!Init
  BY DEF ProviderInit, AbstractLock!Init, LiveLeases

LEMMA InsertRefines ==
  ASSUME ProviderInv, NEW c \in Callers, NEW k \in Keys, Insert(c, k)
  PROVE  UNCHANGED <<LiveLeases, next_fence>>
<1>1. /\ entry[k] = 0 /\ entry' = [entry EXCEPT ![k] = inserts + 1]
      /\ leases' = leases /\ next_fence' = next_fence
  BY DEF Insert, MayInsert, ProviderInv, CurrentFollowsTable
<1>2. ASSUME NEW l \in leases PROVE Live(l)' <=> Live(l)
  <2>1. l.grant \in 1..inserts /\ l.key \in Keys
    BY DEF ProviderInv, ProviderTypeOK, Lease
  <2>2. inserts \in Nat /\ entry \in [Keys -> Nat]
    BY DEF ProviderInv, ProviderTypeOK
  <2>3. CASE l.key = k
    BY <2>1, <2>2, <2>3, <1>1 DEF Live
  <2>4. CASE l.key # k
    BY <2>1, <2>2, <2>4, <1>1 DEF Live
  <2> QED BY <2>3, <2>4
<1>3. {l \in leases : Live(l)}' = {l \in leases : Live(l)}
  BY <1>1, <1>2
<1> QED BY <1>1, <1>3 DEF LiveLeases

LEMMA TakeFenceRefines ==
  ASSUME ProviderInv, NEW c \in Callers, TakeFence(c)
  PROVE  \E k \in Keys : AbstractLock!Grant(k)
<1> DEFINE k == PKey(c)
           new == [key |-> k, owner |-> OwnerOf[c],
                   fence |-> next_fence + 1, grant |-> PGrant(c)]
<1>1. /\ Pending(c) /\ leases' = leases \cup {new}
      /\ next_fence' = next_fence + 1 /\ entry' = entry
  BY DEF TakeFence, Pending, PKey, PGrant, NewFence
<1>2. /\ k \in Keys /\ entry[k] = PGrant(c)
      /\ \A l \in leases : l.grant # PGrant(c)
  BY <1>1 DEF ProviderInv, PendingOwnsEntry
<1>3. \A l \in leases : l.key = k => ~Live(l)
  BY <1>2 DEF Live
<1>4. \A pair \in LiveLeases : pair[1] # k
  BY <1>3 DEF LiveLeases
<1>5. {l \in leases : Live(l)}' = {l \in leases : Live(l)} \cup {new}
  BY <1>1, <1>2 DEF Live
<1>6. LiveLeases' = LiveLeases \cup {<<k, next_fence + 1>>}
  <2> DEFINE now == {l \in leases : Live(l)}
  <2>1. new.key = k /\ new.fence = next_fence + 1
    OBVIOUS
  <2>2. LiveLeases = {<<l.key, l.fence>> : l \in now}
    BY DEF LiveLeases
  <2>3. LiveLeases' = {<<l.key, l.fence>> : l \in now'}
    BY DEF LiveLeases
  <2>4. now' = now \cup {new}
    BY <1>5
  <2> HIDE DEF now, new
  <2> QED BY <2>1, <2>2, <2>3, <2>4
<1> QED BY <1>1, <1>2, <1>4, <1>6 DEF AbstractLock!Grant

LEMMA ReleaseRefines ==
  ASSUME MayRetryRelease = FALSE, ProviderInv, NEW given \in leases, Release(given)
  PROVE  \E pair \in LiveLeases : AbstractLock!Release(pair)
<1> DEFINE pair == <<given.key, given.fence>>
<1>1. given.grant \notin released /\ StillHeldBy(given) /\ Live(given)
  BY DEF Release, ProviderInv, UnreleasedLeaseStands
<1>2. /\ entry' = [entry EXCEPT ![given.key] = 0]
      /\ leases' = leases /\ next_fence' = next_fence
  BY <1>1 DEF Release
<1>3. ASSUME NEW l \in leases PROVE Live(l)' <=> Live(l) /\ l.key # given.key
  <2>1. /\ l.grant \in 1..inserts /\ l.key \in Keys /\ given.key \in Keys
        /\ inserts \in Nat /\ entry \in [Keys -> Nat]
    BY DEF ProviderInv, ProviderTypeOK, Lease
  <2>2. CASE l.key = given.key
    BY <2>1, <2>2, <1>2 DEF Live
  <2>3. CASE l.key # given.key
    BY <2>1, <2>3, <1>2 DEF Live
  <2> QED BY <2>2, <2>3
<1>4. \A l \in leases : Live(l) /\ l.key = given.key => l = given
  BY <1>1 DEF Live, ProviderInv, GrantsAreUnique
<1>5. \A l \in leases : Live(l)' <=> Live(l) /\ <<l.key, l.fence>> # pair
  BY <1>3, <1>4
<1>6. LiveLeases' = LiveLeases \ {pair}
  BY <1>2, <1>5 DEF LiveLeases
<1>7. pair \in LiveLeases
  BY <1>1 DEF LiveLeases
<1> QED BY <1>2, <1>6, <1>7 DEF AbstractLock!Release

(* The two-step acquisition implements the atomic fencing lock: at most    *)
(* one live lease per key, every token larger than all before it.          *)
THEOREM ProviderImplementsFencedLock ==
  ASSUME MayRetryRelease = FALSE
  PROVE  ProviderSpec => ImplementsFencedLock
<1>1. ProviderInv /\ [ProviderNext]_locking => [AbstractLock!Next]_<<LiveLeases, next_fence>>
  <2> SUFFICES ASSUME ProviderInv, [ProviderNext]_locking
               PROVE  AbstractLock!Next \/ UNCHANGED <<LiveLeases, next_fence>>
    OBVIOUS
  <2>1. CASE \E c \in Callers, k \in Keys : Insert(c, k)
    BY <2>1, InsertRefines
  <2>2. CASE \E c \in Callers : TakeFence(c)
    BY <2>2, TakeFenceRefines DEF AbstractLock!Next
  <2>3. CASE \E given \in leases : Release(given)
    BY <2>3, ReleaseRefines DEF AbstractLock!Next
  <2>4. CASE UNCHANGED locking
    BY <2>4 DEF locking, LiveLeases, Live
  <2> QED BY <2>1, <2>2, <2>3, <2>4 DEF ProviderNext, GrantsExhausted
<1> QED
  BY <1>1, ProviderInitRefines, ProviderInvariant, PTL
  DEF ImplementsFencedLock, AbstractLock!Spec, AbstractLock!flVars, ProviderSpec
=============================================================================
