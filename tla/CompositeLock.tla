--------------------------- MODULE CompositeLock ---------------------------
(***************************************************************************)
(* CompositeLockProvider of src/src/locks.rs:190-266: callers run work     *)
(* under an outer and an inner provider, taken in that order and released  *)
(* in reverse.  The providers behind the two slots are                     *)
(*   "memory", "fencing"  the crate's own (lines 268-389), and             *)
(*   "fiducia", "advisory"  external: modelled from the trait's contract   *)
(*   and the header, lines 6-36: fiducia fences and its leases run out,    *)
(*   a PostgreSQL advisory lock ends with its transaction.                 *)
(* The resource that checks tokens (lines 70-76) is external too.          *)
(***************************************************************************)
EXTENDS LockRequest

CONSTANTS
  Kinds,          \* provider kinds the deployment supplies
  MayRequireFencing, \* values of the require_fencing switch
  Expiring        \* the kinds whose leases may end before they are released

Absent == "absent"
InCrate == {"memory", "fencing"}
Fencing == {"fencing", "fiducia"}
Slots == {"outer", "inner"}
Stages == {"idle", "acquire", "fence", "work", "release", "unwound"}

ASSUME CompositeAssumption ==
  /\ Kinds \subseteq InCrate \cup {"fiducia", "advisory"}
  /\ MayRequireFencing \subseteq BOOLEAN
  /\ Expiring \subseteq {"fiducia", "advisory"}

VARIABLES
  provider,        \* the composite: what `new` left in each slot
  require_fencing, \* LockPolicy.require_fencing
  table,           \* per slot: the provider's key -> owner table
  current,         \* history: the acquisition each table entry came from
  grants,          \* history: acquisitions so far
  fences,      \* per slot: the fence counter
  stage, slot,     \* where each caller is inside with_lock
  key,             \* LockRequest.key
  lease,           \* `held`: per caller and slot, [grant, fence]; grant 0 = none
  seen             \* the guarded resource: highest token accepted per key, and
                   \* (history) the acquisition it came from

vars == <<provider, require_fencing, table, current, grants, fences,
          stage, slot, key, lease, seen>>

NoLease == [grant |-> 0, fence |-> 0]
LeaseType == [grant : Nat, fence : Nat]

TypeOK ==
  /\ provider \in [Slots -> Kinds \cup {Absent}]
  /\ require_fencing \in BOOLEAN
  /\ table \in [Slots -> [Keys -> Owners \cup {Free}]]
  /\ current \in [Slots -> [Keys -> Nat]]
  /\ grants \in Nat
  /\ fences \in [Slots -> Nat]
  /\ stage \in [Callers -> Stages]
  /\ slot \in [Callers -> Slots \cup {"end"}]
  /\ key \in [Callers -> Keys \cup {Free}]
  /\ lease \in [Callers -> [Slots -> LeaseType]]
  /\ seen \in [Keys -> LeaseType]
  /\ \A c \in Callers, s \in Slots :
       lease[c][s].grant <= grants /\ lease[c][s].fence <= fences[s]

(***************************************************************************)
(* CompositeLockProvider::new keeps a supplied provider only when the      *)
(* policy enables its slot; enabling a slot nothing was supplied for       *)
(* leaves it absent, without an error.                                     *)
(***************************************************************************)
New(enabled, supplied) ==
  [s \in Slots |-> IF enabled[s] THEN supplied[s] ELSE Absent]

Init ==
  /\ \E enabled \in [Slots -> BOOLEAN], outer, inner \in Kinds \cup {Absent} :
       /\ outer # "advisory" /\ inner \notin Fencing   \* the documented order
       /\ provider = New(enabled, [s \in Slots |-> IF s = "outer" THEN outer ELSE inner])
  /\ require_fencing \in MayRequireFencing
  /\ table = [s \in Slots |-> [k \in Keys |-> Free]]
  /\ current = [s \in Slots |-> [k \in Keys |-> 0]]
  /\ grants = 0
  /\ fences = [s \in Slots |-> 0]
  /\ stage = [c \in Callers |-> "idle"]
  /\ slot = [c \in Callers |-> "end"]
  /\ key = [c \in Callers |-> Free]
  /\ lease = [c \in Callers |-> [s \in Slots |-> NoLease]]
  /\ seen = [k \in Keys |-> NoLease]

Present(s) == provider[s] # Absent
Holds(c, s) == lease[c][s].grant # 0

(* The order of the array at locks.rs:237-239, and its reverse.            *)
FirstSlot ==
  IF Present("outer") THEN "outer" ELSE IF Present("inner") THEN "inner" ELSE "end"
SlotAfter(s) == IF s = "outer" /\ Present("inner") THEN "inner" ELSE "end"
LastHeld(c) == IF Holds(c, "inner") THEN "inner" ELSE "outer"

---------------------------------------------------------------------------
(* with_lock(request, work) begins. *)
Call(c, k) ==
  /\ stage[c] = "idle"
  /\ grants < MaxGrants
  /\ stage' = [stage EXCEPT ![c] = "acquire"]
  /\ slot' = [slot EXCEPT ![c] = FirstSlot]
  /\ key' = [key EXCEPT ![c] = k]
  /\ UNCHANGED <<provider, require_fencing, table, current, grants, fences, lease, seen>>

Bumped(s) == fences[s] + 1

AlwaysAvailable(s, k) == TRUE     \* mutant: contains_key is not asked
Available(s, k) == table[s][k] = Free

(* provider.acquire succeeds.  The crate's fencing provider inserts first  *)
(* and takes its token in a second critical section (Fence).               *)
Acquire(c) ==
  LET s == slot[c]
      k == key[c]
      fence == IF provider[s] = "fiducia" THEN fences[s] + 1 ELSE 0
  IN /\ stage[c] = "acquire" /\ s # "end"
     /\ Available(s, k)
     /\ grants' = grants + 1
     /\ table' = [table EXCEPT ![s][k] = OwnerOf[c]]
     /\ current' = [current EXCEPT ![s][k] = grants + 1]
     /\ lease' = [lease EXCEPT ![c][s] = [grant |-> grants + 1, fence |-> fence]]
     /\ fences' = [fences EXCEPT ![s] = IF provider[s] = "fiducia" THEN Bumped(s) ELSE @]
     /\ IF provider[s] = "fencing"
        THEN stage' = [stage EXCEPT ![c] = "fence"] /\ UNCHANGED slot
        ELSE slot' = [slot EXCEPT ![c] = SlotAfter(s)] /\ UNCHANGED stage
     /\ UNCHANGED <<provider, require_fencing, key, seen>>

Fence(c) ==
  LET s == slot[c]
  IN /\ stage[c] = "fence"
     /\ fences' = [fences EXCEPT ![s] = Bumped(s)]
     /\ lease' = [lease EXCEPT ![c][s].fence = fences[s] + 1]
     /\ stage' = [stage EXCEPT ![c] = "acquire"]
     /\ slot' = [slot EXCEPT ![c] = SlotAfter(s)]
     /\ UNCHANGED <<provider, require_fencing, table, current, grants, key, seen>>

(* provider.acquire fails: the key is contended, or an external provider   *)
(* cannot be reached.  Either way release_all, then Err.                   *)
Refused(c) ==
  LET s == slot[c]
  IN /\ stage[c] = "acquire" /\ s # "end"
     /\ ~Available(s, key[c]) \/ provider[s] \notin InCrate
     /\ stage' = [stage EXCEPT ![c] = "release"]
     /\ UNCHANGED <<provider, require_fencing, table, current, grants, fences,
                    slot, key, lease, seen>>

Fenced(c) == \E s \in Slots : lease[c][s].fence # 0

FencingSatisfied(c) == require_fencing => Fenced(c)

(* Every provider granted: run the work, or refuse an unfenced lease.      *)
Begin(c) ==
  /\ stage[c] = "acquire" /\ slot[c] = "end"
  /\ stage' = [stage EXCEPT ![c] = IF FencingSatisfied(c) THEN "work" ELSE "release"]
  /\ UNCHANGED <<provider, require_fencing, table, current, grants, fences,
                 slot, key, lease, seen>>

(* Work returns, Ok or Err: the outcome is kept and the locks released.    *)
Finish(c) ==
  /\ stage[c] = "work"
  /\ stage' = [stage EXCEPT ![c] = "release"]
  /\ UNCHANGED <<provider, require_fencing, table, current, grants, fences,
                 slot, key, lease, seen>>

(* Work unwinds: `held` is dropped, and dropping a LockLease does nothing. *)
(* The caller's thread is gone; its lease stays on record here as what it  *)
(* never gave back.                                                        *)
Panic(c) ==
  /\ stage[c] = "work"
  /\ stage' = [stage EXCEPT ![c] = "unwound"]
  /\ UNCHANGED <<provider, require_fencing, table, current, grants, fences,
                 slot, key, lease, seen>>

(* provider.release: the crate's table compares the owner string, an       *)
(* external provider the lease itself.                                     *)
Entry(c, s) ==
  IF provider[s] \in InCrate THEN table[s][key[c]] = OwnerOf[c]
                             ELSE current[s][key[c]] = lease[c][s].grant

(* One turn of release_all; an Err from release is ignored.                *)
ReleaseOne(c) ==
  LET s == LastHeld(c)
      k == key[c]
  IN /\ stage[c] = "release"
     /\ Holds(c, s)
     /\ lease' = [lease EXCEPT ![c][s] = NoLease]
     /\ IF Entry(c, s)
        THEN /\ table' = [table EXCEPT ![s][k] = Free]
             /\ current' = [current EXCEPT ![s][k] = 0]
        ELSE UNCHANGED <<table, current>>
     /\ UNCHANGED <<provider, require_fencing, grants, fences, stage, slot, key, seen>>

ReturnEarly(c) == TRUE     \* mutant: `if let` where release_all has `while let`
Emptied(c) == \A s \in Slots : ~Holds(c, s)

Return(c) ==
  /\ stage[c] = "release"
  /\ Emptied(c)
  /\ stage' = [stage EXCEPT ![c] = "idle"]
  /\ key' = [key EXCEPT ![c] = Free]
  /\ lease' = [lease EXCEPT ![c] = [s \in Slots |-> NoLease]]
  /\ UNCHANGED <<provider, require_fencing, table, current, grants, fences, slot, seen>>

(* External: a lease of an expiring provider runs out (fiducia's ttl), or  *)
(* its transaction ends under the caller (advisory lock).                  *)
Expire(s, k) ==
  /\ provider[s] \in Expiring
  /\ table[s][k] # Free
  /\ table' = [table EXCEPT ![s][k] = Free]
  /\ current' = [current EXCEPT ![s][k] = 0]
  /\ UNCHANGED <<provider, require_fencing, grants, fences, stage, slot, key, lease, seen>>

(* External: the resource under the lock sees a write made by the work. It *)
(* accepts the token unless it has seen a higher one.                      *)
AcceptsToken(c) == lease[c]["outer"].fence >= seen[key[c]].fence

Write(c) ==
  /\ stage[c] = "work"
  /\ lease[c]["outer"].fence # 0
  /\ AcceptsToken(c)
  /\ seen' = [seen EXCEPT ![key[c]] = lease[c]["outer"]]
  /\ UNCHANGED <<provider, require_fencing, table, current, grants, fences,
                 stage, slot, key, lease>>

(* The bound on acquisitions stops a run only between calls.               *)
Exhausted ==
  /\ \A c \in Callers : stage[c] = "unwound" \/ (stage[c] = "idle" /\ grants >= MaxGrants)
  /\ UNCHANGED vars

Step(c) == Acquire(c) \/ Fence(c) \/ Refused(c) \/ Begin(c) \/ ReleaseOne(c) \/ Return(c)

Next ==
  \/ \E c \in Callers, k \in Keys : Call(c, k)
  \/ \E c \in Callers : Step(c) \/ Finish(c) \/ Panic(c) \/ Write(c)
  \/ \E s \in Slots, k \in Keys : Expire(s, k)
  \/ Exhausted

Spec == Init /\ [][Next]_vars

(* A thread in with_lock keeps running and the work it was given returns;  *)
(* nothing is assumed of new calls, of writes or of an expiry.             *)
CallerFairness == \A c \in Callers : WF_vars(Step(c)) /\ WF_vars(Finish(c))
FairSpec == Spec /\ CallerFairness

---------------------------------------------------------------------------
(* A provider that keeps a lease until it is released.                     *)
Durable(s) == Present(s) /\ provider[s] \notin Expiring
Coordinated == \E s \in Slots : Durable(s)

Working(c, k) == stage[c] = "work" /\ key[c] = k

(* One durable provider is enough: work on one key never overlaps, even    *)
(* when the other provider's leases run out under their holders, and even  *)
(* when callers share an owner string.                                     *)
MutualExclusion ==
  Coordinated =>
    \A c, d \in Callers, k \in Keys :
      Working(c, k) /\ Working(d, k) => c = d

(* Without a durable provider a paused holder may still be working after   *)
(* the key was granted again.  Its tokens protect the resource: once a     *)
(* later holder has written, no earlier one writes (locks.rs:70-76).       *)
NoStaleWrite == [][\A k \in Keys : seen'[k].grant >= seen[k].grant]_vars

(* Fencing never locks out the rightful holder: a caller whose lease is    *)
(* still in force has its write accepted.                                  *)
RightfulHolderMayWrite ==
  \A c \in Callers :
    /\ stage[c] = "work"
    /\ lease[c]["outer"].fence # 0
    /\ current["outer"][key[c]] = lease[c]["outer"].grant
    => AcceptsToken(c)

(* Work never starts unfenced under require_fencing, and never starts      *)
(* while one of the composed providers has not granted.                    *)
WorkIsFullyLocked ==
  \A c \in Callers : stage[c] = "work" =>
    /\ \A s \in Slots : Present(s) => Holds(c, s)
    /\ require_fencing => lease[c]["outer"].fence # 0

(* with_lock gives back what it took, on every path (locks.rs:222-223): a  *)
(* taken lock is free again later, whichever of the two acquisitions       *)
(* failed and whatever the work returned; only a panic keeps it.           *)
Unwound(k) == \E c \in Callers : stage[c] = "unwound" /\ key[c] = k
LockComesBack ==
  \A s \in Slots, k \in Keys :
    table[s][k] # Free ~> (table[s][k] = Free \/ Unwound(k))

(* Under a durable provider with_lock implements the abstract mutex. (An   *)
(* uncoordinated deployment shows the mutex nothing.)                      *)
Inside == [c \in Callers |-> IF Coordinated /\ stage[c] = "work" THEN key[c] ELSE Free]
Abstract == INSTANCE Mutex WITH inside <- Inside, NoKey <- Free
ImplementsMutex == Abstract!Spec
===========================================================================
