--------------------------- MODULE LockProvider ---------------------------
(***************************************************************************)
(* The in-crate lock providers of src/src/locks.rs called directly through *)
(* the LockProvider trait: FencingTestProvider over InMemoryLockProvider.  *)
(* Each critical section of the code (one Mutex guard) is one step, so an  *)
(* acquisition is two: the table insert, then the fence counter.  A lease  *)
(* is a value the client may clone and present again at any later time.    *)
(* Neither section can panic, so the Err(Unavailable) of a poisoned mutex  *)
(* is left out.                                                            *)
(***************************************************************************)
EXTENDS LockRequest

CONSTANT MayRetryRelease   \* a client may call release again with a lease it released

ASSUME ProviderAssumption == MayRetryRelease \in BOOLEAN

VARIABLES
  held,          \* InMemoryLockProvider.held: key -> owner
  next_fence,    \* FencingTestProvider.next_fence
  inserted,      \* per caller: the <<key, grant>> inserted but not yet fenced
  leases,        \* every LockLease handed out, with the grant it came from
  released,      \* acquisitions whose lease has been passed to release once
  inserts,       \* history: number of table inserts so far
  entry          \* history: the insert each present table entry came from

locking == <<held, next_fence, inserted, leases, released, inserts, entry>>

Nothing == <<Free, 0>>     \* the caller has no half-finished acquisition

Lease == [key : Keys, owner : Owners, fence : Nat, grant : Nat]

ProviderTypeOK ==
  /\ held \in [Keys -> Owners \cup {Free}]
  /\ next_fence \in Nat
  /\ inserted \in [Callers -> (Keys \cup {Free}) \X Nat]
  /\ leases \subseteq Lease
  /\ released \subseteq Nat
  /\ inserts \in Nat
  /\ entry \in [Keys -> Nat]
  /\ \A l \in leases : l.fence \in 1..next_fence /\ l.grant \in 1..inserts

ProviderInit ==
  /\ held = [k \in Keys |-> Free]
  /\ next_fence = 0
  /\ inserted = [c \in Callers |-> Nothing]
  /\ leases = {}
  /\ released = {}
  /\ inserts = 0
  /\ entry = [k \in Keys |-> 0]

(***************************************************************************)
(* FencingTestProvider::acquire.  A contended key returns Err(Contended)   *)
(* and changes nothing.                                                    *)
(***************************************************************************)

MayInsert(k) == held[k] = Free

Insert(c, k) ==
  /\ inserted[c] = Nothing
  /\ inserts < MaxGrants
  /\ MayInsert(k)
  /\ held' = [held EXCEPT ![k] = OwnerOf[c]]
  /\ inserts' = inserts + 1
  /\ entry' = [entry EXCEPT ![k] = inserts + 1]
  /\ inserted' = [inserted EXCEPT ![c] = <<k, inserts + 1>>]
  /\ UNCHANGED <<next_fence, leases, released>>

FenceBeforeIncrement == next_fence                   \* mutant: post-increment
NewFence == next_fence + 1

TakeFence(c) ==
  /\ inserted[c] # Nothing
  /\ next_fence' = next_fence + 1
  /\ leases' = leases \cup
       {[key |-> inserted[c][1], owner |-> OwnerOf[c],
         fence |-> NewFence, grant |-> inserted[c][2]]}
  /\ inserted' = [inserted EXCEPT ![c] = Nothing]
  /\ UNCHANGED <<held, released, inserts, entry>>

(***************************************************************************)
(* InMemoryLockProvider::release and renew decide by the owner string.     *)
(* renew returns the lease unchanged, so it is only its verdict.           *)
(***************************************************************************)
StillHeldBy(lease) == held[lease.key] = lease.owner

Release(lease) ==
  /\ MayRetryRelease \/ lease.grant \notin released
  /\ released' = released \cup {lease.grant}
  /\ \/ /\ StillHeldBy(lease)
        /\ held' = [held EXCEPT ![lease.key] = Free]
        /\ entry' = [entry EXCEPT ![lease.key] = 0]
     \/ /\ ~StillHeldBy(lease)
        /\ UNCHANGED <<held, entry>>
  /\ UNCHANGED <<next_fence, inserted, leases, inserts>>

(* The grant bound stops a run only once nobody is in the middle of a call. *)
GrantsExhausted ==
  /\ inserts = MaxGrants
  /\ \A c \in Callers : inserted[c] = Nothing
  /\ UNCHANGED locking

ProviderNext ==
  \/ \E c \in Callers, k \in Keys : Insert(c, k)
  \/ \E c \in Callers : TakeFence(c)
  \/ \E lease \in leases : Release(lease)
  \/ GrantsExhausted

ProviderSpec == ProviderInit /\ [][ProviderNext]_locking

---------------------------------------------------------------------------
(* A lease is live while the table entry its acquisition made is present.  *)
Live(lease) == entry[lease.key] = lease.grant

(* Tokens follow the order in which the key was won: of two leases on one  *)
(* key the later one has the higher fence, although the insert and the     *)
(* counter are separate critical sections (locks.rs:368-377).  This is     *)
(* what lets a receiver reject a paused holder (locks.rs:70-76).           *)
FencesFollowGrants ==
  \A a, b \in leases :
    a.key = b.key /\ a.grant < b.grant => a.fence < b.fence

(* Nobody else can end a lease: as long as its holder has not released it, *)
(* it is in force and renew succeeds, whatever the other threads of the    *)
(* same replica (who share its owner string) acquire and release.  It      *)
(* rests on each lease being released once.                                *)
UnreleasedLeaseStands ==
  \A lease \in leases :
    lease.grant \notin released => StillHeldBy(lease) /\ Live(lease)

(* The provider implements the abstract fencing lock.                      *)
LiveLeases == {<<lease.key, lease.fence>> : lease \in {l \in leases : Live(l)}}

AbstractLock == INSTANCE FencedLock WITH live <- LiveLeases, last <- next_fence
ImplementsFencedLock == AbstractLock!Spec
===========================================================================
