---------------------------- MODULE LockRequest ----------------------------
(***************************************************************************)
(* Who asks for locks (LockRequest of src/src/locks.rs:45-55): threads     *)
(* that name a key and an owner, threads of one replica the same one.      *)
(***************************************************************************)
EXTENDS Naturals

CONSTANTS
  Callers,       \* threads
  Keys,          \* LockRequest.key
  Owners,        \* LockRequest.owner
  OwnerOf,       \* the owner each thread names in its requests
  Free,          \* a table without an entry; also: a caller without a key
  MaxGrants      \* bound on acquisitions

ASSUME RequestAssumption ==
  /\ OwnerOf \in [Callers -> Owners]
  /\ Free \notin Owners \cup Keys
  /\ MaxGrants \in Nat

(* All threads belong to one replica. *)
OneReplica == [c \in Callers |-> CHOOSE o \in Owners : TRUE]

(* All but one thread belong to one replica. *)
OneApart ==
  LET apart == CHOOSE c \in Callers : TRUE
      others == CHOOSE o \in Owners : TRUE
  IN [c \in Callers |-> IF c = apart THEN CHOOSE o \in Owners \ {others} : TRUE ELSE others]
===========================================================================
