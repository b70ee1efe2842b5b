---------------------------- MODULE FencedLock ----------------------------
(***************************************************************************)
(* What a fencing lock provider promises (the trait contract of            *)
(* src/src/locks.rs:119-160 and the token rule of lines 70-76): a key has  *)
(* at most one live lease, and every lease carries a token larger than     *)
(* every token issued before it.                                           *)
(***************************************************************************)
EXTENDS Naturals

CONSTANT Keys

VARIABLES live,   \* the live leases, as pairs <<key, token>>
          last    \* the last token issued

flVars == <<live, last>>

Init == live = {} /\ last = 0

Grant(k) ==
  /\ \A lease \in live : lease[1] # k
  /\ last' = last + 1
  /\ live' = live \cup {<<k, last + 1>>}

Release(lease) ==
  /\ live' = live \ {lease}
  /\ UNCHANGED last

Next == (\E k \in Keys : Grant(k)) \/ (\E lease \in live : Release(lease))

Spec == Init /\ [][Next]_flVars
===========================================================================
