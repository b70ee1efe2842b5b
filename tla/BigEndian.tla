----------------------------- MODULE BigEndian -----------------------------
(***************************************************************************)
(* Integers as the codecs put them on the wire, most significant byte      *)
(* first: to_be_bytes and from_be_bytes of Rust's u16, u32 and u64, as     *)
(* src/src/protocol/tcp.rs and src/src/runtime/session.rs use them.        *)
(***************************************************************************)
EXTENDS Integers

CONSTANT Base   \* 256, the number of bytes

ASSUME BaseAssumption == Base \in Nat \ {0, 1}

Octets == 0 .. Base - 1

(* The number n without its last k digits. *)
Shifted(n, k) ==
  LET shifted[i \in 0 .. k] == IF i = 0 THEN n ELSE shifted[i - 1] \div Base
  IN shifted[k]

Fits(n, width) == Shifted(n, width) = 0

to_be_bytes(n, width) == [i \in 1 .. width |-> Shifted(n, width - i) % Base]

from_be_bytes(b, width) ==
  LET value[i \in 0 .. width] == IF i = 0 THEN 0 ELSE value[i - 1] * Base + b[i]
  IN value[width]
===========================================================================
