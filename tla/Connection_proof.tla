-------------------------- MODULE Connection_proof --------------------------
(***************************************************************************)
(* Proofs about the codecs of a connection and the machine that watches    *)
(* over it.                                                                *)
(*                                                                         *)
(* FrameCodec, for payloads of any length and chunks of any size: the      *)
(* header read back is the length written (HeaderDeclares), so a stream    *)
(* can be cut where its frames end (Framing), and every operation keeps    *)
(* such a cut for what the decoder has buffered and what is under way.     *)
(*                                                                         *)
(* SessionFrame, for frames of any size: a field read is the field put,    *)
(* and takes exactly its bytes (FieldPut, FieldGot), so by induction along *)
(* the fields decode and encode undo each other, both ways                 *)
(* (FrameComesBack, FrameIsCanonical).                                     *)
(*                                                                         *)
(* Heartbeat, for every interval, number of misses, polling period and     *)
(* round trip shorter than the interval.                                   *)
(***************************************************************************)
EXTENDS FrameCodec, Heartbeat, SessionFrame, SequenceTheorems, WellFoundedInduction, TLAPS

(* Induction over the natural numbers, for sets: the least element outside *)
(* one.                                                                    *)
LEMMA LeastElement ==
  ASSUME NEW T, T \subseteq Nat, T # {}
  PROVE  \E n \in T : \A m \in T : n <= m
<1>1. PICK n \in T : \A m \in T : ~(<<m, n>> \in OpToRel(<, Nat))
  BY WFMin, NatLessThanWellFounded
<1>2. \A m \in T : ~(m < n)
  BY <1>1 DEF OpToRel
<1> QED BY <1>2

LEMMA SetInduction ==
  ASSUME NEW T, 0 \in T, \A n \in Nat : n \in T => n + 1 \in T
  PROVE  Nat \subseteq T
<1> DEFINE Outside == Nat \ T
<1> SUFFICES ASSUME Outside # {} PROVE FALSE
  OBVIOUS
<1>1. PICK n \in Outside : \A m \in Outside : n <= m
  <2> HIDE DEF Outside
  <2>1. Outside \subseteq Nat
    BY DEF Outside
  <2> QED BY <2>1, LeastElement
<1>2. n # 0 /\ n - 1 \in Nat /\ n - 1 \in T
  BY <1>1
<1> QED BY <1>1, <1>2

(* The same between bounds, upwards and downwards.                         *)
LEMMA Upwards ==
  ASSUME NEW n \in Nat, NEW T, 0 \in T, \A i \in 1 .. n : i - 1 \in T => i \in T
  PROVE  0 .. n \subseteq T
<1> DEFINE U == {i \in Nat : i <= n => i \in T}
<1>1. 0 \in U
  OBVIOUS
<1>2. ASSUME NEW i \in Nat, i \in U PROVE i + 1 \in U
  <2> SUFFICES ASSUME i + 1 <= n PROVE i + 1 \in T
    OBVIOUS
  <2>1. i + 1 \in 1 .. n /\ (i + 1) - 1 = i /\ i \in T
    BY <1>2
  <2> QED BY <2>1
<1> HIDE DEF U
<1>3. Nat \subseteq U
  BY <1>1, <1>2, SetInduction
<1> QED BY <1>3 DEF U

LEMMA Downwards ==
  ASSUME NEW n \in Nat, NEW T, n \in T, \A i \in 1 .. n : i \in T => i - 1 \in T
  PROVE  0 .. n \subseteq T
<1> DEFINE U == {k \in Nat : k <= n => n - k \in T}
<1>1. 0 \in U
  OBVIOUS
<1>2. ASSUME NEW k \in Nat, k \in U PROVE k + 1 \in U
  <2> SUFFICES ASSUME k + 1 <= n PROVE n - (k + 1) \in T
    OBVIOUS
  <2>1. n - k \in 1 .. n /\ (n - k) - 1 = n - (k + 1) /\ n - k \in T
    BY <1>2
  <2> QED BY <2>1
<1> HIDE DEF U
<1>3. Nat \subseteq U
  BY <1>1, <1>2, SetInduction
<1>4. ASSUME NEW i \in 0 .. n PROVE i \in T
  <2>1. n - i \in U /\ n - i <= n /\ n - (n - i) = i
    BY <1>3
  <2> QED BY <2>1 DEF U
<1> QED BY <1>4

---------------------------------------------------------------------------
(* The two recursive functions of the codec have a value at every place.   *)
IsShifted(f, n, k) == f = [i \in 0 .. k |-> IF i = 0 THEN n ELSE f[i - 1] \div Base]
IsValue(f, b, k) == f = [i \in 0 .. k |-> IF i = 0 THEN 0 ELSE f[i - 1] * Base + b[i]]

LEMMA ShiftedExists ==
  ASSUME NEW n, NEW k \in Nat
  PROVE  \E f : IsShifted(f, n, k)
<1> DEFINE T == {m \in Nat : \E f : IsShifted(f, n, m)}
<1>1. 0 \in T
  <2> DEFINE f == [i \in 0 .. 0 |-> n]
  <2>1. IsShifted(f, n, 0)
    BY DEF IsShifted
  <2> QED BY <2>1
<1>2. ASSUME NEW m \in Nat, m \in T PROVE m + 1 \in T
  <2>1. PICK f : IsShifted(f, n, m)
    BY <1>2
  <2> DEFINE g == [i \in 0 .. m + 1 |-> IF i = m + 1 THEN f[m] \div Base ELSE f[i]]
  <2>2. \A i \in 0 .. m : f[i] = IF i = 0 THEN n ELSE f[i - 1] \div Base
    BY <2>1 DEF IsShifted
  <2>3. \A i \in 0 .. m + 1 : g[i] = IF i = 0 THEN n ELSE g[i - 1] \div Base
    BY <2>2
  <2>4. g = [i \in 0 .. m + 1 |-> IF i = 0 THEN n ELSE g[i - 1] \div Base]
    BY <2>3
  <2>5. IsShifted(g, n, m + 1)
    BY <2>4 DEF IsShifted
  <2> QED BY <2>5
<1> HIDE DEF T
<1>3. Nat \subseteq T
  BY <1>1, <1>2, SetInduction
<1> QED BY <1>3 DEF T

LEMMA ValueExists ==
  ASSUME NEW b, NEW k \in Nat
  PROVE  \E f : IsValue(f, b, k)
<1> DEFINE T == {m \in Nat : \E f : IsValue(f, b, m)}
<1>1. 0 \in T
  <2> DEFINE f == [i \in 0 .. 0 |-> 0]
  <2>1. IsValue(f, b, 0)
    BY DEF IsValue
  <2> QED BY <2>1
<1>2. ASSUME NEW m \in Nat, m \in T PROVE m + 1 \in T
  <2>1. PICK f : IsValue(f, b, m)
    BY <1>2
  <2> DEFINE g == [i \in 0 .. m + 1 |-> IF i = m + 1 THEN f[m] * Base + b[m + 1] ELSE f[i]]
  <2>2. \A i \in 0 .. m : f[i] = IF i = 0 THEN 0 ELSE f[i - 1] * Base + b[i]
    BY <2>1 DEF IsValue
  <2>3. \A i \in 0 .. m + 1 : g[i] = IF i = 0 THEN 0 ELSE g[i - 1] * Base + b[i]
    BY <2>2
  <2>4. g = [i \in 0 .. m + 1 |-> IF i = 0 THEN 0 ELSE g[i - 1] * Base + b[i]]
    BY <2>3
  <2>5. IsValue(g, b, m + 1)
    BY <2>4 DEF IsValue
  <2> QED BY <2>5
<1> HIDE DEF T
<1>3. Nat \subseteq T
  BY <1>1, <1>2, SetInduction
<1> QED BY <1>3 DEF T

LEMMA Parameters == HeaderBytes \in Nat \ {0} /\ Base \in Nat \ {0, 1}
BY CodecAssumption, BaseAssumption

(* Every digit shifts by one more. *)
LEMMA ShiftedValue ==
  ASSUME NEW n \in Nat
  PROVE  /\ Shifted(n, 0) = n
         /\ \A k \in Nat : Shifted(n, k + 1) = Shifted(n, k) \div Base
         /\ \A k \in Nat : Shifted(n, k) \in Nat
<1>1. \A k \in Nat : \E f : IsShifted(f, n, k) /\ Shifted(n, k) = f[k]
  <2> SUFFICES ASSUME NEW k \in Nat PROVE \E f : IsShifted(f, n, k) /\ Shifted(n, k) = f[k]
    OBVIOUS
  <2> DEFINE f == CHOOSE f : f = [i \in 0 .. k |-> IF i = 0 THEN n ELSE f[i - 1] \div Base]
  <2>1. \E g : g = [i \in 0 .. k |-> IF i = 0 THEN n ELSE g[i - 1] \div Base]
    <3>1. PICK g : IsShifted(g, n, k)
      BY ShiftedExists
    <3>2. g = [i \in 0 .. k |-> IF i = 0 THEN n ELSE g[i - 1] \div Base]
      BY <3>1 DEF IsShifted
    <3> QED BY <3>2
  <2>3. IsShifted(f, n, k)
    BY <2>1 DEF IsShifted
  <2>2. Shifted(n, k) = f[k]
    BY DEF Shifted
  <2> QED BY <2>2, <2>3
<1>2. ASSUME NEW f, NEW k \in Nat, IsShifted(f, n, k)
      PROVE  f[0] = n /\ \A i \in 1 .. k : f[i] = f[i - 1] \div Base
  <2>1. \A i \in 0 .. k : f[i] = IF i = 0 THEN n ELSE f[i - 1] \div Base
    BY <1>2 DEF IsShifted
  <2> QED BY <2>1
<1>3. Shifted(n, 0) = n
  BY <1>1, <1>2
<1>4. ASSUME NEW k \in Nat PROVE Shifted(n, k + 1) = Shifted(n, k) \div Base
  <2>1. PICK f : IsShifted(f, n, k) /\ Shifted(n, k) = f[k]
    BY <1>1
  <2>2. PICK g : IsShifted(g, n, k + 1) /\ Shifted(n, k + 1) = g[k + 1]
    BY <1>1
  <2>3. f[0] = n /\ \A i \in 1 .. k : f[i] = f[i - 1] \div Base
    BY <1>2, <2>1
  <2>4. g[0] = n /\ \A i \in 1 .. k + 1 : g[i] = g[i - 1] \div Base
    BY <1>2, <2>2
  <2> DEFINE T == {i \in Nat : i <= k => f[i] = g[i]}
  <2>5. 0 \in T
    BY <2>3, <2>4
  <2>6. ASSUME NEW i \in Nat, i \in T PROVE i + 1 \in T
    <3> SUFFICES ASSUME i + 1 <= k PROVE f[i + 1] = g[i + 1]
      OBVIOUS
    <3>1. i + 1 \in 1 .. k /\ i + 1 \in 1 .. k + 1 /\ i + 1 - 1 = i /\ f[i] = g[i]
      BY <2>6
    <3>2. f[i + 1] = f[i] \div Base
      BY <2>3, <3>1
    <3>3. g[i + 1] = g[i] \div Base
      BY <2>4, <3>1
    <3> QED BY <3>1, <3>2, <3>3
  <2> HIDE DEF T
  <2>7. k \in T
    BY <2>5, <2>6, SetInduction
  <2>8. f[k] = g[k]
    BY <2>7 DEF T
  <2>9. k + 1 \in 1 .. k + 1 /\ k + 1 - 1 = k
    OBVIOUS
  <2>10. g[k + 1] = g[k] \div Base
    BY <2>4, <2>9
  <2> QED BY <2>1, <2>2, <2>8, <2>10
<1> DEFINE T == {k \in Nat : Shifted(n, k) \in Nat}
<1>5. 0 \in T
  BY <1>3
<1>6. ASSUME NEW k \in Nat, k \in T PROVE k + 1 \in T
  <2> DEFINE a == Shifted(n, k)
  <2>1. a \in Nat /\ Shifted(n, k + 1) = a \div Base
    BY <1>4, <1>6
  <2> HIDE DEF a
  <2>2. a \div Base \in Nat
    BY <2>1, Parameters
  <2> QED BY <2>1, <2>2
<1> HIDE DEF T
<1>7. Nat \subseteq T
  BY <1>5, <1>6, SetInduction
<1> QED BY <1>3, <1>4, <1>7 DEF T

LEMMA Division ==
  ASSUME NEW q \in Int, NEW b \in Int, b > 0
  PROVE  b * (q \div b) + (q % b) = q
BY SMTT(30)

LEMMA DivisionOfSum ==
  ASSUME NEW d \in Nat, NEW m \in Nat, NEW c \in Nat, m < c
  PROVE  (d * c + m) \div c = d /\ (d * c + m) % c = m
<1> DEFINE q == d * c + m
           e == q \div c
           r == q % c
<1>1. q \in Nat /\ c \in Nat \ {0}
  OBVIOUS
<1>2. e \in Nat /\ r \in 0 .. c - 1 /\ c * e + r = q
  <2> HIDE DEF q
  <2> QED BY <1>1, Division
<1> HIDE DEF e, r
<1>3. c * (e - d) = m - r
  BY <1>2
<1>4. CASE e > d
  <2>1. c * (e - d) >= c
    BY <1>1, <1>2, <1>4
  <2> QED BY <1>2, <1>3, <2>1
<1>5. CASE e < d
  <2>1. c * (e - d) <= 0 - c
    BY <1>1, <1>2, <1>5
  <2> QED BY <1>2, <1>3, <2>1
<1>6. CASE e = d
  BY <1>2, <1>3, <1>6 DEF e, r
<1> QED BY <1>2, <1>4, <1>5, <1>6

(* The number that the first w bytes of b spell, place by place. *)
Spelled(f, b, w) == f[0] = 0 /\ \A i \in 1 .. w : f[i] = f[i - 1] * Base + b[i]

LEMMA FromBytes ==
  ASSUME NEW b, NEW w \in Nat
  PROVE  \E f : Spelled(f, b, w) /\ from_be_bytes(b, w) = f[w]
<1> DEFINE f == CHOOSE f : f = [i \in 0 .. w |-> IF i = 0 THEN 0 ELSE f[i - 1] * Base + b[i]]
<1>1. IsValue(f, b, w)
  BY ValueExists DEF IsValue
<1>2. from_be_bytes(b, w) = f[w]
  BY DEF from_be_bytes
<1> HIDE DEF f
<1>3. \A i \in 0 .. w : f[i] = IF i = 0 THEN 0 ELSE f[i - 1] * Base + b[i]
  BY <1>1 DEF IsValue
<1>4. Spelled(f, b, w)
  BY <1>3 DEF Spelled
<1> QED BY <1>2, <1>4

(* What is read is what was written.                                       *)
LEMMA DigitsRead ==
  ASSUME NEW w \in Nat, NEW n \in Nat, Fits(n, w), NEW b, \A i \in 1 .. w : b[i] = to_be_bytes(n, w)[i]
  PROVE  from_be_bytes(b, w) = n
<1>1. PICK f : Spelled(f, b, w) /\ from_be_bytes(b, w) = f[w]
  BY FromBytes
<1>2. \A i \in 1 .. w : b[i] = Shifted(n, w - i) % Base
  BY DEF to_be_bytes
<1> DEFINE T == {i \in Nat : i <= w => f[i] = Shifted(n, w - i)}
<1>3. 0 \in T
  <2>1. w - 0 = w
    OBVIOUS
  <2> QED BY <1>1, <2>1 DEF Fits, Spelled
<1>4. ASSUME NEW i \in Nat, i \in T PROVE i + 1 \in T
  <2> SUFFICES ASSUME i + 1 <= w PROVE f[i + 1] = Shifted(n, w - (i + 1))
    OBVIOUS
  <2> DEFINE k == w - (i + 1)
             q == Shifted(n, k)
  <2>1. k \in Nat /\ w - i = k + 1 /\ i + 1 \in 1 .. w /\ i + 1 - 1 = i
    OBVIOUS
  <2>2. f[i] = Shifted(n, w - i)
    <3>1. i <= w
      OBVIOUS
    <3> QED BY <1>4, <3>1
  <2>3. f[i + 1] = f[i] * Base + b[i + 1]
    BY <1>1, <2>1 DEF Spelled
  <2>4. b[i + 1] = q % Base
    BY <1>2, <2>1
  <2> HIDE DEF k
  <2>5. f[i] = q \div Base /\ q \in Nat
    BY <2>1, <2>2, ShiftedValue
  <2> HIDE DEF q
  <2>6. Base * (q \div Base) + (q % Base) = q
    BY <2>5, Division, BaseAssumption
  <2>7. q \div Base \in Nat /\ q % Base \in Nat /\ Base \in Nat
    BY <2>5, BaseAssumption
  <2> DEFINE d == q \div Base
             m == q % Base
  <2>8. d \in Nat /\ m \in Nat /\ Base \in Nat /\ Base * d + m = q /\ f[i + 1] = d * Base + m
    BY <2>3, <2>4, <2>5, <2>6, <2>7
  <2> HIDE DEF d, m
  <2>9. f[i + 1] = q
    BY <2>8
  <2> QED BY <2>9 DEF k, q
<1> HIDE DEF T
<1>5. w \in T
  BY <1>3, <1>4, SetInduction
<1>6. w - w = 0
  OBVIOUS
<1>7. f[w] = Shifted(n, 0)
  BY <1>5, <1>6 DEF T
<1> QED BY <1>1, <1>7, ShiftedValue

LEMMA SpelledIsNat ==
  ASSUME NEW b, NEW w \in Nat, \A i \in 1 .. w : b[i] \in Nat, NEW f, Spelled(f, b, w)
  PROVE  \A i \in 0 .. w : f[i] \in Nat
<1> DEFINE T == {i \in Nat : i <= w => f[i] \in Nat}
<1>1. 0 \in T
  BY DEF Spelled
<1>2. ASSUME NEW i \in Nat, i \in T PROVE i + 1 \in T
  <2> SUFFICES ASSUME i + 1 <= w PROVE f[i + 1] \in Nat
    OBVIOUS
  <2>1. i + 1 \in 1 .. w /\ i + 1 - 1 = i /\ f[i] \in Nat
    BY <1>2
  <2>2. f[i + 1] = f[i] * Base + b[i + 1] /\ b[i + 1] \in Nat /\ Base \in Nat
    BY <2>1, BaseAssumption DEF Spelled
  <2> QED BY <2>1, <2>2
<1> HIDE DEF T
<1>3. Nat \subseteq T
  BY <1>1, <1>2, SetInduction
<1> QED BY <1>3 DEF T

(* Bytes are the digits of the number they spell, which therefore fits.    *)
LEMMA DigitsWritten ==
  ASSUME NEW w \in Nat, NEW b, \A i \in 1 .. w : b[i] \in Octets, NEW n, n = from_be_bytes(b, w)
  PROVE  /\ n \in Nat /\ Fits(n, w)
         /\ \A i \in 1 .. w : to_be_bytes(n, w)[i] = b[i]
<1>1. PICK f : Spelled(f, b, w) /\ n = f[w]
  BY FromBytes
<1>2. \A i \in 1 .. w : b[i] \in Nat /\ b[i] < Base
  BY BaseAssumption DEF Octets
<1>3. \A i \in 0 .. w : f[i] \in Nat
  BY <1>1, <1>2, SpelledIsNat
<1>4. n \in Nat
  BY <1>1, <1>3
<1>5. ASSUME NEW i \in 1 .. w PROVE f[i] \div Base = f[i - 1] /\ f[i] % Base = b[i]
  <2> DEFINE d == f[i - 1]
             m == b[i]
  <2>1. d \in Nat /\ m \in Nat /\ m < Base /\ f[i] = d * Base + m
    BY <1>1, <1>2, <1>3, <1>5 DEF Spelled
  <2> HIDE DEF d, m
  <2>2. (d * Base + m) \div Base = d /\ (d * Base + m) % Base = m
    BY <2>1, DivisionOfSum, BaseAssumption
  <2> QED BY <2>1, <2>2 DEF d, m
<1> DEFINE T == {k \in Nat : k <= w => Shifted(n, k) = f[w - k]}
<1>6. 0 \in T
  <2>1. w - 0 = w
    OBVIOUS
  <2> QED BY <1>1, <1>4, <2>1, ShiftedValue
<1>7. ASSUME NEW k \in Nat, k \in T PROVE k + 1 \in T
  <2> SUFFICES ASSUME k + 1 <= w PROVE Shifted(n, k + 1) = f[w - (k + 1)]
    OBVIOUS
  <2>1. w - k \in 1 .. w /\ w - (k + 1) = w - k - 1 /\ Shifted(n, k) = f[w - k]
    BY <1>7
  <2>2. f[w - k] \div Base = f[w - k - 1]
    BY <1>5, <2>1
  <2>3. Shifted(n, k + 1) = Shifted(n, k) \div Base
    BY <1>4, ShiftedValue
  <2> QED BY <2>1, <2>2, <2>3
<1> HIDE DEF T
<1>8. \A k \in 0 .. w : Shifted(n, k) = f[w - k]
  <2>1. Nat \subseteq T
    BY <1>6, <1>7, SetInduction
  <2> QED BY <2>1 DEF T
<1>9. Fits(n, w)
  <2>1. w - w = 0 /\ w \in 0 .. w
    OBVIOUS
  <2> QED BY <1>1, <1>8, <2>1 DEF Fits, Spelled
<1>10. ASSUME NEW i \in 1 .. w PROVE to_be_bytes(n, w)[i] = b[i]
  <2>1. w - i \in 0 .. w /\ w - (w - i) = i
    OBVIOUS
  <2>2. Shifted(n, w - i) = f[i]
    BY <1>8, <2>1
  <2> QED BY <1>5, <2>2 DEF to_be_bytes
<1> QED BY <1>4, <1>9, <1>10

(* What they spell does not change with what follows them.                 *)
LEMMA ReadByDigits ==
  ASSUME NEW w \in Nat, NEW a, NEW b, \A i \in 1 .. w : a[i] = b[i]
  PROVE  from_be_bytes(a, w) = from_be_bytes(b, w)
<1>1. PICK f : Spelled(f, a, w) /\ from_be_bytes(a, w) = f[w]
  BY FromBytes
<1>2. PICK g : Spelled(g, b, w) /\ from_be_bytes(b, w) = g[w]
  BY FromBytes
<1> DEFINE T == {i \in Nat : i <= w => f[i] = g[i]}
<1>3. 0 \in T
  BY <1>1, <1>2 DEF Spelled
<1>4. ASSUME NEW i \in Nat, i \in T PROVE i + 1 \in T
  <2> SUFFICES ASSUME i + 1 <= w PROVE f[i + 1] = g[i + 1]
    OBVIOUS
  <2>1. i + 1 \in 1 .. w /\ i + 1 - 1 = i /\ f[i] = g[i]
    BY <1>4
  <2>2. f[i + 1] = f[i] * Base + a[i + 1] /\ g[i + 1] = g[i] * Base + b[i + 1]
    BY <1>1, <1>2, <2>1 DEF Spelled
  <2> QED BY <2>1, <2>2
<1> HIDE DEF T
<1>5. w \in T
  BY <1>3, <1>4, SetInduction
<1> QED BY <1>1, <1>2, <1>5 DEF T

LEMMA WrittenType ==
  ASSUME NEW n \in Nat, NEW w \in Nat
  PROVE  to_be_bytes(n, w) \in Seq(Octets) /\ Len(to_be_bytes(n, w)) = w
<1>1. \A i \in 1 .. w : Shifted(n, w - i) % Base \in Octets
  <2> SUFFICES ASSUME NEW i \in 1 .. w PROVE Shifted(n, w - i) % Base \in Octets
    OBVIOUS
  <2> DEFINE q == Shifted(n, w - i)
  <2>1. w - i \in Nat
    OBVIOUS
  <2>2. q \in Nat
    BY <2>1, ShiftedValue
  <2> HIDE DEF q
  <2>3. q % Base \in 0 .. Base - 1
    BY <2>2, BaseAssumption
  <2> QED BY <2>3 DEF q, Octets
<1>2. to_be_bytes(n, w) \in [1 .. w -> Octets]
  BY <1>1 DEF to_be_bytes
<1>3. to_be_bytes(n, w) \in Seq(Octets)
  BY <1>2, SeqDef
<1> QED BY <1>2, <1>3, LenProperties

---------------------------------------------------------------------------
(* The header of a frame.                                                  *)
LEMMA HeaderDeclares ==
  ASSUME NEW n \in Nat, Fits(n, HeaderBytes), NEW b, \A i \in 1 .. HeaderBytes : b[i] = Header(n)[i]
  PROVE  Declared(b) = n
BY DigitsRead, Parameters DEF Header, Declared

LEMMA DeclaredType ==
  ASSUME NEW b, \A i \in 1 .. HeaderBytes : b[i] \in Octets
  PROVE  Declared(b) \in Nat
BY DigitsWritten, Parameters DEF Declared

LEMMA DeclaredByHeader ==
  ASSUME NEW a, NEW b, \A i \in 1 .. HeaderBytes : a[i] = b[i]
  PROVE  Declared(a) = Declared(b)
BY ReadByDigits, Parameters DEF Declared

LEMMA HeaderType ==
  ASSUME NEW n \in Nat
  PROVE  Header(n) \in Seq(Octets) /\ Len(Header(n)) = HeaderBytes
BY WrittenType, Parameters DEF Header

---------------------------------------------------------------------------
(* The stream is what the receiver holds and what is under way.  A frame   *)
(* stands in it at an offset; the frames not pulled yet stand one after    *)
(* the other, and nothing else is in it.                                   *)
FrameAt(stream, at, p) ==
  /\ at + HeaderBytes + Len(p) <= Len(stream)
  /\ \A i \in 1 .. HeaderBytes : stream[at + i] = Header(Len(p))[i]
  /\ \A i \in 1 .. Len(p) : stream[at + HeaderBytes + i] = p[i]

Framing(cut, stream, first, queue) ==
  /\ cut \in [first .. Len(queue) -> Nat]
  /\ cut[first] = 0 /\ cut[Len(queue)] = Len(stream)
  /\ \A j, k \in first .. Len(queue) : j <= k => cut[j] <= cut[k]
  /\ \A k \in first + 1 .. Len(queue) :
       cut[k] = cut[k - 1] + HeaderBytes + Len(queue[k]) /\ FrameAt(stream, cut[k - 1], queue[k])

LEMMA Dropped ==
  ASSUME NEW S, NEW s \in Seq(S), NEW c \in 0 .. Len(s)
  PROVE  /\ SubSeq(s, c + 1, Len(s)) \in Seq(S)
         /\ Len(SubSeq(s, c + 1, Len(s))) = Len(s) - c
         /\ \A i \in 1 .. Len(s) - c : SubSeq(s, c + 1, Len(s))[i] = s[c + i]
<1>1. c \in Nat /\ Len(s) \in Nat /\ c <= Len(s) /\ c + 1 \in Int /\ Len(s) \in Int
  OBVIOUS
<1>2. \A i \in c + 1 .. Len(s) : s[i] \in S
  BY <1>1, ElementOfSeq
<1>3. /\ SubSeq(s, c + 1, Len(s)) \in Seq(S)
      /\ Len(SubSeq(s, c + 1, Len(s))) = IF c + 1 <= Len(s) THEN Len(s) - (c + 1) + 1 ELSE 0
      /\ \A i \in 1 .. Len(s) - (c + 1) + 1 : SubSeq(s, c + 1, Len(s))[i] = s[c + 1 + i - 1]
  BY <1>1, <1>2, SubSeqProperties
<1>4. Len(s) - (c + 1) + 1 = Len(s) - c
  BY <1>1
<1>5. ASSUME NEW i \in 1 .. Len(s) - c PROVE SubSeq(s, c + 1, Len(s))[i] = s[c + i]
  <2>1. c + 1 + i - 1 = c + i
    BY <1>1
  <2> QED BY <1>3, <1>4, <2>1
<1>6. IF c + 1 <= Len(s) THEN Len(s) - (c + 1) + 1 = Len(s) - c ELSE Len(s) - c = 0
  BY <1>1
<1> QED BY <1>3, <1>5, <1>6

LEMMA FrameExtended ==
  ASSUME NEW stream \in Seq(Octets), NEW more \in Seq(Octets), NEW at \in Nat, NEW p \in Seq(Octets),
         FrameAt(stream, at, p)
  PROVE  FrameAt(stream \o more, at, p)
<1>1. /\ Len(stream) \in Nat /\ Len(more) \in Nat /\ Len(p) \in Nat /\ HeaderBytes \in Nat
      /\ Len(stream \o more) = Len(stream) + Len(more)
      /\ \A i \in 1 .. Len(stream) : (stream \o more)[i] = stream[i]
  BY ConcatProperties, LenProperties, Parameters
<1>2. at + HeaderBytes + Len(p) <= Len(stream)
  BY DEF FrameAt
<1>3. \A i \in 1 .. HeaderBytes : at + i \in 1 .. Len(stream)
  BY <1>1, <1>2
<1>4. \A i \in 1 .. Len(p) : at + HeaderBytes + i \in 1 .. Len(stream)
  BY <1>1, <1>2
<1>5. at + HeaderBytes + Len(p) <= Len(stream \o more)
  BY <1>1, <1>2
<1> HIDE DEF Header
<1> QED BY <1>1, <1>3, <1>4, <1>5 DEF FrameAt

LEMMA FrameMoved ==
  ASSUME NEW stream \in Seq(Octets), NEW at \in Nat, NEW p \in Seq(Octets), FrameAt(stream, at, p),
         NEW c \in 0 .. at
  PROVE  FrameAt(SubSeq(stream, c + 1, Len(stream)), at - c, p)
<1> DEFINE rest == SubSeq(stream, c + 1, Len(stream))
<1>1. /\ Len(stream) \in Nat /\ Len(p) \in Nat /\ HeaderBytes \in Nat /\ c \in Nat
      /\ at + HeaderBytes + Len(p) <= Len(stream)
  BY LenProperties, Parameters DEF FrameAt
<1>2. c \in 0 .. Len(stream)
  BY <1>1
<1>3. /\ Len(rest) = Len(stream) - c
      /\ \A i \in 1 .. Len(stream) - c : rest[i] = stream[c + i]
  BY <1>2, Dropped
<1> HIDE DEF rest
<1>4. at - c + HeaderBytes + Len(p) <= Len(rest)
  BY <1>1, <1>3
<1>5. ASSUME NEW i \in 1 .. HeaderBytes PROVE rest[at - c + i] = stream[at + i]
  <2>1. at - c + i \in 1 .. Len(stream) - c /\ c + (at - c + i) = at + i
    BY <1>1
  <2> QED BY <1>3, <2>1
<1>6. ASSUME NEW i \in 1 .. Len(p) PROVE rest[at - c + HeaderBytes + i] = stream[at + HeaderBytes + i]
  <2>1. at - c + HeaderBytes + i \in 1 .. Len(stream) - c
    BY <1>1
  <2>2. c + (at - c + HeaderBytes + i) = at + HeaderBytes + i
    BY <1>1
  <2> QED BY <1>3, <2>1, <2>2
<1> QED BY <1>4, <1>5, <1>6 DEF FrameAt, rest

LEMMA FrameAppended ==
  ASSUME NEW stream \in Seq(Octets), NEW p \in Seq(Octets)
  PROVE  /\ stream \o Header(Len(p)) \o p \in Seq(Octets)
         /\ Len(stream \o Header(Len(p)) \o p) = Len(stream) + HeaderBytes + Len(p)
         /\ FrameAt(stream \o Header(Len(p)) \o p, Len(stream), p)
<1> DEFINE h == Header(Len(p))
           s == stream \o h
           t == s \o p
<1>1. Len(p) \in Nat /\ HeaderBytes \in Nat /\ Len(stream) \in Nat
  BY Parameters
<1>2. h \in Seq(Octets) /\ Len(h) = HeaderBytes
  BY <1>1, HeaderType
<1> HIDE DEF h
<1>3. /\ s \in Seq(Octets) /\ Len(s) = Len(stream) + HeaderBytes
      /\ \A i \in 1 .. Len(stream) + HeaderBytes :
           s[i] = IF i <= Len(stream) THEN stream[i] ELSE h[i - Len(stream)]
  BY <1>2, ConcatProperties
<1> HIDE DEF s
<1>4. /\ t \in Seq(Octets) /\ Len(t) = Len(stream) + HeaderBytes + Len(p)
      /\ \A i \in 1 .. Len(s) + Len(p) : t[i] = IF i <= Len(s) THEN s[i] ELSE p[i - Len(s)]
  BY <1>1, <1>3, ConcatProperties
<1> HIDE DEF t
<1>5. ASSUME NEW i \in 1 .. HeaderBytes PROVE t[Len(stream) + i] = h[i]
  <2>1. /\ Len(stream) + i \in 1 .. Len(s) + Len(p) /\ Len(stream) + i <= Len(s)
        /\ Len(stream) + i \in 1 .. Len(stream) + HeaderBytes
        /\ ~(Len(stream) + i <= Len(stream)) /\ Len(stream) + i - Len(stream) = i
    BY <1>1, <1>3
  <2> QED BY <1>3, <1>4, <2>1
<1>6. ASSUME NEW i \in 1 .. Len(p) PROVE t[Len(stream) + HeaderBytes + i] = p[i]
  <2> DEFINE j == Len(stream) + HeaderBytes + i
  <2>1. j \in 1 .. Len(s) + Len(p) /\ ~(j <= Len(s)) /\ j - Len(s) = i
    BY <1>1, <1>3
  <2> HIDE DEF j
  <2>2. t[j] = p[i]
    BY <1>4, <2>1
  <2> QED BY <2>2 DEF j
<1>7. FrameAt(t, Len(stream), p)
  <2>1. Len(stream) + HeaderBytes + Len(p) <= Len(t)
    BY <1>1, <1>4
  <2> QED BY <1>5, <1>6, <2>1 DEF FrameAt, h
<1> QED BY <1>4, <1>7 DEF t, s, h

LEMMA FramingCuts ==
  ASSUME NEW stream, NEW queue \in Seq(Payloads), NEW first \in Nat, first <= Len(queue),
         NEW cut, Framing(cut, stream, first, queue)
  PROVE  LET n == Len(queue)
         IN /\ \A k \in first .. n : cut[k] \in Nat /\ cut[k] <= Len(stream)
            /\ cut[first] = 0 /\ cut[n] = Len(stream)
            /\ \A j, k \in first .. n : j <= k => cut[j] <= cut[k]
<1> DEFINE n == Len(queue)
<1>1. n \in Nat /\ n \in first .. n
  OBVIOUS
<1>2. /\ cut \in [first .. n -> Nat] /\ cut[first] = 0 /\ cut[n] = Len(stream)
      /\ \A j, k \in first .. n : j <= k => cut[j] <= cut[k]
  BY DEF Framing
<1>3. \A k \in first .. n : cut[k] \in Nat
  BY <1>2
<1>4. \A k \in first .. n : k <= n
  BY <1>1
<1>5. \A k \in first .. n : cut[k] <= cut[n]
  BY <1>1, <1>2, <1>4
<1> QED BY <1>2, <1>3, <1>5

LEMMA FramingSent ==
  ASSUME NEW stream \in Seq(Octets), NEW queue \in Seq(Payloads), NEW p \in Payloads,
         NEW first \in 0 .. Len(queue), NEW cut, Framing(cut, stream, first, queue)
  PROVE  \E c : Framing(c, stream \o Header(Len(p)) \o p, first, Append(queue, p))
<1> DEFINE n == Len(queue)
           more == Append(queue, p)
           s == stream \o Header(Len(p)) \o p
           c == [k \in first .. n + 1 |-> IF k = n + 1 THEN Len(s) ELSE cut[k]]
<1>1. /\ n \in Nat /\ first \in Nat /\ first <= n /\ Len(more) = n + 1 /\ more[n + 1] = p
      /\ \A k \in 1 .. n : more[k] = queue[k]
  OBVIOUS
<1>2. p \in Seq(Octets) /\ Len(p) \in Nat /\ Len(stream) \in Nat /\ HeaderBytes \in Nat
  BY CodecAssumption DEF Octets
<1>3. s \in Seq(Octets) /\ Len(s) = Len(stream) + HeaderBytes + Len(p) /\ FrameAt(s, Len(stream), p)
  BY <1>2, FrameAppended
<1>4. ASSUME NEW at \in Nat, NEW q \in Seq(Octets), FrameAt(stream, at, q) PROVE FrameAt(s, at, q)
  <2>1. Header(Len(p)) \in Seq(Octets) /\ stream \o Header(Len(p)) \in Seq(Octets)
    BY <1>2, HeaderType
  <2>2. FrameAt(stream \o Header(Len(p)), at, q)
    BY <1>4, <2>1, FrameExtended
  <2> QED BY <1>2, <2>1, <2>2, FrameExtended
<1>5. /\ \A k \in first .. n : cut[k] \in Nat /\ cut[k] <= Len(stream)
      /\ cut[first] = 0 /\ cut[n] = Len(stream)
      /\ \A j, k \in first .. n : j <= k => cut[j] <= cut[k]
  BY <1>1, FramingCuts
<1> HIDE DEF s, more, n
<1>6. /\ c[n + 1] = Len(s) /\ \A k \in first .. n : c[k] = cut[k]
      /\ \A k \in first .. n + 1 : k \in first .. n \/ k = n + 1
  BY <1>1
<1>7. c \in [first .. n + 1 -> Nat]
  BY <1>2, <1>3, <1>5, <1>6
<1> HIDE DEF c
<1>8. c[first] = 0
  BY <1>1, <1>5, <1>6
<1>9. ASSUME NEW j \in first .. n + 1, NEW k \in first .. n + 1, j <= k PROVE c[j] <= c[k]
  <2>1. CASE k = n + 1 /\ j \in first .. n
    BY <1>2, <1>3, <1>5, <1>6, <2>1
  <2>2. CASE k = n + 1 /\ j = n + 1
    BY <1>2, <1>3, <1>6, <2>2
  <2>3. CASE k \in first .. n
    <3>1. j \in first .. n
      BY <1>1, <1>9, <2>3
    <3> QED BY <1>5, <1>6, <1>9, <2>3, <3>1
  <2> QED BY <1>6, <2>1, <2>2, <2>3
<1>10. ASSUME NEW k \in first + 1 .. n + 1
       PROVE  c[k] = c[k - 1] + HeaderBytes + Len(more[k]) /\ FrameAt(s, c[k - 1], more[k])
  <2>1. CASE k = n + 1
    <3>1. k - 1 = n /\ n \in first .. n
      BY <1>1, <2>1
    <3>2. c[k - 1] = Len(stream) /\ c[k] = Len(s)
      BY <1>5, <1>6, <2>1, <3>1
    <3> QED BY <1>1, <1>3, <2>1, <3>2
  <2>2. CASE k \in first + 1 .. n
    <3>1. /\ k \in first .. n /\ k - 1 \in first .. n /\ k \in 1 .. n
      BY <1>1, <2>2
    <3>2. c[k] = cut[k] /\ c[k - 1] = cut[k - 1] /\ more[k] = queue[k]
      BY <1>1, <1>6, <3>1
    <3>3. cut[k] = cut[k - 1] + HeaderBytes + Len(queue[k]) /\ FrameAt(stream, cut[k - 1], queue[k])
      BY <2>2 DEF Framing, n
    <3>4. queue[k] \in Seq(Octets) /\ cut[k - 1] \in Nat
      BY <1>5, <3>1, CodecAssumption DEF n, Octets
    <3> QED BY <1>4, <3>2, <3>3, <3>4
  <2> QED BY <1>1, <2>1, <2>2
<1>11. Framing(c, s, first, more)
  BY <1>1, <1>6, <1>7, <1>8, <1>9, <1>10 DEF Framing
<1> QED BY <1>11 DEF s, more

LEMMA FramingTaken ==
  ASSUME NEW stream \in Seq(Octets), NEW queue \in Seq(Payloads),
         NEW first \in Nat, first < Len(queue), NEW cut, Framing(cut, stream, first, queue)
  PROVE  LET size == HeaderBytes + Len(queue[first + 1])
         IN \E c : Framing(c, SubSeq(stream, size + 1, Len(stream)), first + 1, queue)
<1> DEFINE n == Len(queue)
           size == HeaderBytes + Len(queue[first + 1])
           s == SubSeq(stream, size + 1, Len(stream))
           c == [k \in first + 1 .. n |-> cut[k] - size]
<1>1. n \in Nat /\ first + 1 \in first + 1 .. n /\ first + 1 - 1 = first /\ first \in first .. n
  OBVIOUS
<1>2. queue[first + 1] \in Payloads
  BY <1>1
<1>3. size \in Nat /\ Len(stream) \in Nat
  <2>1. Len(queue[first + 1]) \in Nat
    BY <1>2, CodecAssumption
  <2> QED BY <2>1, Parameters
<1>4. /\ \A k \in first .. n : cut[k] \in Nat /\ cut[k] <= Len(stream)
      /\ cut[first] = 0 /\ cut[n] = Len(stream)
      /\ \A j, k \in first .. n : j <= k => cut[j] <= cut[k]
  BY <1>1, FramingCuts
<1>5. cut[first + 1] = size
  <2>1. cut[first + 1] = cut[first] + HeaderBytes + Len(queue[first + 1])
    BY <1>1 DEF Framing
  <2>2. Len(queue[first + 1]) \in Nat /\ HeaderBytes \in Nat
    BY <1>2, CodecAssumption
  <2> QED BY <1>4, <2>1, <2>2
<1> HIDE DEF size
<1>6. \A k \in first + 1 .. n : k \in first .. n /\ size <= cut[k]
  BY <1>1, <1>4, <1>5
<1>7. size \in 0 .. Len(stream)
  BY <1>1, <1>3, <1>4, <1>5, <1>6
<1>8. s \in Seq(Octets) /\ Len(s) = Len(stream) - size
  BY <1>7, Dropped
<1>9. c \in [first + 1 .. n -> Nat]
  BY <1>3, <1>4, <1>6
<1> HIDE DEF n
<1>10. \A k \in first + 1 .. n : c[k] = cut[k] - size
  OBVIOUS
<1> HIDE DEF c, s
<1>11. c[first + 1] = 0 /\ c[n] = Len(s)
  <2>1. n \in first + 1 .. n
    BY <1>1
  <2>2. c[first + 1] = cut[first + 1] - size /\ c[n] = cut[n] - size
    BY <1>1, <1>10, <2>1
  <2> QED BY <1>3, <1>4, <1>5, <1>8, <2>2
<1>12. ASSUME NEW j \in first + 1 .. n, NEW k \in first + 1 .. n, j <= k PROVE c[j] <= c[k]
  BY <1>3, <1>4, <1>6, <1>10, <1>12
<1>13. ASSUME NEW k \in first + 1 + 1 .. n
       PROVE  c[k] = c[k - 1] + HeaderBytes + Len(queue[k]) /\ FrameAt(s, c[k - 1], queue[k])
  <2>1. k \in first + 1 .. n /\ k - 1 \in first + 1 .. n /\ k \in 1 .. n
    BY <1>1
  <2>2. cut[k] = cut[k - 1] + HeaderBytes + Len(queue[k]) /\ FrameAt(stream, cut[k - 1], queue[k])
    BY <2>1 DEF Framing, n
  <2>3. queue[k] \in Seq(Octets) /\ Len(queue[k]) \in Nat /\ HeaderBytes \in Nat
    BY <2>1, CodecAssumption DEF n, Octets
  <2>4. cut[k - 1] \in Nat /\ size \in 0 .. cut[k - 1] /\ cut[k] \in Nat
    BY <1>3, <1>4, <1>6, <2>1
  <2>5. FrameAt(s, cut[k - 1] - size, queue[k])
    BY <2>2, <2>3, <2>4, FrameMoved DEF s
  <2>6. c[k] = cut[k] - size /\ c[k - 1] = cut[k - 1] - size
    BY <1>10, <2>1
  <2>7. FrameAt(s, c[k - 1], queue[k])
    BY <2>5, <2>6
  <2>8. size \in Nat /\ cut[k] = cut[k - 1] + HeaderBytes + Len(queue[k])
    BY <1>3, <2>2
  <2>9. c[k] = c[k - 1] + HeaderBytes + Len(queue[k])
    <3> DEFINE u == cut[k]
               v == cut[k - 1]
               l == Len(queue[k])
    <3>1. u \in Nat /\ v \in Nat /\ l \in Nat /\ u = v + HeaderBytes + l
      BY <2>3, <2>4, <2>8
    <3> HIDE DEF u, v, l
    <3>2. u - size = v - size + HeaderBytes + l
      BY <2>3, <2>8, <3>1
    <3> QED BY <2>6, <3>2 DEF u, v, l
  <2> QED BY <2>7, <2>9
<1>14. Framing(c, s, first + 1, queue)
  BY <1>9, <1>11, <1>12, <1>13 DEF Framing, n
<1> QED BY <1>14 DEF s, size

---------------------------------------------------------------------------
Typed ==
  /\ codec \in Codecs
  /\ sent \in Seq(Payloads) /\ got \in Seq(Payloads)
  /\ wire \in Seq(Octets) /\ buffer \in Seq(Octets)
  /\ poisoned \in BOOLEAN /\ drained \in BOOLEAN /\ failed \in BOOLEAN

InOrder == Len(got) <= Len(sent) /\ \A i \in 1 .. Len(got) : got[i] = sent[i]

(* Until something fails, the payloads pulled and the frames in the stream *)
(* are together what was sent.                                             *)
InStep == ~failed => ~poisoned /\ \E cut : Framing(cut, buffer \o wire, Len(got), sent)

AtRest == drained /\ ~failed => ~(Refused \/ Complete)

(* After an error the decoder finds nothing that it could pull.            *)
Dead == failed => poisoned \/ Refused \/ (Complete /\ ~Readable(FrontPayload))

CodecInvariant == Typed /\ InOrder /\ InStep /\ AtRest /\ Dead

LEMMA DeclaredIsNat ==
  ASSUME buffer \in Seq(Octets), HasHeader
  PROVE  Declared(buffer) \in Nat
<1>1. ASSUME NEW i \in 1 .. HeaderBytes PROVE buffer[i] \in Octets
  <2>1. i \in 1 .. Len(buffer)
    BY Parameters DEF HasHeader
  <2> QED BY <2>1, ElementOfSeq
<1> QED BY <1>1, DeclaredType

LEMMA CodecInit == Init => CodecInvariant
<1> SUFFICES ASSUME Init PROVE CodecInvariant
  OBVIOUS
<1>1. Typed
  BY EmptySeq DEF Init, Typed
<1>2. InOrder
  BY EmptySeq DEF Init, InOrder
<1>3. Framing([k \in 0 .. 0 |-> 0], <<>> \o <<>>, 0, <<>>)
  <2>1. <<>> \o <<>> = <<>> /\ Len(<<>>) = 0
    OBVIOUS
  <2> QED BY <2>1 DEF Framing
<1>4. InStep
  BY <1>3 DEF Init, InStep
<1>5. AtRest /\ Dead
  <2>1. ~HasHeader
    BY Parameters DEF Init, HasHeader
  <2> QED BY <2>1 DEF Init, AtRest, Dead, Refused, Complete
<1> QED BY <1>1, <1>2, <1>4, <1>5 DEF CodecInvariant

(* What the decoder finds does not change when bytes are added.            *)
LEMMA FoundStays ==
  ASSUME NEW more \in Seq(Octets), buffer \in Seq(Octets), buffer' = buffer \o more, codec' = codec, HasHeader
  PROVE  /\ HasHeader' /\ Declared(buffer)' = Declared(buffer)
         /\ Refused => Refused'
         /\ Complete /\ Declared(buffer) \in Nat => Complete' /\ FrontPayload' = FrontPayload
<1>1. /\ Len(buffer) \in Nat /\ Len(more) \in Nat /\ HeaderBytes \in Nat \ {0}
      /\ Len(buffer') = Len(buffer) + Len(more)
      /\ \A i \in 1 .. Len(buffer) : buffer'[i] = buffer[i]
      /\ buffer' \in Seq(Octets)
  BY ConcatProperties, LenProperties, Parameters
<1>2. HeaderBytes <= Len(buffer) /\ HasHeader'
  BY <1>1 DEF HasHeader
<1>3. \A i \in 1 .. HeaderBytes : i \in 1 .. Len(buffer)
  BY <1>1, <1>2
<1>4. Declared(buffer') = Declared(buffer)
  BY <1>1, <1>3, DeclaredByHeader
<1>5. Refused => Refused'
  BY <1>2, <1>4 DEF Refused, TooLarge
<1>6. ASSUME Complete, Declared(buffer) \in Nat PROVE Complete' /\ FrontPayload' = FrontPayload
  <2> DEFINE n == Declared(buffer)
             m == HeaderBytes + 1
             k == HeaderBytes + n
  <2>1. n \in Nat /\ Len(buffer) >= k /\ n = Declared(buffer')
    BY <1>4, <1>6 DEF Complete
  <2> HIDE DEF n
  <2>2. Complete'
    BY <1>1, <1>2, <2>1 DEF Complete
  <2>3. m \in 1 .. Len(buffer) + 1 /\ k \in 0 .. Len(buffer) /\ m \in Int /\ k \in Int
    BY <1>1, <2>1
  <2>4. FrontPayload = SubSeq(buffer, m, k) /\ FrontPayload' = SubSeq(buffer', m, k)
    BY <2>1 DEF FrontPayload, n
  <2>5. SubSeq(buffer', m, k) = SubSeq(buffer, m, k)
    <3>1. CASE m <= k
      <4>1. m \in 1 .. Len(buffer) /\ k \in 1 .. Len(buffer)
        BY <1>1, <2>3, <3>1
      <4> HIDE DEF m, k
      <4> QED BY <4>1, SubSeqOfConcat1
    <3>2. CASE k < m
      <4> HIDE DEF m, k
      <4> QED BY <2>3, <3>2, SubSeqEmpty
    <3>3. m <= k \/ k < m
      BY <2>3
    <3> QED BY <3>1, <3>2, <3>3
  <2> QED BY <2>2, <2>4, <2>5
<1> QED BY <1>2, <1>4, <1>5, <1>6

(* The first frame of the stream, once the decoder holds its header.       *)
LEMMA FrontFrame ==
  ASSUME CodecInvariant, ~failed, HasHeader
  PROVE  LET p == sent[Len(got) + 1]
         IN /\ Len(got) < Len(sent) /\ p \in Payloads /\ p \in Seq(Octets)
            /\ Declared(buffer) = Len(p) /\ FrameAt(buffer \o wire, 0, p)
            /\ Complete => FrontPayload = p
<1> DEFINE stream == buffer \o wire
           first == Len(got)
           p == sent[first + 1]
<1>1. /\ buffer \in Seq(Octets) /\ wire \in Seq(Octets) /\ sent \in Seq(Payloads) /\ got \in Seq(Payloads)
      /\ first \in Nat /\ Len(sent) \in Nat /\ first <= Len(sent)
      /\ Len(buffer) \in Nat /\ Len(wire) \in Nat /\ HeaderBytes \in Nat \ {0}
      /\ Len(buffer) >= HeaderBytes
  BY LenProperties, Parameters DEF CodecInvariant, Typed, InOrder, HasHeader
<1>2. /\ stream \in Seq(Octets) /\ Len(stream) = Len(buffer) + Len(wire)
      /\ \A i \in 1 .. Len(buffer) : stream[i] = buffer[i]
  BY <1>1, ConcatProperties
<1>3. PICK cut : Framing(cut, stream, first, sent)
  BY DEF CodecInvariant, InStep
<1> HIDE DEF stream
<1>4. first < Len(sent)
  <2> SUFFICES ASSUME first = Len(sent) PROVE FALSE
    BY <1>1
  <2>1. Len(stream) = 0
    BY <1>3 DEF Framing
  <2> QED BY <1>1, <1>2, <2>1
<1>5. p \in Payloads /\ p \in Seq(Octets) /\ Len(p) \in Nat /\ Fits(Len(p), HeaderBytes)
  <2>1. p \in Payloads
    BY <1>1, <1>4
  <2> QED BY <2>1, CodecAssumption DEF Octets
<1>6. FrameAt(stream, 0, p)
  <2>1. first + 1 \in first + 1 .. Len(sent) /\ first + 1 - 1 = first
    BY <1>1, <1>4
  <2> QED BY <1>3, <2>1 DEF Framing
<1> HIDE DEF first, p
<1>7. Declared(buffer) = Len(p)
  <2>1. ASSUME NEW i \in 1 .. HeaderBytes PROVE buffer[i] = Header(Len(p))[i]
    <3>1. i \in 1 .. Len(buffer) /\ 0 + i = i
      BY <1>1
    <3>2. stream[0 + i] = Header(Len(p))[i]
      BY <1>6 DEF FrameAt
    <3> QED BY <1>2, <3>1, <3>2
  <2> QED BY <1>5, <2>1, HeaderDeclares
<1>8. ASSUME Complete PROVE FrontPayload = p
  <2> DEFINE n == Len(p)
  <2>1. n \in Nat /\ Len(buffer) >= HeaderBytes + n /\ FrontPayload = SubSeq(buffer, HeaderBytes + 1, HeaderBytes + n)
    BY <1>5, <1>7, <1>8 DEF Complete, FrontPayload
  <2>2. \A i \in HeaderBytes + 1 .. HeaderBytes + n : i \in 1 .. Len(buffer) /\ buffer[i] \in Octets
    BY <1>1, <2>1, ElementOfSeq
  <2>3. /\ FrontPayload \in Seq(Octets)
        /\ Len(FrontPayload) = IF HeaderBytes + 1 <= HeaderBytes + n THEN (HeaderBytes + n) - (HeaderBytes + 1) + 1 ELSE 0
        /\ \A i \in 1 .. (HeaderBytes + n) - (HeaderBytes + 1) + 1 : FrontPayload[i] = buffer[HeaderBytes + 1 + i - 1]
    <3>1. HeaderBytes + 1 \in Int /\ HeaderBytes + n \in Int
      BY <1>1, <2>1
    <3> DEFINE a == HeaderBytes + 1
               b == HeaderBytes + n
    <3> HIDE DEF n, a, b
    <3>2. /\ SubSeq(buffer, a, b) \in Seq(Octets)
          /\ Len(SubSeq(buffer, a, b)) = IF a <= b THEN b - a + 1 ELSE 0
          /\ \A i \in 1 .. b - a + 1 : SubSeq(buffer, a, b)[i] = buffer[a + i - 1]
      <4>1. a \in Int /\ b \in Int /\ \A i \in a .. b : buffer[i] \in Octets
        BY <2>2, <3>1 DEF a, b
      <4> QED BY <4>1, SubSeqProperties
    <3>3. FrontPayload = SubSeq(buffer, a, b)
      BY <2>1 DEF a, b
    <3>4. /\ FrontPayload \in Seq(Octets)
          /\ Len(FrontPayload) = IF a <= b THEN b - a + 1 ELSE 0
          /\ \A i \in 1 .. b - a + 1 : FrontPayload[i] = buffer[a + i - 1]
      BY <3>2, <3>3
    <3> QED BY <3>4 DEF a, b
  <2>4. Len(FrontPayload) = n
    BY <1>1, <2>1, <2>3
  <2>5. ASSUME NEW i \in 1 .. n PROVE FrontPayload[i] = p[i]
    <3>1. /\ HeaderBytes + 1 + i - 1 = HeaderBytes + i /\ (HeaderBytes + n) - (HeaderBytes + 1) + 1 = n
          /\ HeaderBytes + i \in 1 .. Len(buffer) /\ 0 + HeaderBytes + i = HeaderBytes + i
      BY <1>1, <2>1
    <3>2. FrontPayload[i] = buffer[HeaderBytes + i]
      BY <2>3, <3>1
    <3>3. stream[0 + HeaderBytes + i] = p[i]
      BY <1>6 DEF FrameAt
    <3> QED BY <1>2, <3>1, <3>2, <3>3
  <2> QED BY <1>5, <2>3, <2>4, <2>5, SeqEqual
<1> QED BY <1>4, <1>5, <1>6, <1>7, <1>8 DEF first, p, stream

LEMMA SendKeeps ==
  ASSUME CodecInvariant, NEW p \in Payloads, Framed(p)
  PROVE  CodecInvariant'
<1>1. /\ buffer \in Seq(Octets) /\ wire \in Seq(Octets) /\ sent \in Seq(Payloads) /\ got \in Seq(Payloads)
      /\ Len(got) \in 0 .. Len(sent)
      /\ wire' = wire \o Header(Len(p)) \o p /\ sent' = Append(sent, p)
      /\ UNCHANGED <<codec, buffer, poisoned, drained, got, failed>>
  BY DEF CodecInvariant, Typed, InOrder, Framed
<1>2. p \in Seq(Octets) /\ Len(p) \in Nat
  BY CodecAssumption DEF Octets
<1>3. wire' \in Seq(Octets)
  BY <1>1, <1>2, FrameAppended
<1>4. sent' \in Seq(Payloads) /\ Len(sent') = Len(sent) + 1 /\ \A i \in 1 .. Len(sent) : sent'[i] = sent[i]
  BY <1>1, AppendProperties
<1>5. Typed'
  BY <1>1, <1>3, <1>4 DEF CodecInvariant, Typed
<1>6. InOrder'
  BY <1>1, <1>4 DEF CodecInvariant, InOrder
<1>7. InStep'
  <2> SUFFICES ASSUME ~failed PROVE InStep'
    BY <1>1 DEF InStep
  <2>1. PICK cut : Framing(cut, buffer \o wire, Len(got), sent)
    BY DEF CodecInvariant, InStep
  <2>2. buffer \o wire \in Seq(Octets)
    BY <1>1, ConcatProperties
  <2>3. PICK c : Framing(c, (buffer \o wire) \o Header(Len(p)) \o p, Len(got), sent')
    BY <1>1, <2>1, <2>2, FramingSent
  <2>4. (buffer \o wire) \o Header(Len(p)) \o p = buffer \o wire'
    <3> DEFINE h == Header(Len(p))
    <3>1. h \in Seq(Octets) /\ wire \o h \in Seq(Octets)
      BY <1>1, <1>2, HeaderType, ConcatProperties
    <3> HIDE DEF h
    <3>2. (buffer \o wire) \o h = buffer \o (wire \o h)
      BY <1>1, <3>1, ConcatAssociative, SMTT(30)
    <3>3. (buffer \o (wire \o h)) \o p = buffer \o ((wire \o h) \o p)
      <4> DEFINE t == wire \o h
      <4>1. buffer \in Seq(Octets) /\ t \in Seq(Octets) /\ p \in Seq(Octets)
        BY <1>1, <1>2, <3>1
      <4> HIDE DEF t
      <4>2. (buffer \o t) \o p = buffer \o (t \o p)
        BY <4>1, ConcatAssociative, SMTT(30)
      <4> QED BY <4>2 DEF t
    <3> QED BY <1>1, <3>2, <3>3 DEF h
  <2>5. ~poisoned
    BY DEF CodecInvariant, InStep
  <2> QED BY <1>1, <2>3, <2>4, <2>5 DEF InStep
<1>8. AtRest' /\ Dead'
  BY <1>1 DEF CodecInvariant, AtRest, Dead, Refused, Complete, HasHeader, TooLarge, FrontPayload, Readable
<1> QED BY <1>5, <1>6, <1>7, <1>8 DEF CodecInvariant

LEMMA FeedKeeps ==
  ASSUME CodecInvariant, NEW n \in 1 .. Len(wire), Feed(n)
  PROVE  CodecInvariant'
<1> DEFINE chunk == SubSeq(wire, 1, n)
<1>1. /\ buffer \in Seq(Octets) /\ wire \in Seq(Octets) /\ Len(wire) \in Nat
      /\ buffer' = (IF poisoned THEN buffer ELSE buffer \o chunk)
      /\ wire' = SubSeq(wire, n + 1, Len(wire)) /\ drained' = FALSE
      /\ UNCHANGED <<codec, sent, poisoned, got, failed>>
  BY DEF CodecInvariant, Typed, Feed
<1>2. chunk \in Seq(Octets) /\ wire' \in Seq(Octets) /\ chunk \o wire' = wire
  <2>1. wire' \in Seq(Octets)
    <3>1. n \in 0 .. Len(wire)
      BY <1>1
    <3> QED BY <1>1, <3>1, Dropped
  <2>2. chunk \in Seq(Octets)
    <3>1. n \in Int /\ 1 \in Int /\ \A i \in 1 .. n : wire[i] \in Octets
      BY <1>1, ElementOfSeq
    <3> QED BY <3>1, SubSeqProperties
  <2>3. chunk \o SubSeq(wire, n + 1, Len(wire)) = SubSeq(wire, 1, Len(wire))
    <3>1. 1 \in 1 .. Len(wire) + 1 /\ n \in 1 - 1 .. Len(wire) /\ Len(wire) \in n .. Len(wire)
      BY <1>1
    <3> QED BY <1>1, <3>1, ConcatAdjacentSubSeq
  <2> QED BY <1>1, <2>1, <2>2, <2>3, SubSeqFull
<1> HIDE DEF chunk
<1>3. Typed' /\ InOrder'
  BY <1>1, <1>2, ConcatProperties DEF CodecInvariant, Typed, InOrder
<1>4. InStep'
  <2> SUFFICES ASSUME ~failed PROVE InStep'
    BY <1>1 DEF InStep
  <2>1. ~poisoned /\ \E cut : Framing(cut, buffer \o wire, Len(got), sent)
    BY DEF CodecInvariant, InStep
  <2>2. buffer' \o wire' = buffer \o wire
    <3>1. (buffer \o chunk) \o wire' = buffer \o (chunk \o wire')
      <4>1. buffer \in Seq(Octets) /\ chunk \in Seq(Octets) /\ wire' \in Seq(Octets)
        BY <1>1, <1>2
      <4> QED BY <4>1, ConcatAssociative, SMTT(30)
    <3> QED BY <1>1, <1>2, <2>1, <3>1
  <2> QED BY <1>1, <2>1, <2>2 DEF InStep
<1>5. AtRest'
  BY <1>1 DEF AtRest
<1>6. Dead'
  <2> SUFFICES ASSUME failed, ~poisoned PROVE Dead'
    BY <1>1 DEF Dead
  <2>1. buffer' = buffer \o chunk
    BY <1>1
  <2>2. CASE Refused
    BY <1>1, <1>2, <2>1, <2>2, FoundStays DEF Dead, Refused
  <2>3. CASE Complete /\ ~Readable(FrontPayload)
    <3>1. HasHeader
      BY <2>3 DEF Complete
    <3>2. Declared(buffer) \in Nat
      BY <1>1, <3>1, DeclaredIsNat
    <3>3. Complete' /\ FrontPayload' = FrontPayload
      BY <1>1, <1>2, <2>1, <2>3, <3>1, <3>2, FoundStays
    <3> QED BY <1>1, <2>3, <3>3 DEF Dead, Readable
  <2> QED BY <2>2, <2>3 DEF CodecInvariant, Dead
<1> QED BY <1>3, <1>4, <1>5, <1>6 DEF CodecInvariant

LEMMA PullFrameKeeps ==
  ASSUME CodecInvariant, PullFrame
  PROVE  CodecInvariant'
<1>1. /\ ~poisoned /\ ~Refused /\ Complete /\ Readable(FrontPayload) /\ HasHeader
      /\ buffer' = Rest /\ got' = Append(got, FrontPayload)
      /\ UNCHANGED <<codec, sent, wire, poisoned, drained, failed>>
  BY DEF PullFrame, Complete
<1>2. ~failed /\ ~drained
  BY <1>1 DEF CodecInvariant, Dead, AtRest, Typed
<1> DEFINE p == sent[Len(got) + 1]
           size == HeaderBytes + Len(p)
           stream == buffer \o wire
<1>3. /\ Len(got) < Len(sent) /\ p \in Payloads /\ p \in Seq(Octets)
      /\ Declared(buffer) = Len(p) /\ FrontPayload = p
  BY <1>1, <1>2, FrontFrame
<1>4. /\ buffer \in Seq(Octets) /\ wire \in Seq(Octets) /\ sent \in Seq(Payloads) /\ got \in Seq(Payloads)
      /\ Len(got) \in Nat /\ Len(sent) \in Nat /\ Len(buffer) \in Nat /\ Len(wire) \in Nat
      /\ HeaderBytes \in Nat /\ Len(p) \in Nat
  BY <1>3, LenProperties, Parameters DEF CodecInvariant, Typed
<1>5. size \in 0 .. Len(buffer) /\ buffer' = SubSeq(buffer, size + 1, Len(buffer))
  BY <1>1, <1>3, <1>4 DEF Complete, Rest
<1> HIDE DEF p
<1>6. /\ got' \in Seq(Payloads) /\ Len(got') = Len(got) + 1 /\ got'[Len(got) + 1] = p
      /\ \A i \in 1 .. Len(got) : got'[i] = got[i]
  BY <1>1, <1>3, <1>4, AppendProperties
<1> HIDE DEF size
<1>7. /\ buffer' \in Seq(Octets) /\ Len(buffer') = Len(buffer) - size
      /\ \A i \in 1 .. Len(buffer) - size : buffer'[i] = buffer[size + i]
  BY <1>4, <1>5, Dropped
<1>8. Typed'
  BY <1>1, <1>6, <1>7 DEF CodecInvariant, Typed
<1>9. InOrder'
  <2>1. \A i \in 1 .. Len(got') : got'[i] = sent[i]
    <3> SUFFICES ASSUME NEW i \in 1 .. Len(got') PROVE got'[i] = sent[i]
      OBVIOUS
    <3>1. i \in 1 .. Len(got) \/ i = Len(got) + 1
      BY <1>4, <1>6
    <3> QED BY <1>6, <3>1 DEF CodecInvariant, InOrder, p
  <2> QED BY <1>1, <1>3, <1>4, <1>6, <2>1 DEF InOrder
<1>10. SubSeq(stream, size + 1, Len(stream)) = buffer' \o wire
  <2>1. /\ stream \in Seq(Octets) /\ Len(stream) = Len(buffer) + Len(wire)
        /\ \A i \in 1 .. Len(buffer) + Len(wire) :
             stream[i] = IF i <= Len(buffer) THEN buffer[i] ELSE wire[i - Len(buffer)]
    BY <1>4, ConcatProperties
  <2> HIDE DEF stream
  <2> DEFINE rest == SubSeq(stream, size + 1, Len(stream))
             both == buffer' \o wire
  <2>2. size \in 0 .. Len(stream) /\ size \in Nat
    BY <1>4, <1>5, <2>1
  <2>3. /\ rest \in Seq(Octets) /\ Len(rest) = Len(stream) - size
        /\ \A i \in 1 .. Len(stream) - size : rest[i] = stream[size + i]
    BY <2>1, <2>2, Dropped
  <2>4. /\ both \in Seq(Octets) /\ Len(both) = Len(buffer') + Len(wire)
        /\ \A i \in 1 .. Len(buffer') + Len(wire) :
             both[i] = IF i <= Len(buffer') THEN buffer'[i] ELSE wire[i - Len(buffer')]
    BY <1>4, <1>7, ConcatProperties
  <2> HIDE DEF rest, both
  <2>5. Len(rest) = Len(both)
    BY <1>4, <1>7, <2>1, <2>2, <2>3, <2>4
  <2>6. ASSUME NEW i \in 1 .. Len(rest) PROVE rest[i] = both[i]
    <3> DEFINE j == size + i
    <3>1. /\ i \in 1 .. Len(stream) - size /\ j \in 1 .. Len(buffer) + Len(wire)
          /\ i \in 1 .. Len(buffer') + Len(wire) /\ j \in Nat /\ i \in Nat
      BY <1>4, <1>5, <1>7, <2>1, <2>2, <2>3
    <3>2. rest[i] = stream[j]
      BY <2>3, <3>1
    <3>3. CASE i <= Len(buffer')
      <4>1. j <= Len(buffer) /\ i \in 1 .. Len(buffer) - size
        BY <1>4, <1>7, <2>2, <3>1, <3>3
      <4>2. buffer'[i] = buffer[j]
        BY <1>7, <4>1
      <4> HIDE DEF j
      <4>3. stream[j] = buffer[j] /\ both[i] = buffer'[i]
        BY <2>1, <2>4, <3>1, <3>3, <4>1
      <4> QED BY <3>2, <4>2, <4>3
    <3>4. CASE ~(i <= Len(buffer'))
      <4>1. ~(j <= Len(buffer)) /\ j - Len(buffer) = i - Len(buffer')
        BY <1>4, <1>7, <2>2, <3>1, <3>4
      <4> HIDE DEF j
      <4>2. stream[j] = wire[j - Len(buffer)]
        BY <2>1, <3>1, <4>1
      <4>3. both[i] = wire[i - Len(buffer')]
        BY <2>4, <3>1, <3>4
      <4> QED BY <3>2, <4>1, <4>2, <4>3
    <3> QED BY <3>3, <3>4
  <2>7. rest = both
    BY <2>3, <2>4, <2>5, <2>6, SeqEqual
  <2> QED BY <2>7 DEF rest, both
<1>11. InStep'
  <2>1. PICK cut : Framing(cut, stream, Len(got), sent)
    BY <1>2 DEF CodecInvariant, InStep
  <2>2. stream \in Seq(Octets)
    BY <1>4, ConcatProperties
  <2> HIDE DEF stream
  <2>3. \E c : Framing(c, SubSeq(stream, size + 1, Len(stream)), Len(got) + 1, sent)
    BY <1>3, <1>4, <2>1, <2>2, FramingTaken DEF size, p
  <2> QED BY <1>1, <1>6, <1>10, <2>3 DEF InStep
<1>12. AtRest' /\ Dead'
  BY <1>1, <1>2 DEF AtRest, Dead
<1> QED BY <1>8, <1>9, <1>11, <1>12 DEF CodecInvariant

LEMMA PullFailsKeeps ==
  ASSUME CodecInvariant, PullRefused \/ PullUnreadable
  PROVE  CodecInvariant'
<1>1. /\ failed' = TRUE /\ poisoned' = (codec = "tcp") /\ ~poisoned
      /\ UNCHANGED <<codec, sent, wire, drained, got>>
  BY DEF PullRefused, PullUnreadable
<1>2. buffer' = buffer \/ (codec = "tcp" /\ buffer' = Rest /\ Complete /\ ~Refused)
  BY DEF PullRefused, PullUnreadable, AfterUnreadable
<1>3. buffer' \in Seq(Octets)
  <2>1. CASE buffer' = buffer
    BY <2>1 DEF CodecInvariant, Typed
  <2>2. CASE buffer' = Rest /\ Complete
    <3> DEFINE size == HeaderBytes + Declared(buffer)
    <3>1. buffer \in Seq(Octets) /\ Declared(buffer) \in Nat /\ HeaderBytes \in Nat /\ Len(buffer) \in Nat
      BY <2>2, DeclaredIsNat, Parameters DEF CodecInvariant, Typed, Complete
    <3>2. size \in 0 .. Len(buffer) /\ buffer' = SubSeq(buffer, size + 1, Len(buffer))
      BY <2>2, <3>1 DEF Complete, Rest
    <3> HIDE DEF size
    <3> QED BY <3>1, <3>2, Dropped
  <2> QED BY <1>2, <2>1, <2>2
<1>4. Typed' /\ InOrder' /\ InStep' /\ AtRest'
  BY <1>1, <1>3 DEF CodecInvariant, Typed, InOrder, InStep, AtRest
<1>5. Dead'
  <2>1. CASE codec = "tcp"
    BY <1>1, <2>1 DEF Dead
  <2>2. CASE codec # "tcp"
    <3>1. buffer' = buffer /\ (Refused \/ (Complete /\ ~Readable(FrontPayload)))
      BY <1>2, <2>2 DEF PullRefused, PullUnreadable
    <3> QED BY <1>1, <3>1 DEF Dead, Refused, TooLarge, HasHeader, Complete, FrontPayload, Readable
  <2> QED BY <2>1, <2>2
<1> QED BY <1>4, <1>5 DEF CodecInvariant

LEMMA CodecStep == CodecInvariant /\ [Next]_vars => CodecInvariant'
<1> SUFFICES ASSUME CodecInvariant, [Next]_vars PROVE CodecInvariant'
  OBVIOUS
<1> USE DEF CodecInvariant
<1>1. ASSUME NEW p \in Payloads, Send(p) \/ (SendEmpty /\ p = <<>>) PROVE CodecInvariant'
  BY <1>1, SendKeeps DEF Send, SendEmpty
<1>2. ASSUME NEW n \in 1 .. Len(wire), Feed(n) PROVE CodecInvariant'
  BY <1>2, FeedKeeps
<1>3. CASE PullNothing
  <2>1. /\ UNCHANGED <<codec, sent, wire, buffer, poisoned, got, failed>>
        /\ drained' = TRUE /\ (poisoned \/ ~(Refused \/ Complete))
    BY <1>3 DEF PullNothing
  <2>2. Typed' /\ InOrder' /\ InStep'
    BY <2>1 DEF Typed, InOrder, InStep
  <2>3. AtRest' /\ Dead'
    BY <2>1 DEF AtRest, Dead, InStep, Refused, Complete, HasHeader, TooLarge, FrontPayload, Readable
  <2> QED BY <2>2, <2>3
<1>4. CASE PullFrame
  BY <1>4, PullFrameKeeps
<1>5. CASE PullRefused \/ PullUnreadable
  BY <1>5, PullFailsKeeps
<1>6. CASE UNCHANGED vars
  BY <1>6 DEF vars, Typed, InOrder, InStep, AtRest, Dead, Refused, Complete, HasHeader, TooLarge,
              FrontPayload, Readable
<1> QED BY <1>1, <1>2, <1>3, <1>4, <1>5, <1>6 DEF Next, SendEmpty

THEOREM CodecIsInvariant == Spec => []CodecInvariant
BY CodecInit, CodecStep, PTL DEF Spec

(* For every payloads, limits and sizes of the header, and however the     *)
(* bytes are cut into chunks: what the decoder yields is what was encoded, *)
(* in order, with nothing skipped; and once every byte was fed and it was  *)
(* pulled until None without an error, it has yielded all of it.           *)
THEOREM StreamIsReassembled == Spec => []FramesArrive
<1>1. CodecInvariant => FramesArrive
  <2> SUFFICES ASSUME CodecInvariant PROVE FramesArrive
    OBVIOUS
  <2>1. /\ sent \in Seq(Payloads) /\ got \in Seq(Payloads) /\ buffer \in Seq(Octets)
        /\ Len(got) \in Nat /\ Len(sent) \in Nat /\ Len(got) <= Len(sent)
        /\ \A i \in 1 .. Len(got) : got[i] = sent[i]
    BY LenProperties DEF CodecInvariant, Typed, InOrder
  <2>2. got = SubSeq(sent, 1, Len(got))
    <3>1. \A i \in 1 .. Len(got) : sent[i] \in Payloads
      BY <2>1, ElementOfSeq
    <3>2. /\ SubSeq(sent, 1, Len(got)) \in Seq(Payloads)
          /\ Len(SubSeq(sent, 1, Len(got))) = Len(got)
          /\ \A i \in 1 .. Len(got) : SubSeq(sent, 1, Len(got))[i] = sent[i]
      BY <2>1, <3>1, SubSeqProperties
    <3> QED BY <2>1, <3>2, SeqEqual
  <2>3. ASSUME wire = <<>>, drained, ~failed PROVE Len(got) = Len(sent)
    <3> SUFFICES ASSUME Len(got) < Len(sent) PROVE FALSE
      BY <2>1
    <3>1. buffer \o wire = buffer
      BY <2>1, <2>3, ConcatEmptySeq
    <3>2. PICK cut : Framing(cut, buffer, Len(got), sent)
      BY <2>3, <3>1 DEF CodecInvariant, InStep
    <3> DEFINE p == sent[Len(got) + 1]
    <3>3. FrameAt(buffer, 0, p)
      <4>1. Len(got) + 1 \in Len(got) + 1 .. Len(sent) /\ Len(got) + 1 - 1 = Len(got)
        BY <2>1
      <4> QED BY <3>2, <4>1 DEF Framing
    <3>4. p \in Payloads /\ Len(p) \in Nat
      BY <2>1, CodecAssumption
    <3> HIDE DEF p
    <3>5. HeaderBytes + Len(p) <= Len(buffer) /\ HasHeader
      BY <2>1, <3>3, <3>4, Parameters DEF FrameAt, HasHeader
    <3>6. Declared(buffer) = Len(p)
      BY <2>3, <3>5, FrontFrame DEF p
    <3>7. Complete
      BY <2>1, <3>4, <3>5, <3>6, Parameters DEF Complete
    <3> QED BY <2>3, <3>7 DEF CodecInvariant, AtRest
  <2>4. SubSeq(sent, 1, Len(sent)) = sent
    BY <2>1, SubSeqFull
  <2> QED BY <2>2, <2>3, <2>4 DEF FramesArrive
<1> QED BY <1>1, CodecIsInvariant, PTL

(* After an error nothing more is yielded, although the session's decoder  *)
(* keeps no flag and both can be fed and pulled on.                        *)
THEOREM NothingAfterError == Spec => ErrorIsFinal
<1>1. CodecInvariant /\ [Next]_vars => [failed => got' = got]_vars
  <2> SUFFICES ASSUME CodecInvariant, Next, failed PROVE got' = got
    BY DEF vars
  <2>1. ~PullFrame
    BY DEF PullFrame, CodecInvariant, Dead
  <2> QED BY <2>1 DEF Next, Send, SendEmpty, Framed, Feed, PullNothing, PullRefused, PullUnreadable
<1> QED BY <1>1, CodecIsInvariant, PTL DEF Spec, ErrorIsFinal

---------------------------------------------------------------------------
(* The body of a session frame.  A reader is right if it gets back what    *)
(* was put and leaves what followed, and if what it accepts is what would  *)
(* have been put for the value it gives.                                   *)
LEMMA Answers ==
  /\ \A v, s : Got(v, s).ok /\ Got(v, s).value = v /\ Got(v, s).rest = s
  /\ ~Malformed.ok
BY DEF Got, Malformed

LEMMA TakePut ==
  ASSUME NEW a \in Seq(Octets), NEW s \in Seq(Octets)
  PROVE  take(a \o s, Len(a)) = Got(a, s)
<1>1. Len(a) \in Nat /\ Len(s) \in Nat /\ Len(a \o s) = Len(a) + Len(s)
  BY ConcatProperties, LenProperties
<1>2. SubSeq(a \o s, 1, Len(a)) = a
  BY SubSeqOfConcat1, SubSeqFull, <1>1
<1>3. SubSeq(a \o s, Len(a) + 1, Len(a \o s)) = s
  BY SubSeqOfConcat2, SubSeqFull, <1>1
<1>4. ~(Len(a) > Len(a \o s))
  BY <1>1
<1> QED BY <1>2, <1>3, <1>4 DEF take

LEMMA TakeGot ==
  ASSUME NEW bytes \in Seq(Octets), NEW n \in Nat, take(bytes, n).ok
  PROVE  \E a, s \in Seq(Octets) : take(bytes, n) = Got(a, s) /\ Len(a) = n /\ a \o s = bytes
<1> DEFINE a == SubSeq(bytes, 1, n)
           s == SubSeq(bytes, n + 1, Len(bytes))
<1>1. Len(bytes) \in Nat /\ n <= Len(bytes)
  BY Answers DEF take
<1>2. take(bytes, n) = Got(a, s)
  BY <1>1 DEF take
<1>3. \A i \in 1 .. Len(bytes) : bytes[i] \in Octets
  BY ElementOfSeq
<1>4. a \in Seq(Octets) /\ Len(a) = n
  BY <1>1, <1>3, SubSeqProperties
<1>5. s \in Seq(Octets)
  BY <1>1, Dropped
<1>6. a \o s = bytes
  <2>1. 1 <= n + 1 /\ n <= Len(bytes) /\ 1 \in Int
    BY <1>1
  <2>2. a \o s = SubSeq(bytes, 1, Len(bytes))
    <3>1. CASE n = 0
      <4>1. a = <<>> /\ s = SubSeq(bytes, 1, Len(bytes))
        BY <3>1, SubSeqEmpty
      <4> QED BY <4>1, <1>5, ConcatEmptySeq
    <3>2. CASE n # 0
      <4>1. 1 \in 1 .. Len(bytes) + 1 /\ n \in 1 .. Len(bytes)
        BY <1>1, <3>2
      <4> QED BY <4>1, <1>1, ConcatAdjacentSubSeq
    <3> QED BY <3>1, <3>2
  <2> QED BY <2>2, SubSeqFull
<1> QED BY <1>2, <1>4, <1>5, <1>6

LEMMA IntPut ==
  ASSUME NEW w \in Nat, NEW n \in Nat, Fits(n, w), NEW s \in Seq(Octets)
  PROVE  read_int(to_be_bytes(n, w) \o s, w) = Got(n, s)
<1> DEFINE d == to_be_bytes(n, w)
<1>1. d \in Seq(Octets) /\ Len(d) = w
  BY WrittenType
<1>2. from_be_bytes(d, w) = n
  BY DigitsRead
<1> HIDE DEF d
<1>3. take(d \o s, w) = Got(d, s)
  BY <1>1, TakePut
<1> QED BY <1>2, <1>3, Answers DEF read_int, d

LEMMA IntGot ==
  ASSUME NEW bytes \in Seq(Octets), NEW w \in Nat, read_int(bytes, w).ok
  PROVE  \E n \in Nat, s \in Seq(Octets) :
           Fits(n, w) /\ read_int(bytes, w) = Got(n, s) /\ to_be_bytes(n, w) \o s = bytes
<1>1. take(bytes, w).ok
  BY Answers DEF read_int
<1>2. PICK a \in Seq(Octets), s \in Seq(Octets) :
        take(bytes, w) = Got(a, s) /\ Len(a) = w /\ a \o s = bytes
  BY <1>1, TakeGot
<1> DEFINE n == from_be_bytes(a, w)
<1>3. read_int(bytes, w) = Got(n, s)
  BY <1>1, <1>2, Answers DEF read_int
<1>4. \A i \in 1 .. w : a[i] \in Octets
  BY <1>2, ElementOfSeq
<1>5. n \in Nat /\ Fits(n, w) /\ \A i \in 1 .. w : to_be_bytes(n, w)[i] = a[i]
  BY <1>4, DigitsWritten
<1> HIDE DEF n
<1>6. to_be_bytes(n, w) = a
  BY <1>2, <1>5, WrittenType, SeqEqual
<1> QED BY <1>2, <1>3, <1>5, <1>6

LEMMA Widths == Width16 \in Nat /\ Width32 \in Nat /\ Width64 \in Nat
BY FrameAssumption

LEMMA VectorFits ==
  ASSUME NEW v \in ByteVectors
  PROVE  v \in Seq(Octets) /\ Len(v) \in Nat /\ Fits(Len(v), Width32)
BY LenProperties DEF ByteVectors

LEMMA BytesPut ==
  ASSUME NEW v \in ByteVectors, NEW s \in Seq(Octets)
  PROVE  put_bytes(v) \in Seq(Octets) /\ read_bytes(put_bytes(v) \o s) = Got(v, s)
<1> DEFINE d == to_be_bytes(Len(v), Width32)
<1>1. v \in Seq(Octets) /\ Len(v) \in Nat /\ Fits(Len(v), Width32) /\ Width32 \in Nat
  BY VectorFits, Widths
<1>2. d \in Seq(Octets)
  BY <1>1, WrittenType
<1>3. put_bytes(v) = d \o v
  BY DEF put_bytes
<1>4. v \o s \in Seq(Octets) /\ d \o v \in Seq(Octets)
  BY <1>1, <1>2, ConcatProperties
<1>5. read_int(d \o (v \o s), Width32) = Got(Len(v), v \o s)
  BY <1>1, <1>4, IntPut
<1> HIDE DEF d
<1>6. (d \o v) \o s = d \o (v \o s)
  BY <1>1, <1>2, ConcatAssociative, SMTT(30)
<1>7. take(v \o s, Len(v)) = Got(v, s)
  BY <1>1, TakePut
<1> QED BY <1>3, <1>4, <1>5, <1>6, <1>7, Answers DEF read_bytes

LEMMA BytesGot ==
  ASSUME NEW bytes \in Seq(Octets), read_bytes(bytes).ok
  PROVE  \E v \in ByteVectors, s \in Seq(Octets) :
           read_bytes(bytes) = Got(v, s) /\ put_bytes(v) \o s = bytes
<1>1. read_int(bytes, Width32).ok
  BY Answers DEF read_bytes
<1>2. PICK n \in Nat, t \in Seq(Octets) :
        /\ Fits(n, Width32) /\ read_int(bytes, Width32) = Got(n, t)
        /\ to_be_bytes(n, Width32) \o t = bytes
  BY <1>1, IntGot, Widths
<1>3. read_bytes(bytes) = take(t, n)
  BY <1>1, <1>2, Answers DEF read_bytes
<1>4. PICK v \in Seq(Octets), s \in Seq(Octets) : take(t, n) = Got(v, s) /\ Len(v) = n /\ v \o s = t
  BY <1>3, TakeGot
<1>5. v \in ByteVectors
  BY <1>2, <1>4 DEF ByteVectors
<1>6. put_bytes(v) \o s = bytes
  <2>1. to_be_bytes(n, Width32) \in Seq(Octets)
    BY WrittenType, Widths
  <2>2. put_bytes(v) = to_be_bytes(n, Width32) \o v
    BY <1>4 DEF put_bytes
  <2> DEFINE d == to_be_bytes(n, Width32)
  <2>3. bytes = d \o (v \o s) /\ put_bytes(v) = d \o v
    BY <1>2, <1>4, <2>2
  <2>4. d \in Seq(Octets) /\ v \in Seq(Octets) /\ s \in Seq(Octets)
    BY <1>4, <2>1
  <2> HIDE DEF d
  <2>5. (d \o v) \o s = d \o (v \o s)
    BY <2>4, ConcatAssociative, SMTT(30)
  <2> QED BY <2>3, <2>5
<1> QED BY <1>3, <1>4, <1>5, <1>6

LEMMA ByteIsSeq ==
  ASSUME NEW b \in Octets, NEW s \in Seq(Octets)
  PROVE  /\ <<b>> \in Seq(Octets) /\ Len(<<b>>) = 1 /\ <<b>>[1] = b
         /\ take(<<b>> \o s, 1) = Got(<<b>>, s)
<1>1. <<b>> \in Seq(Octets) /\ Len(<<b>>) = 1 /\ <<b>>[1] = b
  OBVIOUS
<1> QED BY <1>1, TakePut

LEMMA ByteGot ==
  ASSUME NEW bytes \in Seq(Octets), take(bytes, 1).ok
  PROVE  \E b \in Octets, s \in Seq(Octets) : take(bytes, 1) = Got(<<b>>, s) /\ <<b>> \o s = bytes
<1>1. PICK a \in Seq(Octets), s \in Seq(Octets) :
        take(bytes, 1) = Got(a, s) /\ Len(a) = 1 /\ a \o s = bytes
  BY TakeGot
<1>2. a[1] \in Octets
  <2>1. 1 \in 1 .. Len(a)
    BY <1>1
  <2> QED BY <2>1, ElementOfSeq
<1>3. a = <<a[1]>>
  <2>1. <<a[1]>> \in Seq(Octets) /\ Len(<<a[1]>>) = 1 /\ <<a[1]>>[1] = a[1]
    BY <1>2
  <2>2. \A i \in 1 .. Len(a) : a[i] = <<a[1]>>[i]
    BY <1>1, <2>1
  <2> QED BY <1>1, <2>1, <2>2, SeqEqual
<1> QED BY <1>1, <1>2, <1>3

---------------------------------------------------------------------------
PlainTypes == IntegerTypes \cup {"bytes", "str", "bool", "code"}

LEMMA TagsAreBytes == Len(Written) = 13 /\ 0 .. 13 \subseteq Octets /\ Codes \subseteq Octets
<1>1. Len(Written) = 13
  BY DEF Written
<1>2. Base \in Nat /\ Base > 13
  BY <1>1, FrameAssumption, BaseAssumption
<1> QED BY <1>1, <1>2 DEF Octets, Codes

LEMMA PlainPut ==
  ASSUME NEW type \in PlainTypes, NEW v \in Plain(type), NEW s \in Seq(Octets)
  PROVE  /\ put_plain(type, v) \in Seq(Octets)
         /\ read_plain(type, put_plain(type, v) \o s) = Got(v, s)
<1>1. CASE type \in IntegerTypes
  <2> DEFINE w == BytesOf(type)
  <2>1. w \in Nat
    BY <1>1, Widths DEF IntegerTypes, BytesOf
  <2>2. v \in Nat /\ Fits(v, w)
    BY <1>1 DEF Plain, IntegerTypes
  <2>3. put_plain(type, v) = to_be_bytes(v, w)
    BY <1>1 DEF put_plain, IntegerTypes
  <2>4. \A bytes : read_plain(type, bytes) = read_int(bytes, w)
    BY <1>1 DEF read_plain, IntegerTypes
  <2> HIDE DEF w
  <2> QED BY <2>1, <2>2, <2>3, <2>4, IntPut, WrittenType
<1>2. CASE type = "bytes"
  <2>1. v \in ByteVectors /\ put_plain(type, v) = put_bytes(v)
    BY <1>2 DEF Plain, put_plain, IntegerTypes
  <2>2. \A bytes : read_plain(type, bytes) = read_bytes(bytes)
    BY <1>2 DEF read_plain, IntegerTypes
  <2> QED BY <2>1, <2>2, BytesPut
<1>3. CASE type = "str"
  <2>1. v \in ByteVectors /\ Utf8(v) /\ put_plain(type, v) = put_bytes(v)
    BY <1>3 DEF Plain, put_plain, IntegerTypes
  <2>2. \A bytes : read_plain(type, bytes) = read_str(bytes)
    BY <1>3 DEF read_plain, IntegerTypes
  <2>3. put_bytes(v) \in Seq(Octets) /\ read_bytes(put_bytes(v) \o s) = Got(v, s)
    BY <2>1, BytesPut
  <2>4. read_str(put_bytes(v) \o s) = Got(v, s)
    BY <2>1, <2>3, Answers DEF read_str
  <2> QED BY <2>1, <2>2, <2>3, <2>4
<1>4. CASE type = "bool"
  <2> DEFINE b == IF v THEN 1 ELSE 0
  <2>1. v \in BOOLEAN /\ put_plain(type, v) = <<b>>
    BY <1>4 DEF Plain, put_plain, IntegerTypes
  <2>2. \A bytes : read_plain(type, bytes) = read_bool(bytes)
    BY <1>4 DEF read_plain, IntegerTypes
  <2>3. b \in Octets /\ b \in {0, 1} /\ (b = 1) = v
    BY <2>1, TagsAreBytes
  <2> HIDE DEF b
  <2>4. <<b>> \in Seq(Octets) /\ <<b>>[1] = b /\ take(<<b>> \o s, 1) = Got(<<b>>, s)
    BY <2>3, ByteIsSeq
  <2>5. read_bool(<<b>> \o s) = Got(b = 1, s)
    BY <2>3, <2>4, Answers DEF read_bool
  <2> QED BY <2>1, <2>2, <2>3, <2>4, <2>5
<1>5. CASE type = "code"
  <2>1. v \in Codes /\ put_plain(type, v) = <<v>>
    BY <1>5 DEF Plain, put_plain, IntegerTypes
  <2>2. \A bytes : read_plain(type, bytes) = read_code(bytes)
    BY <1>5 DEF read_plain, IntegerTypes
  <2>3. <<v>> \in Seq(Octets) /\ <<v>>[1] = v /\ take(<<v>> \o s, 1) = Got(<<v>>, s)
    BY <2>1, TagsAreBytes, ByteIsSeq
  <2>4. read_code(<<v>> \o s) = Got(v, s)
    BY <2>1, <2>3, Answers DEF read_code
  <2> QED BY <2>1, <2>2, <2>3, <2>4
<1> QED BY <1>1, <1>2, <1>3, <1>4, <1>5 DEF PlainTypes

LEMMA PlainGot ==
  ASSUME NEW type \in PlainTypes, NEW bytes \in Seq(Octets), read_plain(type, bytes).ok
  PROVE  \E v \in Plain(type), s \in Seq(Octets) :
           read_plain(type, bytes) = Got(v, s) /\ put_plain(type, v) \o s = bytes
<1>1. CASE type \in IntegerTypes
  <2> DEFINE w == BytesOf(type)
  <2>1. w \in Nat
    BY <1>1, Widths DEF IntegerTypes, BytesOf
  <2>2. \A v : v \in Plain(type) <=> v \in Nat /\ Fits(v, w)
    BY <1>1 DEF Plain, IntegerTypes
  <2>3. \A v : put_plain(type, v) = to_be_bytes(v, w)
    BY <1>1 DEF put_plain, IntegerTypes
  <2>4. read_plain(type, bytes) = read_int(bytes, w)
    BY <1>1 DEF read_plain, IntegerTypes
  <2> HIDE DEF w
  <2>5. PICK n \in Nat, s \in Seq(Octets) :
          Fits(n, w) /\ read_int(bytes, w) = Got(n, s) /\ to_be_bytes(n, w) \o s = bytes
    BY <2>1, <2>4, IntGot
  <2> QED BY <2>2, <2>3, <2>4, <2>5
<1>2. CASE type = "bytes"
  <2>1. Plain(type) = ByteVectors /\ \A v : put_plain(type, v) = put_bytes(v)
    BY <1>2 DEF Plain, put_plain, IntegerTypes
  <2>2. read_plain(type, bytes) = read_bytes(bytes)
    BY <1>2 DEF read_plain, IntegerTypes
  <2> QED BY <2>1, <2>2, BytesGot
<1>3. CASE type = "str"
  <2>1. Plain(type) = {text \in ByteVectors : Utf8(text)} /\ \A v : put_plain(type, v) = put_bytes(v)
    BY <1>3 DEF Plain, put_plain, IntegerTypes
  <2>2. read_plain(type, bytes) = read_str(bytes)
    BY <1>3 DEF read_plain, IntegerTypes
  <2>3. read_bytes(bytes).ok /\ Utf8(read_bytes(bytes).value) /\ read_str(bytes) = read_bytes(bytes)
    BY <2>2, Answers DEF read_str
  <2>4. PICK v \in ByteVectors, s \in Seq(Octets) :
          read_bytes(bytes) = Got(v, s) /\ put_bytes(v) \o s = bytes
    BY <2>3, BytesGot
  <2>5. Utf8(v)
    BY <2>3, <2>4, Answers
  <2> QED BY <2>1, <2>2, <2>3, <2>4, <2>5
<1>4. CASE type = "bool"
  <2>1. Plain(type) = BOOLEAN /\ \A v : put_plain(type, v) = <<IF v THEN 1 ELSE 0>>
    BY <1>4 DEF Plain, put_plain, IntegerTypes
  <2>2. read_plain(type, bytes) = read_bool(bytes)
    BY <1>4 DEF read_plain, IntegerTypes
  <2>3. take(bytes, 1).ok /\ take(bytes, 1).value[1] \in {0, 1}
    BY <2>2, Answers DEF read_bool
  <2>4. PICK b \in Octets, s \in Seq(Octets) : take(bytes, 1) = Got(<<b>>, s) /\ <<b>> \o s = bytes
    BY <2>3, ByteGot
  <2>5. b \in {0, 1}
    BY <2>3, <2>4, Answers
  <2> DEFINE v == b = 1
  <2>6. read_bool(bytes) = Got(v, s)
    BY <2>3, <2>4, <2>5, Answers DEF read_bool
  <2>7. v \in BOOLEAN /\ (IF v THEN 1 ELSE 0) = b
    BY <2>5
  <2> HIDE DEF v
  <2> QED BY <2>1, <2>2, <2>4, <2>6, <2>7
<1>5. CASE type = "code"
  <2>1. Plain(type) = Codes /\ \A v : put_plain(type, v) = <<v>>
    BY <1>5 DEF Plain, put_plain, IntegerTypes
  <2>2. read_plain(type, bytes) = read_code(bytes)
    BY <1>5 DEF read_plain, IntegerTypes
  <2>3. take(bytes, 1).ok /\ take(bytes, 1).value[1] \in Codes
    BY <2>2, Answers DEF read_code
  <2>4. PICK b \in Octets, s \in Seq(Octets) : take(bytes, 1) = Got(<<b>>, s) /\ <<b>> \o s = bytes
    BY <2>3, ByteGot
  <2>5. b \in Codes
    BY <2>3, <2>4, Answers
  <2>6. read_code(bytes) = Got(b, s)
    BY <2>3, <2>4, <2>5, Answers DEF read_code
  <2> QED BY <2>1, <2>2, <2>4, <2>5, <2>6
<1> QED BY <1>1, <1>2, <1>3, <1>4, <1>5 DEF PlainTypes

FieldTypes == PlainTypes \cup Optional

LEMMA InnerIsPlain ==
  ASSUME NEW type \in FieldTypes
  PROVE  IF type \in Optional THEN Inner(type) \in PlainTypes ELSE type \in PlainTypes
BY DEF FieldTypes, PlainTypes, Optional, Inner, IntegerTypes

LEMMA FieldPut ==
  ASSUME NEW type \in FieldTypes, NEW v, Holds(type, v), NEW s \in Seq(Octets)
  PROVE  put(type, v) \in Seq(Octets) /\ read(type, put(type, v) \o s) = Got(v, s)
<1>1. CASE type \notin Optional
  <2>1. v \in Plain(type) /\ put(type, v) = put_plain(type, v) /\ type \in PlainTypes
    BY <1>1, InnerIsPlain DEF Holds, put
  <2>2. \A bytes : read(type, bytes) = read_plain(type, bytes)
    BY <1>1 DEF read
  <2> QED BY <2>1, <2>2, PlainPut
<1>2. CASE type \in Optional /\ v = <<>>
  <2>1. put(type, v) = <<0>>
    BY <1>2 DEF put
  <2>2. <<0>> \in Seq(Octets) /\ <<0>>[1] = 0 /\ take(<<0>> \o s, 1) = Got(<<0>>, s)
    BY TagsAreBytes, ByteIsSeq
  <2>3. read(type, <<0>> \o s) = Got(<<>>, s)
    BY <1>2, <2>2, Answers DEF read
  <2> QED BY <1>2, <2>1, <2>2, <2>3
<1>3. CASE type \in Optional /\ v # <<>>
  <2> DEFINE inner == Inner(type)
             x == v[1]
             p == put_plain(inner, x)
  <2>1. v = <<x>> /\ x \in Plain(inner) /\ inner \in PlainTypes
    BY <1>3, InnerIsPlain DEF Holds
  <2>2. put(type, v) = <<1>> \o p
    BY <1>3 DEF put
  <2>3. p \in Seq(Octets) /\ read_plain(inner, p \o s) = Got(x, s)
    <3> HIDE DEF inner, x
    <3> QED BY <2>1, PlainPut
  <2>4. read_some(inner, p \o s) = Got(v, s)
    <3> HIDE DEF inner, x, p
    <3> QED BY <2>1, <2>3, Answers DEF read_some
  <2> HIDE DEF x, p
  <2>5. 1 \in Octets
    BY TagsAreBytes
  <2>6. p \o s \in Seq(Octets) /\ <<1>> \in Seq(Octets) /\ <<1>>[1] = 1
    BY <2>3, <2>5, ByteIsSeq, ConcatProperties
  <2>7. take(<<1>> \o (p \o s), 1) = Got(<<1>>, p \o s)
    BY <2>5, <2>6, ByteIsSeq
  <2>8. read(type, <<1>> \o (p \o s)) = Got(v, s)
    BY <1>3, <2>4, <2>6, <2>7, Answers DEF read
  <2>9. (<<1>> \o p) \o s = <<1>> \o (p \o s) /\ <<1>> \o p \in Seq(Octets)
    BY <2>3, <2>6, ConcatAssociative, ConcatProperties
  <2> QED BY <2>2, <2>8, <2>9
<1> QED BY <1>1, <1>2, <1>3

LEMMA FieldGot ==
  ASSUME NEW type \in FieldTypes, NEW bytes \in Seq(Octets), read(type, bytes).ok
  PROVE  \E v, s : /\ Holds(type, v) /\ s \in Seq(Octets)
                   /\ read(type, bytes) = Got(v, s) /\ put(type, v) \o s = bytes
<1>1. CASE type \notin Optional
  <2>1. /\ \A v : v \in Plain(type) => Holds(type, v)
        /\ \A v : put(type, v) = put_plain(type, v)
        /\ type \in PlainTypes
    BY <1>1, InnerIsPlain DEF Holds, put
  <2>2. read(type, bytes) = read_plain(type, bytes)
    BY <1>1 DEF read
  <2>3. PICK v \in Plain(type), s \in Seq(Octets) :
          read_plain(type, bytes) = Got(v, s) /\ put_plain(type, v) \o s = bytes
    BY <2>1, <2>2, PlainGot
  <2> QED BY <2>1, <2>2, <2>3
<1>2. CASE type \in Optional
  <2>1. take(bytes, 1).ok
    BY <1>2, Answers DEF read
  <2>2. PICK b \in Octets, t \in Seq(Octets) : take(bytes, 1) = Got(<<b>>, t) /\ <<b>> \o t = bytes
    BY <2>1, ByteGot
  <2>3. take(bytes, 1).value[1] = b /\ take(bytes, 1).rest = t
    BY <2>2, Answers
  <2>4. CASE b = 0
    <3>1. read(type, bytes) = Got(<<>>, t)
      BY <1>2, <2>1, <2>3, <2>4 DEF read
    <3>2. Holds(type, <<>>) /\ put(type, <<>>) = <<0>>
      BY <1>2 DEF Holds, put
    <3> QED BY <2>2, <2>4, <3>1, <3>2
  <2>5. CASE b = 1
    <3> DEFINE inner == Inner(type)
    <3>1. inner \in PlainTypes
      BY <1>2, InnerIsPlain
    <3>2. read(type, bytes) = read_some(inner, t)
      BY <1>2, <2>1, <2>3, <2>5 DEF read
    <3>3. \A v : v \in Plain(inner) => Holds(type, <<v>>) /\ put(type, <<v>>) = <<1>> \o put_plain(inner, v)
      BY <1>2 DEF Holds, put
    <3> HIDE DEF inner
    <3>4. read_plain(inner, t).ok
      BY <3>2, Answers DEF read_some
    <3>5. PICK v \in Plain(inner), s \in Seq(Octets) :
            read_plain(inner, t) = Got(v, s) /\ put_plain(inner, v) \o s = t
      BY <3>1, <3>4, PlainGot
    <3>6. read(type, bytes) = Got(<<v>>, s)
      BY <3>2, <3>4, <3>5, Answers DEF read_some
    <3> DEFINE p == put_plain(inner, v)
    <3>7. p \in Seq(Octets)
      BY <3>1, <3>5, PlainPut
    <3>8. bytes = <<1>> \o (p \o s) /\ put(type, <<v>>) = <<1>> \o p
      BY <2>2, <2>5, <3>3, <3>5
    <3> HIDE DEF p
    <3>9. <<1>> \in Seq(Octets) /\ s \in Seq(Octets)
      BY TagsAreBytes, ByteIsSeq, <3>5
    <3>10. (<<1>> \o p) \o s = <<1>> \o (p \o s)
      BY <3>7, <3>9, ConcatAssociative, SMTT(30)
    <3>11. Holds(type, <<v>>)
      BY <3>3
    <3> QED BY <3>5, <3>6, <3>8, <3>10, <3>11
  <2>6. b \in {0, 1}
    BY <1>2, <2>1, <2>3, Answers DEF read
  <2> QED BY <2>4, <2>5, <2>6
<1> QED BY <1>1, <1>2

---------------------------------------------------------------------------
(* Both orders of fields are the same, and every field has a type.         *)
LEMMA Layout ==
  /\ Expected = Written
  /\ DOMAIN Written = 1 .. Len(Written)
  /\ \A t \in 1 .. Len(Written) :
       Len(Written[t]) \in Nat /\ \A i \in 1 .. Len(Written[t]) : Written[t][i] \in FieldTypes
<1>1. Expected = Written
  BY DEF Expected, Written
<1>2. Written \in Seq(Seq(FieldTypes))
  BY DEF Written, FieldTypes, PlainTypes, IntegerTypes, Optional
<1>3. DOMAIN Written = 1 .. Len(Written)
  BY <1>2, LenProperties
<1>4. ASSUME NEW t \in 1 .. Len(Written)
      PROVE  Len(Written[t]) \in Nat /\ \A i \in 1 .. Len(Written[t]) : Written[t][i] \in FieldTypes
  <2>1. Written[t] \in Seq(FieldTypes)
    BY <1>2, ElementOfSeq
  <2> QED BY <2>1, LenProperties, ElementOfSeq
<1> QED BY <1>1, <1>3, <1>4

(* The fields' bytes, field by field.                                      *)
Out(g, tag, types, fields, n) ==
  g[0] = <<tag>> /\ \A i \in 1 .. n : g[i] = g[i - 1] \o put(types[i], fields[i])
IsOut(g, tag, types, fields, n) ==
  g = [i \in 0 .. n |-> IF i = 0 THEN <<tag>> ELSE g[i - 1] \o put(types[i], fields[i])]

LEMMA OutExists ==
  ASSUME NEW tag, NEW types, NEW fields, NEW n \in Nat
  PROVE  \E g : IsOut(g, tag, types, fields, n)
<1> DEFINE T == {m \in Nat : \E g : IsOut(g, tag, types, fields, m)}
<1>1. 0 \in T
  <2> DEFINE g == [i \in 0 .. 0 |-> <<tag>>]
  <2>1. IsOut(g, tag, types, fields, 0)
    BY DEF IsOut
  <2> QED BY <2>1
<1>2. ASSUME NEW m \in Nat, m \in T PROVE m + 1 \in T
  <2>1. PICK f : IsOut(f, tag, types, fields, m)
    BY <1>2
  <2> DEFINE g == [i \in 0 .. m + 1 |->
                     IF i = m + 1 THEN f[m] \o put(types[m + 1], fields[m + 1]) ELSE f[i]]
  <2>2. \A i \in 0 .. m : f[i] = IF i = 0 THEN <<tag>> ELSE f[i - 1] \o put(types[i], fields[i])
    BY <2>1 DEF IsOut
  <2>3. \A i \in 0 .. m + 1 : g[i] = IF i = 0 THEN <<tag>> ELSE g[i - 1] \o put(types[i], fields[i])
    BY <2>2
  <2>4. g = [i \in 0 .. m + 1 |-> IF i = 0 THEN <<tag>> ELSE g[i - 1] \o put(types[i], fields[i])]
    BY <2>3
  <2>5. IsOut(g, tag, types, fields, m + 1)
    BY <2>4 DEF IsOut
  <2> QED BY <2>5
<1> HIDE DEF T
<1>3. Nat \subseteq T
  BY <1>1, <1>2, SetInduction
<1> QED BY <1>3 DEF T

LEMMA EncodeIsOut ==
  ASSUME NEW f, NEW n, n = Len(Written[f.tag]), n \in Nat
  PROVE  \E g : Out(g, f.tag, Written[f.tag], f.fields, n) /\ encode(f) = g[n]
<1> DEFINE g == CHOOSE g : g = [i \in 0 .. Len(Written[f.tag]) |->
                  IF i = 0 THEN <<f.tag>> ELSE g[i - 1] \o put(Written[f.tag][i], f.fields[i])]
<1>1. \E h : h = [i \in 0 .. n |->
                  IF i = 0 THEN <<f.tag>> ELSE h[i - 1] \o put(Written[f.tag][i], f.fields[i])]
  <2>1. \E h : IsOut(h, f.tag, Written[f.tag], f.fields, n)
    BY OutExists
  <2> QED BY <2>1 DEF IsOut
<1>2. g = [i \in 0 .. n |->
              IF i = 0 THEN <<f.tag>> ELSE g[i - 1] \o put(Written[f.tag][i], f.fields[i])]
  BY <1>1
<1>3. encode(f) = g[n]
  BY DEF encode
<1> HIDE DEF g
<1>4. \A i \in 0 .. n : g[i] = IF i = 0 THEN <<f.tag>> ELSE g[i - 1] \o put(Written[f.tag][i], f.fields[i])
  BY <1>2
<1>5. Out(g, f.tag, Written[f.tag], f.fields, n)
  <2>1. 0 \in 0 .. n /\ \A i \in 1 .. n : i \in 0 .. n /\ i # 0
    OBVIOUS
  <2> QED BY <1>4, <2>1 DEF Out
<1> QED BY <1>3, <1>5

(* The answers of the Reader, field by field.                              *)
After(h, bytes, types, n) ==
  h[0] = Got(<<>>, Tail(bytes)) /\ \A i \in 1 .. n : h[i] = NextField(h[i - 1], types[i])
IsAfter(h, bytes, types, n) ==
  h = [i \in 0 .. n |-> IF i = 0 THEN Got(<<>>, Tail(bytes)) ELSE NextField(h[i - 1], types[i])]

LEMMA AfterExists ==
  ASSUME NEW bytes, NEW types, NEW n \in Nat
  PROVE  \E h : IsAfter(h, bytes, types, n)
<1> DEFINE T == {m \in Nat : \E h : IsAfter(h, bytes, types, m)}
<1>1. 0 \in T
  <2> DEFINE h == [i \in 0 .. 0 |-> Got(<<>>, Tail(bytes))]
  <2>1. IsAfter(h, bytes, types, 0)
    BY DEF IsAfter
  <2> QED BY <2>1
<1>2. ASSUME NEW m \in Nat, m \in T PROVE m + 1 \in T
  <2>1. PICK f : IsAfter(f, bytes, types, m)
    BY <1>2
  <2> DEFINE h == [i \in 0 .. m + 1 |-> IF i = m + 1 THEN NextField(f[m], types[m + 1]) ELSE f[i]]
  <2>2. \A i \in 0 .. m : f[i] = IF i = 0 THEN Got(<<>>, Tail(bytes)) ELSE NextField(f[i - 1], types[i])
    BY <2>1 DEF IsAfter
  <2>3. \A i \in 0 .. m + 1 : h[i] = IF i = 0 THEN Got(<<>>, Tail(bytes)) ELSE NextField(h[i - 1], types[i])
    BY <2>2
  <2>4. h = [i \in 0 .. m + 1 |-> IF i = 0 THEN Got(<<>>, Tail(bytes)) ELSE NextField(h[i - 1], types[i])]
    BY <2>3
  <2>5. IsAfter(h, bytes, types, m + 1)
    BY <2>4 DEF IsAfter
  <2> QED BY <2>5
<1> HIDE DEF T
<1>3. Nat \subseteq T
  BY <1>1, <1>2, SetInduction
<1> QED BY <1>3 DEF T

LEMMA DecodeIsAfter ==
  ASSUME NEW bytes, bytes # <<>>, bytes[1] \in 1 .. Len(Written), NEW n, n = Len(Written[bytes[1]])
  PROVE  \E h : /\ After(h, bytes, Written[bytes[1]], n)
                /\ decode(bytes) =
                     IF ~h[n].ok \/ NotDone(h[n].rest) THEN Malformed
                     ELSE Got([tag |-> bytes[1], fields |-> h[n].value], <<>>)
<1> DEFINE types == Expected[bytes[1]]
           h == CHOOSE h : h = [i \in 0 .. Len(types) |->
                  IF i = 0 THEN Got(<<>>, Tail(bytes)) ELSE NextField(h[i - 1], types[i])]
<1>1. types = Written[bytes[1]] /\ n \in Nat /\ bytes[1] \in DOMAIN Expected
  BY Layout
<1>2. \E f : f = [i \in 0 .. n |->
                  IF i = 0 THEN Got(<<>>, Tail(bytes)) ELSE NextField(f[i - 1], types[i])]
  <2> HIDE DEF types
  <2>1. \E f : IsAfter(f, bytes, types, n)
    BY <1>1, AfterExists
  <2> QED BY <2>1 DEF IsAfter
<1>3. h = [i \in 0 .. n |-> IF i = 0 THEN Got(<<>>, Tail(bytes)) ELSE NextField(h[i - 1], types[i])]
  <2>1. Len(types) = n
    BY <1>1
  <2> HIDE DEF types
  <2> QED BY <1>2, <2>1
<1>4. decode(bytes) = IF ~h[n].ok \/ NotDone(h[n].rest) THEN Malformed
                      ELSE Got([tag |-> bytes[1], fields |-> h[n].value], <<>>)
  BY <1>1 DEF decode
<1> HIDE DEF h
<1>5. \A i \in 0 .. n : h[i] = IF i = 0 THEN Got(<<>>, Tail(bytes)) ELSE NextField(h[i - 1], types[i])
  <2> HIDE DEF types
  <2> QED BY <1>3
<1>6. After(h, bytes, Written[bytes[1]], n)
  <2> HIDE DEF types
  <2> QED BY <1>1, <1>5 DEF After
<1> QED BY <1>4, <1>6

(* What fields can hold, so that the fields of a frame are a sequence.     *)
PlainValues == UNION {Plain(type) : type \in PlainTypes}
FieldValues == PlainValues \cup {<<>>} \cup {<<v>> : v \in PlainValues}

LEMMA HoldsValue ==
  ASSUME NEW type \in FieldTypes, NEW v, Holds(type, v)
  PROVE  v \in FieldValues
<1>1. CASE type \notin Optional
  <2>1. type \in PlainTypes /\ v \in Plain(type)
    BY <1>1, InnerIsPlain DEF Holds
  <2> QED BY <2>1 DEF FieldValues, PlainValues
<1>2. CASE type \in Optional
  <2>1. Inner(type) \in PlainTypes
    BY <1>2, InnerIsPlain
  <2>2. v = <<>> \/ \E x \in Plain(Inner(type)) : v = <<x>>
    BY <1>2 DEF Holds
  <2>3. \A x \in Plain(Inner(type)) : x \in PlainValues
    BY <2>1 DEF PlainValues
  <2>4. v = <<>> \/ \E x \in PlainValues : v = <<x>>
    BY <2>2, <2>3
  <2> QED BY <2>4 DEF FieldValues
<1> QED BY <1>1, <1>2

LEMMA FirstFields ==
  ASSUME NEW x, NEW n \in Nat, \A i \in 1 .. n : x[i] \in FieldValues
  PROVE  /\ \A i \in 0 .. n : [j \in 1 .. i |-> x[j]] \in Seq(FieldValues)
         /\ [j \in 1 .. 0 |-> x[j]] = <<>>
         /\ \A i \in 0 .. n - 1 :
              Append([j \in 1 .. i |-> x[j]], x[i + 1]) = [j \in 1 .. i + 1 |-> x[j]]
<1>1. ASSUME NEW i \in 0 .. n
      PROVE  [j \in 1 .. i |-> x[j]] \in Seq(FieldValues) /\ Len([j \in 1 .. i |-> x[j]]) = i
  <2> DEFINE s == [j \in 1 .. i |-> x[j]]
  <2>1. i \in Nat /\ s \in [1 .. i -> FieldValues]
    OBVIOUS
  <2>2. s \in Seq(FieldValues)
    BY <2>1, SeqDef
  <2> QED BY <2>1, <2>2, LenProperties
<1>2. [j \in 1 .. 0 |-> x[j]] = <<>>
  <2>1. 0 \in 0 .. n
    OBVIOUS
  <2> DEFINE s == [j \in 1 .. 0 |-> x[j]]
  <2>2. s \in Seq(FieldValues) /\ Len(s) = 0
    BY <1>1, <2>1
  <2> HIDE DEF s
  <2> QED BY <2>2, EmptySeq DEF s
<1>3. ASSUME NEW i \in 0 .. n - 1
      PROVE  Append([j \in 1 .. i |-> x[j]], x[i + 1]) = [j \in 1 .. i + 1 |-> x[j]]
  <2> DEFINE s == [j \in 1 .. i |-> x[j]]
             t == [j \in 1 .. i + 1 |-> x[j]]
             u == Append(s, x[i + 1])
  <2>1. i \in 0 .. n /\ i + 1 \in 0 .. n /\ i + 1 \in 1 .. n /\ i \in Nat
    OBVIOUS
  <2>2. /\ s \in Seq(FieldValues) /\ Len(s) = i /\ t \in Seq(FieldValues) /\ Len(t) = i + 1
        /\ x[i + 1] \in FieldValues
    BY <1>1, <2>1
  <2>3. (\A j \in 1 .. i : s[j] = x[j]) /\ \A j \in 1 .. i + 1 : t[j] = x[j]
    OBVIOUS
  <2> HIDE DEF s, t
  <2>4. /\ u \in Seq(FieldValues) /\ Len(u) = i + 1
        /\ (\A j \in 1 .. i : u[j] = s[j]) /\ u[i + 1] = x[i + 1]
    BY <2>2, AppendProperties
  <2> HIDE DEF u
  <2>5. \A j \in 1 .. i + 1 : u[j] = t[j]
    BY <2>1, <2>3, <2>4
  <2>6. u = t
    BY <2>2, <2>4, <2>5, SeqEqual
  <2> QED BY <2>6 DEF u, s, t
<1> QED BY <1>1, <1>2, <1>3

(* A frame is encoded into bytes that begin with its tag.                  *)
Filled(tag, x, n) ==
  /\ tag \in 1 .. Len(Written) /\ n = Len(Written[tag])
  /\ \A i \in 1 .. n : Holds(Written[tag][i], x[i])

Grows(g, n) ==
  /\ \A i \in 0 .. n : g[i] \in Seq(Octets)
  /\ \A i \in 0 .. n : \E s \in Seq(Octets) : g[n] = g[i] \o s

LEMMA OutType ==
  ASSUME NEW tag, NEW x, NEW n, Filled(tag, x, n), NEW g, Out(g, tag, Written[tag], x, n)
  PROVE  Grows(g, n)
<1> DEFINE types == Written[tag]
<1>0. tag \in 1 .. Len(Written) /\ n = Len(types) /\ \A i \in 1 .. n : Holds(types[i], x[i])
  BY DEF Filled
<1>1. n \in Nat /\ \A i \in 1 .. n : types[i] \in FieldTypes
  BY <1>0, Layout
<1>2. \A i \in 1 .. n : put(types[i], x[i]) \in Seq(Octets)
  <2>1. <<>> \in Seq(Octets)
    OBVIOUS
  <2> QED BY <1>0, <1>1, <2>1, FieldPut
<1>3. g[0] \in Seq(Octets)
  <2>1. g[0] = <<tag>> /\ tag \in Octets
    BY <1>0, TagsAreBytes DEF Out
  <2> QED BY <2>1
<1>4. \A i \in 1 .. n : g[i] = g[i - 1] \o put(types[i], x[i])
  BY DEF Out
<1> HIDE DEF types
<1>5. ASSUME NEW i \in 1 .. n, g[i - 1] \in Seq(Octets) PROVE g[i] \in Seq(Octets)
  BY <1>2, <1>4, <1>5, ConcatProperties
<1>6. \A i \in 0 .. n : g[i] \in Seq(Octets)
  <2> DEFINE T == {i \in 0 .. n : g[i] \in Seq(Octets)}
  <2>1. 0 \in T /\ \A i \in 1 .. n : i - 1 \in T => i \in T
    BY <1>1, <1>3, <1>5
  <2> HIDE DEF T
  <2>2. 0 .. n \subseteq T
    BY <1>1, <2>1, Upwards
  <2> QED BY <2>2 DEF T
<1> DEFINE Begins(i) == \E s \in Seq(Octets) : g[n] = g[i] \o s
<1>7. Begins(n)
  <2>1. n \in 0 .. n /\ <<>> \in Seq(Octets)
    BY <1>1
  <2>2. g[n] = g[n] \o <<>>
    BY <1>6, <2>1, ConcatEmptySeq
  <2> QED BY <2>1, <2>2
<1>8. ASSUME NEW i \in 1 .. n, Begins(i) PROVE Begins(i - 1)
  <2>1. i - 1 \in 0 .. n
    BY <1>1
  <2>2. PICK s \in Seq(Octets) : g[n] = g[i] \o s
    BY <1>8
  <2> DEFINE p == put(types[i], x[i])
  <2>3. g[i] = g[i - 1] \o p /\ p \in Seq(Octets)
    BY <1>2, <1>4
  <2>4. g[i - 1] \in Seq(Octets)
    BY <1>6, <2>1
  <2> HIDE DEF p
  <2> DEFINE q == g[i - 1]
  <2>5. (q \o p) \o s = q \o (p \o s)
    <3>1. q \in Seq(Octets) /\ p \in Seq(Octets) /\ s \in Seq(Octets)
      BY <2>2, <2>3, <2>4
    <3> HIDE DEF q
    <3> QED BY <3>1, ConcatAssociative, SMTT(30)
  <2>6. p \o s \in Seq(Octets)
    BY <2>2, <2>3, ConcatProperties
  <2> QED BY <2>2, <2>3, <2>5, <2>6
<1> HIDE DEF Begins
<1>9. \A i \in 0 .. n : Begins(i)
  <2> DEFINE T == {i \in 0 .. n : Begins(i)}
  <2>1. n \in T /\ \A i \in 1 .. n : i \in T => i - 1 \in T
    BY <1>1, <1>7, <1>8
  <2> HIDE DEF T
  <2>2. 0 .. n \subseteq T
    BY <1>1, <2>1, Downwards
  <2> QED BY <2>2 DEF T
<1> QED BY <1>6, <1>9 DEF Begins, Grows

LEMMA FirstByte ==
  ASSUME NEW b \in Octets, NEW s \in Seq(Octets), NEW bytes, bytes = <<b>> \o s
  PROVE  bytes \in Seq(Octets) /\ bytes # <<>> /\ bytes[1] = b /\ Tail(bytes) = s
<1>1. <<b>> \in Seq(Octets) /\ Len(<<b>>) = 1 /\ <<b>>[1] = b /\ Len(s) \in Nat
  BY ByteIsSeq
<1>2. /\ bytes \in Seq(Octets) /\ Len(bytes) = 1 + Len(s)
      /\ \A i \in 1 .. 1 + Len(s) : bytes[i] = IF i <= 1 THEN <<b>>[i] ELSE s[i - 1]
  BY <1>1, ConcatProperties
<1>3. bytes # <<>> /\ bytes[1] = b
  BY <1>1, <1>2, EmptySeq
<1>4. Tail(bytes) \in Seq(Octets) /\ Len(Tail(bytes)) = Len(s) /\ \A i \in 1 .. Len(s) : Tail(bytes)[i] = bytes[i + 1]
  BY <1>1, <1>2, <1>3, HeadTailProperties
<1>5. \A i \in 1 .. Len(s) : Tail(bytes)[i] = s[i]
  BY <1>1, <1>2, <1>4
<1> QED BY <1>2, <1>3, <1>4, <1>5, SeqEqual

(* decode is the inverse of encode: field by field, the Reader has read    *)
(* the fields so far and stands where the next one was put.                *)
LEMMA FrameComesBack ==
  ASSUME NEW f, IsFrame(f)
  PROVE  encode(f) \in Seq(Octets) /\ decode(encode(f)) = Got(f, <<>>)
<1> DEFINE tag == f.tag
           types == Written[tag]
           x == f.fields
           n == Len(types)
           read_so_far(i) == [j \in 1 .. i |-> x[j]]
<1>1. /\ tag \in 1 .. Len(Written)
      /\ f = [tag |-> tag, fields |-> read_so_far(n)]
      /\ \A i \in 1 .. n : Holds(types[i], x[i])
  BY DEF IsFrame
<1>2. n \in Nat /\ \A i \in 1 .. n : types[i] \in FieldTypes
  BY <1>1, Layout
<1>3. PICK g : Out(g, tag, types, x, n) /\ encode(f) = g[n]
  BY <1>2, EncodeIsOut
<1>4. /\ \A i \in 0 .. n : g[i] \in Seq(Octets)
      /\ \A i \in 0 .. n : \E s \in Seq(Octets) : g[n] = g[i] \o s
  <2>1. Filled(tag, x, n) /\ Out(g, tag, Written[tag], x, n)
    BY <1>1, <1>3 DEF Filled
  <2>2. Grows(g, n)
    <3> HIDE DEF tag, x, n
    <3> QED BY <2>1, OutType
  <2> HIDE DEF x, n
  <2> QED BY <2>2 DEF Grows
<1>5. n \in 0 .. n /\ 0 \in 0 .. n
  BY <1>2
<1>6. encode(f) \in Seq(Octets)
  BY <1>3, <1>4, <1>5
<1>7. g[0] = <<tag>> /\ \A i \in 1 .. n : g[i] = g[i - 1] \o put(types[i], x[i])
  BY <1>3 DEF Out
<1>8. tag \in Octets
  BY <1>1, TagsAreBytes
<1>9. PICK s0 \in Seq(Octets) : g[n] = <<tag>> \o s0
  BY <1>4, <1>5, <1>7
<1>10. encode(f) # <<>> /\ encode(f)[1] = tag /\ Tail(encode(f)) = s0
  BY <1>3, <1>8, <1>9, FirstByte
<1>11. PICK h : /\ After(h, encode(f), types, n)
                /\ decode(encode(f)) =
                     IF ~h[n].ok \/ NotDone(h[n].rest) THEN Malformed
                     ELSE Got([tag |-> tag, fields |-> h[n].value], <<>>)
  <2>1. encode(f)[1] \in 1 .. Len(Written) /\ Written[encode(f)[1]] = types
    BY <1>1, <1>10
  <2> HIDE DEF tag, types, x
  <2> QED BY <1>10, <2>1, DecodeIsAfter
<1>12. h[0] = Got(<<>>, s0) /\ \A i \in 1 .. n : h[i] = NextField(h[i - 1], types[i])
  BY <1>10, <1>11 DEF After
<1>13. \A i \in 1 .. n : x[i] \in FieldValues
  BY <1>1, <1>2, HoldsValue
<1> HIDE DEF tag, types, x, n
<1>14. /\ read_so_far(0) = <<>>
       /\ \A i \in 0 .. n - 1 : Append(read_so_far(i), x[i + 1]) = read_so_far(i + 1)
  BY <1>2, <1>13, FirstFields
<1> HIDE DEF read_so_far
<1> DEFINE Stands(i) == \E s \in Seq(Octets) : h[i] = Got(read_so_far(i), s) /\ g[n] = g[i] \o s
<1>15. Stands(0)
  BY <1>7, <1>9, <1>12, <1>14
<1>16. ASSUME NEW i \in 1 .. n, Stands(i - 1) PROVE Stands(i)
  <2> DEFINE v == x[i]
             p == put(types[i], v)
             q == g[i - 1]
  <2>0. i \in 0 .. n /\ i - 1 \in 0 .. n
    BY <1>2
  <2>1. PICK s \in Seq(Octets) : h[i - 1] = Got(read_so_far(i - 1), s) /\ g[n] = q \o s
    BY <1>16
  <2>2. PICK t \in Seq(Octets) : g[n] = g[i] \o t
    BY <1>4, <2>0
  <2>3. g[i] = q \o p /\ q \in Seq(Octets) /\ h[i] = NextField(h[i - 1], types[i])
    <3>1. q \in Seq(Octets)
      BY <1>4, <2>0
    <3>2. g[i] = g[i - 1] \o put(types[i], x[i]) /\ h[i] = NextField(h[i - 1], types[i])
      BY <1>7, <1>12
    <3> QED BY <3>1, <3>2
  <2>4. types[i] \in FieldTypes /\ Holds(types[i], v)
    BY <1>1, <1>2
  <2>5. p \in Seq(Octets) /\ read(types[i], p \o t) = Got(v, t)
    BY <2>2, <2>4, FieldPut
  <2>6. Append(read_so_far(i - 1), v) = read_so_far(i)
    <3>1. i - 1 \in 0 .. n - 1 /\ (i - 1) + 1 = i
      BY <1>2
    <3> QED BY <1>14, <3>1
  <2> HIDE DEF v, p, q
  <2>7. s = p \o t
    <3>0. p \o t \in Seq(Octets)
      BY <2>2, <2>5, ConcatProperties
    <3>1. (q \o p) \o t = q \o (p \o t)
      BY <2>2, <2>3, <2>5, ConcatAssociative, SMTT(30)
    <3>2. q \o s = q \o (p \o t)
      BY <2>1, <2>2, <2>3, <3>1
    <3> QED BY <2>1, <2>3, <3>0, <3>2, ConcatSimplifications
  <2>8. h[i] = Got(read_so_far(i), t)
    <3>1. h[i - 1].ok /\ h[i - 1].value = read_so_far(i - 1) /\ h[i - 1].rest = s
      BY <2>1, Answers
    <3>2. read(types[i], s) = Got(v, t)
      BY <2>5, <2>7
    <3>3. read(types[i], s).ok /\ read(types[i], s).value = v /\ read(types[i], s).rest = t
      BY <3>2, Answers
    <3>4. NextField(h[i - 1], types[i]) = Got(Append(read_so_far(i - 1), v), t)
      BY <3>1, <3>3 DEF NextField
    <3> QED BY <2>3, <2>6, <3>4
  <2> QED BY <2>2, <2>8
<1> HIDE DEF Stands
<1>17. Stands(n)
  <2> DEFINE T == {i \in 0 .. n : Stands(i)}
  <2>1. 0 \in T /\ \A i \in 1 .. n : i - 1 \in T => i \in T
    BY <1>2, <1>15, <1>16
  <2> HIDE DEF T
  <2>2. 0 .. n \subseteq T
    BY <1>2, <2>1, Upwards
  <2> QED BY <1>5, <2>2 DEF T
<1>18. h[n] = Got(read_so_far(n), <<>>)
  <2>1. PICK s \in Seq(Octets) : h[n] = Got(read_so_far(n), s) /\ g[n] = g[n] \o s
    BY <1>17 DEF Stands
  <2>2. s = <<>>
    BY <1>4, <1>5, <2>1, ConcatSimplifications
  <2> QED BY <2>1, <2>2
<1>19. decode(encode(f)) = Got([tag |-> tag, fields |-> read_so_far(n)], <<>>)
  BY <1>11, <1>18, Answers DEF NotDone
<1> QED BY <1>1, <1>6, <1>19

(* And what it accepts is what encode makes of the frame it read.          *)
LEMMA FrameIsCanonical ==
  ASSUME NEW bytes \in Seq(Octets), decode(bytes).ok
  PROVE  encode(decode(bytes).value) = bytes
<1> DEFINE tag == bytes[1]
           types == Written[tag]
           n == Len(types)
<1>1. bytes # <<>> /\ tag \in 1 .. Len(Written)
  BY Answers, Layout DEF decode
<1>2. n \in Nat /\ \A i \in 1 .. n : types[i] \in FieldTypes
  BY <1>1, Layout
<1>3. PICK h : /\ After(h, bytes, types, n)
               /\ decode(bytes) =
                    IF ~h[n].ok \/ NotDone(h[n].rest) THEN Malformed
                    ELSE Got([tag |-> tag, fields |-> h[n].value], <<>>)
  BY <1>1, DecodeIsAfter
<1> DEFINE x == h[n].value
           f == [tag |-> tag, fields |-> x]
<1>4. h[n].ok /\ h[n].rest = <<>> /\ decode(bytes).value = f
  BY <1>3, Answers DEF NotDone
<1>5. h[0] = Got(<<>>, Tail(bytes)) /\ \A i \in 1 .. n : h[i] = NextField(h[i - 1], types[i])
  BY <1>3 DEF After
<1>6. PICK g : Out(g, tag, types, x, n) /\ encode(f) = g[n]
  BY <1>2, EncodeIsOut
<1>7. Tail(bytes) \in Seq(Octets) /\ tag \in Octets /\ bytes = <<tag>> \o Tail(bytes)
  <2>1. Tail(bytes) \in Seq(Octets) /\ Head(bytes) = tag
    BY <1>1, HeadTailProperties
  <2>2. tag \in Octets
    BY <1>1, TagsAreBytes
  <2> DEFINE t == Tail(bytes)
             u == <<tag>> \o t
  <2>3. Len(t) = Len(bytes) - 1 /\ Len(bytes) \in Nat /\ \A i \in 1 .. Len(t) : t[i] = bytes[i + 1]
    BY <1>1, HeadTailProperties, LenProperties
  <2> HIDE DEF t
  <2>4. <<tag>> \in Seq(Octets) /\ Len(<<tag>>) = 1 /\ <<tag>>[1] = tag /\ t \in Seq(Octets)
    BY <2>1, <2>2 DEF t
  <2>5. /\ u \in Seq(Octets) /\ Len(u) = 1 + Len(t)
        /\ \A i \in 1 .. 1 + Len(t) : u[i] = IF i <= 1 THEN <<tag>>[i] ELSE t[i - 1]
    BY <2>4, ConcatProperties
  <2>6. ASSUME NEW i \in 1 .. Len(bytes) PROVE bytes[i] = u[i]
    <3>1. CASE i = 1
      BY <2>3, <2>4, <2>5, <3>1
    <3>2. CASE i # 1
      <4>1. i \in 1 .. 1 + Len(t) /\ ~(i <= 1) /\ i - 1 \in 1 .. Len(t) /\ (i - 1) + 1 = i
        BY <2>3, <3>2
      <4> QED BY <2>3, <2>5, <4>1
    <3> QED BY <3>1, <3>2
  <2> HIDE DEF u
  <2>7. bytes = u
    BY <2>3, <2>5, <2>6, SeqEqual
  <2> QED BY <2>1, <2>2, <2>7 DEF u, t
<1> HIDE DEF tag, types, n, x
<1> DEFINE Stands(i) ==
             h[i].ok => \E w, s, o :
                          /\ w \in Seq(FieldValues) /\ s \in Seq(Octets)
                          /\ h[i] = Got(w, s) /\ Len(w) = i
                          /\ Out(o, tag, types, w, i) /\ o[i] \in Seq(Octets) /\ o[i] \o s = bytes
<1>8. Stands(0)
  <2> DEFINE o == [i \in 0 .. 0 |-> <<tag>>]
  <2>1. o[0] = <<tag>> /\ \A i \in 1 .. 0 : FALSE
    OBVIOUS
  <2> HIDE DEF o
  <2>2. Out(o, tag, types, <<>>, 0) /\ o[0] \in Seq(Octets) /\ o[0] \o Tail(bytes) = bytes
    BY <1>7, <2>1 DEF Out
  <2>3. <<>> \in Seq(FieldValues) /\ Len(<<>>) = 0
    OBVIOUS
  <2> QED BY <1>5, <1>7, <2>2, <2>3
<1>9. ASSUME NEW i \in 1 .. n, Stands(i - 1), h[i].ok
      PROVE  \E w, s, o :
               /\ w \in Seq(FieldValues) /\ s \in Seq(Octets)
               /\ h[i] = Got(w, s) /\ Len(w) = i
               /\ Out(o, tag, types, w, i) /\ o[i] \in Seq(Octets) /\ o[i] \o s = bytes
  <2> DEFINE k == i - 1
             type == types[i]
  <2>1. k \in Nat /\ i = k + 1 /\ k \in 0 .. n /\ i \in Nat
    BY <1>2
  <2>2. h[i] = NextField(h[k], type) /\ type \in FieldTypes
    BY <1>2, <1>5
  <2> HIDE DEF k, type
  <2>3. h[k].ok /\ read(type, h[k].rest).ok
    BY <1>9, <2>2, Answers DEF NextField
  <2>4. PICK w, s, o :
          /\ w \in Seq(FieldValues) /\ s \in Seq(Octets)
          /\ h[k] = Got(w, s) /\ Len(w) = k
          /\ Out(o, tag, types, w, k) /\ o[k] \in Seq(Octets) /\ o[k] \o s = bytes
    BY <1>9, <2>3 DEF k
  <2>5. PICK v, t : /\ Holds(type, v) /\ t \in Seq(Octets)
                    /\ read(type, s) = Got(v, t) /\ put(type, v) \o t = s
    <3>1. read(type, s).ok
      BY <2>3, <2>4, Answers
    <3> QED BY <2>2, <2>4, <3>1, FieldGot
  <2> DEFINE y == Append(w, v)
             p == put(type, v)
             q == o[k]
             r == [j \in 0 .. i |-> IF j = i THEN q \o p ELSE o[j]]
  <2>6. v \in FieldValues /\ p \in Seq(Octets)
    BY <2>2, <2>5, HoldsValue, FieldPut
  <2>7. h[i] = Got(y, t)
    BY <2>2, <2>3, <2>4, <2>5, Answers DEF NextField
  <2>8. y \in Seq(FieldValues) /\ Len(y) = i /\ (\A j \in 1 .. k : y[j] = w[j]) /\ y[i] = v
    BY <2>1, <2>4, <2>6, AppendProperties
  <2>9. /\ r[i] = q \o p
        /\ \A j \in 0 .. k : r[j] = o[j]
    BY <2>1
  <2> HIDE DEF p, q, r, y
  <2>10. q \o p \in Seq(Octets) /\ (q \o p) \o t = bytes
    <3>1. q \in Seq(Octets) /\ p \in Seq(Octets) /\ t \in Seq(Octets)
      BY <2>4, <2>5, <2>6 DEF q
    <3>2. q \o p \in Seq(Octets)
      BY <3>1, ConcatProperties
    <3>3. (q \o p) \o t = q \o (p \o t)
      BY <3>1, ConcatAssociative, SMTT(30)
    <3>4. q \o (p \o t) = bytes
      BY <2>4, <2>5 DEF q, p
    <3> QED BY <3>2, <3>3, <3>4
  <2>11. Out(r, tag, types, y, i)
    <3>1. r[0] = <<tag>>
      BY <2>1, <2>4, <2>9 DEF Out
    <3>2. ASSUME NEW j \in 1 .. i PROVE r[j] = r[j - 1] \o put(types[j], y[j])
      <4>1. CASE j = i
        <5>1. r[i] = q \o p /\ r[i - 1] = q /\ y[i] = v /\ types[i] = type
          BY <2>1, <2>8, <2>9 DEF q, k, type
        <5> QED BY <4>1, <5>1 DEF p
      <4>2. CASE j # i
        <5>1. j \in 1 .. k /\ j \in 0 .. k /\ j - 1 \in 0 .. k
          BY <2>1, <4>2
        <5>2. o[j] = o[j - 1] \o put(types[j], w[j])
          BY <2>4, <5>1 DEF Out
        <5> QED BY <2>8, <2>9, <5>1, <5>2
      <4> QED BY <4>1, <4>2
    <3> QED BY <3>1, <3>2 DEF Out
  <2> QED BY <2>5, <2>7, <2>8, <2>9, <2>10, <2>11
<1>10. Stands(n)
  <2>1. ASSUME NEW i \in 1 .. n, Stands(i - 1) PROVE Stands(i)
    BY <1>9, <2>1
  <2> HIDE DEF Stands
  <2> DEFINE T == {i \in 0 .. n : Stands(i)}
  <2>2. 0 \in T /\ \A i \in 1 .. n : i - 1 \in T => i \in T
    BY <1>2, <1>8, <2>1
  <2> HIDE DEF T
  <2>3. 0 .. n \subseteq T
    BY <1>2, <2>2, Upwards
  <2> QED BY <1>2, <2>3 DEF T
<1>11. PICK o : Out(o, tag, types, x, n) /\ o[n] \in Seq(Octets) /\ o[n] \o <<>> = bytes
  <2>1. PICK w, s, o :
          /\ w \in Seq(FieldValues) /\ s \in Seq(Octets)
          /\ h[n] = Got(w, s)
          /\ Out(o, tag, types, w, n) /\ o[n] \in Seq(Octets) /\ o[n] \o s = bytes
    BY <1>4, <1>10
  <2>2. w = x /\ s = <<>>
    BY <1>4, <2>1, Answers DEF x
  <2> QED BY <2>1, <2>2
<1>12. g[n] = o[n]
  <2> DEFINE T == {i \in 0 .. n : g[i] = o[i]}
  <2>1. g[0] = o[0] /\ \A i \in 1 .. n : g[i - 1] = o[i - 1] => g[i] = o[i]
    BY <1>6, <1>11 DEF Out
  <2>2. 0 \in T /\ \A i \in 1 .. n : i - 1 \in T => i \in T
    BY <1>2, <2>1
  <2> HIDE DEF T
  <2>3. 0 .. n \subseteq T
    BY <1>2, <2>2, Upwards
  <2> QED BY <1>2, <2>3 DEF T
<1>13. o[n] = bytes
  BY <1>11, ConcatEmptySeq
<1> QED BY <1>4, <1>6, <1>12, <1>13

(* What arrives is bytes, and those of the frame until one of them slips.  *)
FramingInvariant ==
  /\ body \in Seq(Octets) /\ slips \in Nat
  /\ frame # NoFrame => IsFrame(frame) /\ (slips = 0 => body = encode(frame))

LEMMA FramingStarts == FramingInit => FramingInvariant
BY DEF FramingInit, FramingInvariant

LEMMA FrameSent ==
  ASSUME FramingInvariant, NEW f \in Frames, SendFrame(f)
  PROVE  FramingInvariant'
<1>1. IsFrame(f)
  BY FrameAssumption
<1>2. encode(f) \in Seq(Octets)
  BY <1>1, FrameComesBack
<1>3. frame' = f /\ body' = encode(f) /\ slips' = slips /\ slips \in Nat
  BY DEF SendFrame, FramingInvariant
<1> QED BY <1>1, <1>2, <1>3 DEF FramingInvariant

LEMMA FrameSlipped ==
  ASSUME FramingInvariant, Slip
  PROVE  FramingInvariant'
<1>1. frame' = frame /\ frame # NoFrame /\ IsFrame(frame) /\ slips' = slips + 1 /\ slips \in Nat
  BY DEF Slip, FramingInvariant
<1>2. body' \in Seq(Octets)
  <2>1. body \in Seq(Octets) /\ Bytes \subseteq Octets
    BY FrameAssumption DEF FramingInvariant
  <2>2. ASSUME NEW i \in DOMAIN body, NEW b \in Bytes, body' = [body EXCEPT ![i] = b]
        PROVE  body' \in Seq(Octets)
    <3>1. i \in 1 .. Len(body) /\ b \in Octets
      BY <2>1, <2>2, LenProperties
    <3> QED BY <2>1, <2>2, <3>1, ExceptSeq
  <2>3. ASSUME NEW b \in Bytes, body' = Append(body, b)
        PROVE  body' \in Seq(Octets)
    BY <2>1, <2>3, AppendProperties
  <2>4. ASSUME body # <<>>, body' = SubSeq(body, 1, Len(body) - 1)
        PROVE  body' \in Seq(Octets)
    <3>1. Len(body) \in Nat /\ Len(body) > 0 /\ \A i \in 1 .. Len(body) : body[i] \in Octets
      BY <2>1, <2>4, EmptySeq, LenProperties, ElementOfSeq
    <3> QED BY <2>1, <2>4, <3>1, SubSeqProperties
  <2> QED BY <2>2, <2>3, <2>4 DEF Slip
<1>3. slips' \in Nat /\ slips' # 0
  BY <1>1
<1> QED BY <1>1, <1>2, <1>3 DEF FramingInvariant

THEOREM FramingInvariantHolds == FramingSpec => []FramingInvariant
<1>1. FramingInvariant /\ [FramingNext]_framing => FramingInvariant'
  <2> SUFFICES ASSUME FramingInvariant, [FramingNext]_framing PROVE FramingInvariant'
    OBVIOUS
  <2>1. ASSUME NEW f \in Frames, SendFrame(f) PROVE FramingInvariant'
    BY <2>1, FrameSent
  <2>2. CASE Slip
    BY <2>2, FrameSlipped
  <2>3. CASE UNCHANGED framing
    BY <2>3 DEF framing, FramingInvariant
  <2> QED BY <2>1, <2>2, <2>3 DEF FramingNext
<1> QED BY <1>1, FramingStarts, PTL DEF FramingSpec

(* The two ends of a connection cannot disagree about a session frame: it  *)
(* comes back as it was sent, and whatever bytes a peer of another build   *)
(* writes instead, those that decode accepts are exactly encode's for the  *)
(* frame it read (session.rs 153-464).                                     *)
THEOREM FramesAreAgreedOn == FramingSpec => []FramesAgree
<1>1. ASSUME FramingInvariant PROVE FramesAgree
  <2> SUFFICES ASSUME frame # NoFrame
               PROVE  /\ slips = 0 => decode(body).ok /\ decode(body).value = frame
                      /\ decode(body).ok => encode(decode(body).value) = body
    BY DEF FramesAgree
  <2>1. ASSUME slips = 0 PROVE decode(body).ok /\ decode(body).value = frame
    <3>1. IsFrame(frame) /\ body = encode(frame)
      BY <1>1, <2>1 DEF FramingInvariant
    <3>2. decode(body) = Got(frame, <<>>)
      BY <3>1, FrameComesBack
    <3> QED BY <3>2, Answers
  <2>2. ASSUME decode(body).ok PROVE encode(decode(body).value) = body
    BY <1>1, <2>2, FrameIsCanonical DEF FramingInvariant
  <2> QED BY <2>1, <2>2
<1> QED BY <1>1, FramingInvariantHolds, PTL

---------------------------------------------------------------------------
Gap == Interval + PollEvery - 1

(* The ping under way is the one asked last, and its answer is not late.   *)
AnswersOnTime ==
  /\ alive /\ outstanding # 0 => [nonce |-> outstanding, sent |-> last_seen] \in asked
  /\ alive => \A ping \in asked : now <= ping.sent + RoundTrip

NoncesFresh ==
  /\ next_nonce <= last_seen + 1
  /\ outstanding \notin answered
  /\ \A ping \in asked : ping.nonce < next_nonce

(* How far the machine can be behind what it heard. *)
LagBounded ==
  /\ outstanding = 0 => missed = 0 /\ last_seen <= heard
  /\ outstanding # 0 => last_seen <= heard + (missed + 1) * Gap
  /\ missed + 1 <= Tolerated
  /\ last_poll < last_seen + Interval /\ now <= last_poll + PollEvery

HeartbeatInvariant ==
  HeartbeatTypeOK /\ NoncesFresh /\ AnswersOnTime /\ NoFalseDeath /\ (~dead => LagBounded)

USE HeartbeatAssumption DEF Gap, Tolerated

LEMMA TimesMonotone ==
  ASSUME NEW a \in Nat, NEW b \in Nat, NEW g \in Nat, a <= b
  PROVE  a * g <= b * g /\ a * g \in Nat /\ b * g \in Nat
<1> DEFINE d == b - a
<1>1. d \in Nat /\ b = a + d
  OBVIOUS
<1> HIDE DEF d
<1>2. (a + d) * g = a * g + d * g
  BY <1>1
<1>3. d * g \in Nat /\ a * g \in Nat
  BY <1>1
<1> QED
  BY <1>1, <1>2, <1>3

LEMMA OneMoreTime ==
  ASSUME NEW a \in Nat, NEW g \in Nat
  PROVE  a * g \in Nat /\ (a + 1) * g = a * g + g
<1>1. a * g \in Nat
  OBVIOUS
<1>2. (a + 1) * g = a * g + g
  OBVIOUS
<1> QED
  BY <1>1, <1>2

LEMMA HeartbeatStart ==
  HeartbeatInit => HeartbeatInvariant
<1> SUFFICES ASSUME HeartbeatInit PROVE HeartbeatInvariant
  OBVIOUS
<1>1. /\ now = 0 /\ last_poll = 0 /\ last_seen = 0 /\ heard = 0
      /\ outstanding = 0 /\ missed = 0 /\ next_nonce = 1
      /\ dead = FALSE /\ alive = TRUE /\ asked = {} /\ answered = {}
  BY DEF HeartbeatInit
<1>2. HeartbeatTypeOK
  <2>1. /\ asked \subseteq Pings /\ answered \subseteq 1 .. next_nonce - 1
        /\ dead \in BOOLEAN /\ alive \in BOOLEAN
    BY <1>1
  <2>2. 0 \in 0 .. MaxNow /\ 0 \in 0 .. 0 /\ 0 \in 0 .. Tolerated /\ 1 \in 1 .. 1
    OBVIOUS
  <2> QED
    BY <1>1, <2>1, <2>2 DEF HeartbeatTypeOK
<1>4. NoncesFresh
  BY <1>1 DEF NoncesFresh
<1>5. AnswersOnTime /\ NoFalseDeath
  BY <1>1 DEF AnswersOnTime, NoFalseDeath
<1>3. LagBounded
  BY DEF HeartbeatInit, LagBounded
<1> QED
  BY <1>2, <1>3, <1>4, <1>5 DEF HeartbeatInvariant

LEMMA PollKeeps ==
  HeartbeatInvariant /\ Poll => HeartbeatInvariant'
<1> SUFFICES ASSUME HeartbeatInvariant, Poll PROVE HeartbeatInvariant'
  OBVIOUS
<1> USE DEF HeartbeatInvariant
<1>0. ~dead /\ LagBounded /\ HeartbeatTypeOK /\ NoncesFresh /\ AnswersOnTime
  BY DEF Poll
<1>1. CASE ~IntervalPassed
  <2>1. last_poll' = now /\ UNCHANGED <<now, last_seen, outstanding, missed, next_nonce, dead,
                                        asked, alive, answered, heard>>
    BY <1>1 DEF Poll
  <2>2. HeartbeatTypeOK' /\ NoncesFresh' /\ AnswersOnTime' /\ NoFalseDeath'
    BY <2>1 DEF HeartbeatTypeOK, NoncesFresh, AnswersOnTime, NoFalseDeath
  <2>3. LagBounded'
    BY <1>0, <1>1, <2>1 DEF LagBounded, IntervalPassed, HeartbeatTypeOK
  <2> QED
    BY <2>2, <2>3
<1>2. CASE IntervalPassed /\ ~alive /\ dead'
  <2>1. /\ last_poll' = now /\ dead' = TRUE
        /\ missed' = missed + 1
        /\ UNCHANGED <<now, last_seen, outstanding, next_nonce, asked, alive, answered, heard>>
    BY <1>0, <1>2 DEF Poll
  <2>2. missed' \in 0 .. Tolerated
    BY <1>0, <2>1 DEF HeartbeatTypeOK, LagBounded
  <2> QED
    BY <1>2, <2>1, <2>2 DEF HeartbeatTypeOK, NoncesFresh, AnswersOnTime, NoFalseDeath
<1>3. CASE IntervalPassed /\ ~dead'
  <2>1. /\ last_poll' = now /\ last_seen' = now
        /\ outstanding' = next_nonce /\ next_nonce' = next_nonce + 1
        /\ asked' = asked \cup {[nonce |-> next_nonce, sent |-> now]}
        /\ missed' = IF outstanding # 0 THEN missed + 1 ELSE missed
        /\ ~(outstanding # 0 /\ missed + 1 >= MaxMissed)
        /\ UNCHANGED <<now, alive, answered, heard, dead>>
    BY <1>0, <1>3 DEF Poll
  <2>2. now >= last_seen + 1 /\ next_nonce <= now /\ next_nonce \in Nat \ {0}
    BY <1>0, <1>3 DEF IntervalPassed, HeartbeatTypeOK, NoncesFresh
  <2>3. HeartbeatTypeOK'
    <3>1. asked' \subseteq Pings
      BY <1>0, <2>1, <2>2 DEF HeartbeatTypeOK, Pings
    <3>2. missed' \in 0 .. Tolerated
      BY <1>0, <2>1 DEF HeartbeatTypeOK
    <3> QED
      BY <1>0, <2>1, <2>2, <3>1, <3>2 DEF HeartbeatTypeOK
  <2>4. NoncesFresh'
    BY <1>0, <2>1, <2>2 DEF HeartbeatTypeOK, NoncesFresh, Pings
  <2>5. AnswersOnTime' /\ NoFalseDeath'
    BY <1>0, <2>1, <2>2 DEF HeartbeatTypeOK, AnswersOnTime, NoFalseDeath
  <2>6. LagBounded'
    <3>1. now <= last_seen + Gap
      BY <1>0 DEF LagBounded, HeartbeatTypeOK
    <3>2. missed' + 1 <= Tolerated
      BY <1>0, <2>1 DEF LagBounded, HeartbeatTypeOK
    <3>3. now <= heard + (missed' + 1) * Gap
      <4>1. CASE outstanding = 0
        <5>1. missed' = 0 /\ last_seen <= heard
          BY <1>0, <2>1, <4>1 DEF LagBounded
        <5> QED
          BY <1>0, <3>1, <5>1 DEF HeartbeatTypeOK
      <4>2. CASE outstanding # 0
        <5>1. missed' = missed + 1 /\ last_seen <= heard + (missed + 1) * Gap
          BY <1>0, <2>1, <4>2 DEF LagBounded
        <5>2. missed + 1 \in Nat /\ Gap \in Nat
          BY <1>0 DEF HeartbeatTypeOK
        <5>3. (missed + 1) * Gap \in Nat /\ (missed + 1 + 1) * Gap = (missed + 1) * Gap + Gap
          BY <5>2, OneMoreTime
        <5> QED
          BY <1>0, <3>1, <5>1, <5>2, <5>3 DEF HeartbeatTypeOK
      <4> QED
        BY <4>1, <4>2
    <3> QED
      BY <1>0, <2>1, <2>2, <3>2, <3>3 DEF LagBounded, HeartbeatTypeOK
  <2> QED
    BY <2>3, <2>4, <2>5, <2>6
<1>4. CASE IntervalPassed /\ alive /\ dead'
  <2>1. outstanding # 0
    BY <1>0, <1>4 DEF Poll
  <2>2. now <= last_seen + RoundTrip
    BY <1>4, <2>1 DEF AnswersOnTime
  <2> QED
    BY <1>0, <1>4, <2>2 DEF IntervalPassed, HeartbeatTypeOK
<1> QED
  BY <1>1, <1>2, <1>3, <1>4

LEMMA TrafficKeeps ==
  HeartbeatInvariant /\ Traffic => HeartbeatInvariant'
<1> SUFFICES ASSUME HeartbeatInvariant, Traffic PROVE HeartbeatInvariant'
  OBVIOUS
<1>1. HeartbeatTypeOK'
  BY DEF HeartbeatInvariant, HeartbeatTypeOK, Traffic, SawTraffic, Cleared
<1>2. NoncesFresh' /\ AnswersOnTime' /\ NoFalseDeath'
  BY DEF HeartbeatInvariant, HeartbeatTypeOK, NoncesFresh, AnswersOnTime, NoFalseDeath, Traffic,
         SawTraffic, Cleared
<1>3. LagBounded'
  BY DEF HeartbeatInvariant, HeartbeatTypeOK, LagBounded, Traffic, SawTraffic, Cleared
<1> QED
  BY <1>1, <1>2, <1>3 DEF HeartbeatInvariant

LEMMA PongKeeps ==
  ASSUME HeartbeatInvariant, NEW ping \in asked, alive, Pong(ping)
  PROVE  HeartbeatInvariant'
<1> USE DEF HeartbeatInvariant
<1>0. ~dead /\ LagBounded /\ ping.nonce \in 1 .. next_nonce - 1
  BY DEF Pong, HeartbeatTypeOK, Pings, NoncesFresh
<1>1. CASE outstanding = ping.nonce
  <2>1. /\ last_seen' = now /\ missed' = 0 /\ outstanding' = 0 /\ heard' = now
        /\ asked' = asked \ {ping} /\ answered' = answered \cup {ping.nonce}
        /\ UNCHANGED <<now, last_poll, next_nonce, dead, alive>>
    BY <1>1 DEF Pong, SawPong, SawTraffic, IsOutstanding, Cleared
  <2>2. HeartbeatTypeOK'
    <3>1. asked' \subseteq Pings /\ answered' \subseteq 1 .. next_nonce - 1
      BY <1>0, <2>1 DEF HeartbeatTypeOK
    <3> QED
      BY <2>1, <3>1 DEF HeartbeatTypeOK
  <2>3. NoncesFresh' /\ AnswersOnTime' /\ NoFalseDeath'
    BY <1>0, <2>1 DEF HeartbeatTypeOK, NoncesFresh, AnswersOnTime, NoFalseDeath
  <2>4. LagBounded'
    BY <1>0, <2>1 DEF HeartbeatTypeOK, LagBounded
  <2> QED
    BY <2>2, <2>3, <2>4
<1>2. CASE outstanding # ping.nonce
  <2>1. /\ UNCHANGED <<last_seen, missed, outstanding>> /\ heard' = now
        /\ asked' = asked \ {ping} /\ answered' = answered \cup {ping.nonce}
        /\ UNCHANGED <<now, last_poll, next_nonce, dead, alive>>
    BY <1>2 DEF Pong, SawPong, IsOutstanding
  <2>2. HeartbeatTypeOK'
    <3>1. asked' \subseteq Pings /\ answered' \subseteq 1 .. next_nonce - 1
      BY <1>0, <2>1 DEF HeartbeatTypeOK
    <3> QED
      BY <2>1, <3>1 DEF HeartbeatTypeOK
  <2>3. NoncesFresh' /\ AnswersOnTime' /\ NoFalseDeath'
    BY <1>0, <1>2, <2>1 DEF HeartbeatTypeOK, NoncesFresh, AnswersOnTime, NoFalseDeath
  <2>4. LagBounded'
    <3>1. missed + 1 \in Nat /\ Gap \in Nat /\ (missed + 1) * Gap \in Nat
      BY OneMoreTime DEF HeartbeatTypeOK
    <3> QED
      BY <1>0, <2>1, <3>1 DEF HeartbeatTypeOK, LagBounded
  <2> QED
    BY <2>2, <2>3, <2>4
<1> QED
  BY <1>1, <1>2

LEMMA ReplayKeeps ==
  ASSUME HeartbeatInvariant, NEW nonce \in answered, ReplayedPong(nonce)
  PROVE  HeartbeatInvariant' /\ UNCHANGED watching
<1>1. outstanding # nonce
  BY DEF HeartbeatInvariant, NoncesFresh
<1>2. UNCHANGED watching
  BY <1>1 DEF ReplayedPong, SawPong, IsOutstanding, watching
<1> QED
  BY <1>2 DEF watching, HeartbeatInvariant, HeartbeatTypeOK, NoncesFresh, AnswersOnTime, NoFalseDeath, LagBounded

LEMMA HeartbeatStep ==
  HeartbeatInvariant /\ [HeartbeatNext]_watching => HeartbeatInvariant'
<1> SUFFICES ASSUME HeartbeatInvariant, [HeartbeatNext]_watching PROVE HeartbeatInvariant'
  OBVIOUS
<1>1. CASE Tick
  <2>1. HeartbeatTypeOK'
    BY <1>1 DEF HeartbeatInvariant, HeartbeatTypeOK, Tick
  <2>2. NoncesFresh' /\ NoFalseDeath'
    BY <1>1 DEF HeartbeatInvariant, NoncesFresh, NoFalseDeath, Tick
  <2>3. AnswersOnTime'
    BY <1>1 DEF HeartbeatInvariant, HeartbeatTypeOK, Pings, AnswersOnTime, Tick
  <2>4. LagBounded'
    BY <1>1 DEF HeartbeatInvariant, HeartbeatTypeOK, LagBounded, Tick
  <2> QED
    BY <2>1, <2>2, <2>3, <2>4 DEF HeartbeatInvariant
<1>2. CASE FallSilent
  BY <1>2 DEF FallSilent, HeartbeatInvariant, HeartbeatTypeOK, NoncesFresh, AnswersOnTime, NoFalseDeath,
              LagBounded
<1>3. CASE UNCHANGED watching
  BY <1>3 DEF watching, HeartbeatInvariant, HeartbeatTypeOK, NoncesFresh, AnswersOnTime, NoFalseDeath,
              LagBounded
<1> QED
  BY <1>1, <1>2, <1>3, PollKeeps, TrafficKeeps, PongKeeps, ReplayKeeps DEF HeartbeatNext, Over

THEOREM HeartbeatIsInvariant ==
  HeartbeatSpec => []HeartbeatInvariant
BY HeartbeatStart, HeartbeatStep, PTL DEF HeartbeatSpec

(* Types; a poll pings at most once a second, however often it is called. *)
THEOREM HeartbeatTypeCorrect ==
  HeartbeatSpec => []HeartbeatTypeOK
BY HeartbeatIsInvariant, PTL DEF HeartbeatInvariant

(* A peer whose pongs take less than the interval is never given up on. *)
THEOREM LivePeerKept ==
  HeartbeatSpec => []NoFalseDeath
BY HeartbeatIsInvariant, PTL DEF HeartbeatInvariant

(* A silent peer is given up on in time, whatever is replayed. *)
THEOREM SilentPeerDetected ==
  HeartbeatSpec => []DeadInTime
<1>1. HeartbeatInvariant => DeadInTime
  <2> SUFFICES ASSUME HeartbeatInvariant, ~dead PROVE now - heard <= Patience
    BY DEF DeadInTime
  <2> DEFINE m == Tolerated
  <2>1. /\ m \in Nat /\ missed + 1 \in Nat /\ Gap \in Nat /\ missed + 1 <= m
        /\ now \in Nat /\ heard \in Nat /\ last_seen \in Nat
        /\ now <= last_seen + Gap /\ Patience = (m + 1) * Gap
    BY DEF HeartbeatInvariant, LagBounded, HeartbeatTypeOK, Patience
  <2>2. last_seen <= heard \/ last_seen <= heard + (missed + 1) * Gap
    BY DEF HeartbeatInvariant, LagBounded
  <2>3. /\ (missed + 1) * Gap <= m * Gap /\ (missed + 1) * Gap \in Nat /\ m * Gap \in Nat
        /\ (m + 1) * Gap = m * Gap + Gap
    <3> HIDE DEF m, Gap
    <3> QED
      BY <2>1, TimesMonotone, OneMoreTime
  <2> HIDE DEF m, Gap
  <2> QED
    BY <2>1, <2>2, <2>3
<1> QED
  BY <1>1, HeartbeatIsInvariant, PTL
=============================================================================
