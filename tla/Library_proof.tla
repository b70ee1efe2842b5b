--------------------------- MODULE Library_proof ---------------------------
(***************************************************************************)
(* The pure parts of the library whose promises are proved for every value *)
(* of the constants: the change point, the discoveries, the correlations   *)
(* and the fit of Statistics, the registration and the padded storage of   *)
(* Embedding, the machines of Onboarding, and, from TextIs on, the         *)
(* compiler and the matcher of Pattern.                                    *)
(***************************************************************************)
EXTENDS PatternAuthors, Statistics, Embedding, Onboarding, SequenceTheorems, FiniteSetTheorems,
        WellFoundedInduction, TLAPS

(* Induction on the naturals, for a set in the place of a predicate: the   *)
(* least number outside the set has a predecessor, which is in it.         *)
LEMMA LeastElement ==
  ASSUME NEW T, T \subseteq Nat, T # {}
  PROVE  \E n \in T : \A m \in T : n <= m
<1>1. PICK n \in T : \A m \in T : ~(<<m, n>> \in OpToRel(<, Nat))
  BY WFMin, NatLessThanWellFounded
<1>2. \A m \in T : ~(m < n)
  BY <1>1 DEF OpToRel
<1> QED BY <1>2

LEMMA SetInduction ==
  ASSUME NEW T, 0 \in T, \A n \in Nat : n \in T => n + 1 \in T
  PROVE  Nat \subseteq T
<1> DEFINE Missing == Nat \ T
<1> SUFFICES ASSUME Missing # {} PROVE FALSE
  OBVIOUS
<1>1. PICK n \in Missing : \A m \in Missing : n <= m
  <2> HIDE DEF Missing
  <2>1. Missing \subseteq Nat
    BY DEF Missing
  <2> QED BY <2>1, LeastElement
<1>2. n # 0 /\ n - 1 \in Nat /\ n - 1 \in T
  BY <1>1
<1> QED BY <1>1, <1>2

(* A function on 1 .. n is a sequence of length n.                         *)
LEMMA FunctionIsSeq ==
  ASSUME NEW n \in Nat, NEW S, NEW f \in [1 .. n -> S]
  PROVE  f \in Seq(S)
BY SeqDef

LEMMA FunctionLen ==
  ASSUME NEW n \in Nat, NEW S, NEW f \in [1 .. n -> S]
  PROVE  f \in Seq(S) /\ Len(f) = n
<1> DEFINE k == Len(f)
<1>1. f \in Seq(S)
  BY FunctionIsSeq
<1>2. k \in Nat /\ 1 .. k = 1 .. n
  BY <1>1, LenProperties
<1> HIDE DEF k
<1>3. ~(k < n)
  <2> SUFFICES ASSUME k < n PROVE FALSE
    OBVIOUS
  <2>1. n \in 1 .. n /\ n \notin 1 .. k
    BY <1>2
  <2> QED BY <1>2, <2>1
<1>4. ~(n < k)
  <2> SUFFICES ASSUME n < k PROVE FALSE
    OBVIOUS
  <2>1. k \in 1 .. k /\ k \notin 1 .. n
    BY <1>2
  <2> QED BY <1>2, <2>1
<1> QED BY <1>1, <1>2, <1>3, <1>4 DEF k

---------------------------------------------------------------------------
(* Sums.  The recursive function that adds a sequence up has a value at    *)
(* every place, the sum of what is before it.                              *)
IsSum(t, s, n) == t = [i \in 0 .. n |-> IF i = 0 THEN 0 ELSE t[i - 1] + s[i]]

PartialSums(t, s) ==
  /\ t \in [0 .. Len(s) -> Int] /\ t[0] = 0
  /\ \A i \in 1 .. Len(s) : t[i] = t[i - 1] + s[i]

(* The function exists: a longer one extends it.                           *)
LEMMA SumExists ==
  ASSUME NEW s, NEW n \in Nat
  PROVE  \E t : IsSum(t, s, n)
<1> DEFINE T == {m \in Nat : \E t : IsSum(t, s, m)}
<1>1. 0 \in T
  <2> DEFINE t == [i \in 0 .. 0 |-> 0]
  <2>1. IsSum(t, s, 0)
    BY DEF IsSum
  <2> QED BY <2>1
<1>2. ASSUME NEW m \in Nat, m \in T PROVE m + 1 \in T
  <2>1. PICK t : IsSum(t, s, m)
    BY <1>2
  <2> DEFINE u == [i \in 0 .. m + 1 |-> IF i = m + 1 THEN t[m] + s[m + 1] ELSE t[i]]
  <2>2. \A i \in 0 .. m : t[i] = IF i = 0 THEN 0 ELSE t[i - 1] + s[i]
    BY <2>1 DEF IsSum
  <2>3. \A i \in 0 .. m + 1 : u[i] = IF i = 0 THEN 0 ELSE u[i - 1] + s[i]
    BY <2>2
  <2>4. u = [i \in 0 .. m + 1 |-> IF i = 0 THEN 0 ELSE u[i - 1] + s[i]]
    BY <2>3
  <2>5. IsSum(u, s, m + 1)
    BY <2>4 DEF IsSum
  <2> QED BY <2>5
<1> HIDE DEF T
<1>3. Nat \subseteq T
  BY <1>1, <1>2, SetInduction
<1> QED BY <1>3 DEF T

(* The sums of integers are integers.                                      *)
LEMMA SumsAreInts ==
  ASSUME NEW s \in Seq(Int), NEW t, IsSum(t, s, Len(s))
  PROVE  PartialSums(t, s)
<1> DEFINE n == Len(s)
<1>1. n \in Nat /\ \A i \in 1 .. n : s[i] \in Int
  BY ElementOfSeq
<1> HIDE DEF n
<1>2. /\ DOMAIN t = 0 .. n /\ t = [i \in DOMAIN t |-> t[i]] /\ t[0] = 0
      /\ \A i \in 1 .. n : t[i] = t[i - 1] + s[i]
  <2>1. t = [i \in 0 .. n |-> IF i = 0 THEN 0 ELSE t[i - 1] + s[i]]
    BY DEF IsSum, n
  <2>2. DOMAIN t = 0 .. n /\ t = [i \in DOMAIN t |-> t[i]]
    BY <2>1
  <2>3. \A i \in 0 .. n : t[i] = IF i = 0 THEN 0 ELSE t[i - 1] + s[i]
    BY <2>1
  <2>4. t[0] = 0
    BY <1>1, <2>3
  <2>5. \A i \in 1 .. n : i \in 0 .. n /\ i # 0
    BY <1>1
  <2>6. \A i \in 1 .. n : t[i] = t[i - 1] + s[i]
    BY <2>3, <2>5
  <2> QED BY <2>2, <2>4, <2>6
<1> DEFINE T == {i \in Nat : i <= n => t[i] \in Int}
<1>3. 0 \in T
  BY <1>2
<1>4. ASSUME NEW i \in Nat, i \in T PROVE i + 1 \in T
  <2> SUFFICES ASSUME i + 1 <= n PROVE t[i + 1] \in Int
    OBVIOUS
  <2>1. i + 1 \in 1 .. n /\ t[i] \in Int /\ i + 1 - 1 = i
    BY <1>1, <1>4
  <2> QED BY <1>1, <1>2, <2>1, SMTT(30)
<1> HIDE DEF T
<1>5. Nat \subseteq T
  BY <1>3, <1>4, SetInduction
<1>6. \A i \in 0 .. n : t[i] \in Int
  BY <1>1, <1>5 DEF T
<1>7. t \in [0 .. n -> Int]
  BY <1>2, <1>6
<1> QED BY <1>2, <1>7 DEF PartialSums, n

(* The sum of a series is one of these (regression.rs adds with            *)
(* iter().sum()).                                                          *)
LEMMA TotalIsInt ==
  ASSUME NEW s \in Seq(Int)
  PROVE  Total(s) \in Int
<1> DEFINE t == CHOOSE t : t = [i \in 0 .. Len(s) |-> IF i = 0 THEN 0 ELSE t[i - 1] + s[i]]
<1>1. IsSum(t, s, Len(s))
  <2>1. Len(s) \in Nat
    OBVIOUS
  <2> QED BY <2>1, SumExists DEF IsSum
<1>2. Total(s) = t[Len(s)]
  BY DEF Total
<1> HIDE DEF t
<1>3. PartialSums(t, s) /\ Len(s) \in Nat
  BY <1>1, SumsAreInts
<1>4. t[Len(s)] \in Int
  BY <1>3 DEF PartialSums
<1> QED BY <1>2, <1>4

---------------------------------------------------------------------------
(* Comparing quotients with positive denominators crosswise is an order.   *)
LEMMA ProductPositive ==
  ASSUME NEW a \in Nat \ {0}, NEW b \in Nat \ {0}
  PROVE  a * b \in Nat \ {0}
<1> DEFINE d == a - 1
<1>1. d \in Nat /\ a = d + 1
  OBVIOUS
<1> HIDE DEF d
<1>2. (d + 1) * b = d * b + b /\ d * b \in Nat
  BY <1>1
<1> QED BY <1>1, <1>2

LEMMA LeTimes ==
  ASSUME NEW a \in Int, NEW b \in Int, NEW k \in Nat, a <= b
  PROVE  a * k <= b * k
<1> DEFINE d == b - a
<1>1. d \in Nat /\ b = a + d
  OBVIOUS
<1> HIDE DEF d
<1>2. (a + d) * k = a * k + d * k /\ d * k \in Nat /\ a * k \in Int
  BY <1>1
<1> QED BY <1>1, <1>2

LEMMA LtTimes ==
  ASSUME NEW a \in Int, NEW b \in Int, NEW k \in Nat \ {0}, a < b
  PROVE  a * k < b * k
<1> DEFINE d == b - a
<1>1. d \in Nat \ {0} /\ b = a + d
  OBVIOUS
<1> HIDE DEF d
<1>2. (a + d) * k = a * k + d * k /\ a * k \in Int
  BY <1>1
<1>3. d * k \in Nat \ {0}
  BY <1>1, ProductPositive
<1> QED BY <1>1, <1>2, <1>3

LEMMA TimesLe ==
  ASSUME NEW a \in Int, NEW b \in Int, NEW k \in Nat \ {0}, a * k <= b * k
  PROVE  a <= b
<1> SUFFICES ASSUME b < a PROVE FALSE
  OBVIOUS
<1>1. b * k < a * k /\ a * k \in Int /\ b * k \in Int
  BY LtTimes
<1> QED BY <1>1

LEMMA TimesLt ==
  ASSUME NEW a \in Int, NEW b \in Int, NEW k \in Nat \ {0}, a * k < b * k
  PROVE  a < b
<1> SUFFICES ASSUME b <= a PROVE FALSE
  OBVIOUS
<1>1. b * k <= a * k /\ a * k \in Int /\ b * k \in Int
  BY LeTimes
<1> QED BY <1>1

LEMMA Crosswise ==
  ASSUME NEW a \in Int, NEW b \in Int, NEW c \in Int,
         NEW ad \in Nat \ {0}, NEW bd \in Nat \ {0}, NEW cd \in Nat \ {0},
         a * bd <= b * ad
  PROVE  /\ b * cd <= c * bd => a * cd <= c * ad
         /\ b * cd < c * bd => a * cd < c * ad
<1>1. (a * bd) * cd <= (b * ad) * cd
  <2>1. a * bd \in Int /\ b * ad \in Int
    OBVIOUS
  <2> QED BY <2>1, LeTimes
<1>2. (a * bd) * cd = (a * cd) * bd /\ (b * ad) * cd = (b * cd) * ad /\ (c * bd) * ad = (c * ad) * bd
  OBVIOUS
<1>3. /\ a * cd \in Int /\ b * cd \in Int /\ c * bd \in Int /\ c * ad \in Int
      /\ (a * cd) * bd \in Int /\ (b * cd) * ad \in Int /\ (c * ad) * bd \in Int
  OBVIOUS
<1>4. b * cd <= c * bd => (b * cd) * ad <= (c * bd) * ad
  BY <1>3, LeTimes
<1>5. b * cd < c * bd => (b * cd) * ad < (c * bd) * ad
  BY <1>3, LtTimes
<1> DEFINE p1 == a * cd  p2 == c * ad  q1 == p1 * bd  q2 == p2 * bd
<1>6. (b * cd <= c * bd => q1 <= q2) /\ (b * cd < c * bd => q1 < q2)
  BY <1>1, <1>2, <1>3, <1>4, <1>5
<1>7. q1 <= q2 => p1 <= p2
  BY <1>3, TimesLe
<1>8. q1 < q2 => p1 < p2
  BY <1>3, TimesLt
<1> QED BY <1>6, <1>7, <1>8

(* Of finitely many quotients there is a first that none exceeds.          *)
Quotients == Int \X (Nat \ {0})

FirstBest(f, lo, hi, s) ==
  /\ s \in lo .. hi
  /\ \A o \in lo .. hi : ~Less(f[s], f[o]) /\ (o < s => Less(f[o], f[s]))

(* What exceeds nothing that is exceeded: Less and its negation are        *)
(* transitive through b.                                                   *)
LEMMA LessOrder ==
  ASSUME NEW a \in Quotients, NEW b \in Quotients, NEW c \in Quotients, ~Less(b, a)
  PROVE  /\ ~Less(c, b) => ~Less(c, a)
         /\ Less(b, c) => Less(a, c)
<1>1. PICK an \in Int, ad \in Nat \ {0}, bn \in Int, bd \in Nat \ {0}, cn \in Int, cd \in Nat \ {0} :
        a = <<an, ad>> /\ b = <<bn, bd>> /\ c = <<cn, cd>>
  BY DEF Quotients
<1>2. /\ Less(b, a) <=> bn * ad < an * bd
      /\ Less(c, b) <=> cn * bd < bn * cd
      /\ Less(c, a) <=> cn * ad < an * cd
      /\ Less(b, c) <=> bn * cd < cn * bd
      /\ Less(a, c) <=> an * cd < cn * ad
  BY <1>1 DEF Less
<1>3. /\ bn * ad \in Int /\ an * bd \in Int /\ cn * bd \in Int /\ bn * cd \in Int
      /\ cn * ad \in Int /\ an * cd \in Int
  OBVIOUS
<1>4. an * bd <= bn * ad
  BY <1>2, <1>3
<1>5. /\ bn * cd <= cn * bd => an * cd <= cn * ad
      /\ bn * cd < cn * bd => an * cd < cn * ad
  BY <1>4, Crosswise
<1> QED BY <1>2, <1>3, <1>5

(* No quotient is less than one that is less than it.                      *)
LEMMA LessAsymmetric ==
  ASSUME NEW a \in Quotients, NEW b \in Quotients, Less(a, b)
  PROVE  ~Less(b, a)
<1>1. PICK an \in Int, ad \in Nat \ {0}, bn \in Int, bd \in Nat \ {0} : a = <<an, ad>> /\ b = <<bn, bd>>
  BY DEF Quotients
<1>2. an * bd \in Int /\ bn * ad \in Int
  OBVIOUS
<1> QED BY <1>1, <1>2 DEF Less

(* By induction on how many are looked at: the next one replaces the best  *)
(* so far only when it exceeds it.                                         *)
LEMMA FirstBestExists ==
  ASSUME NEW lo \in Nat, NEW hi \in Nat, lo <= hi, NEW f \in [lo .. hi -> Quotients]
  PROVE  \E s : FirstBest(f, lo, hi, s)
<1> DEFINE T == {k \in Nat : lo + k <= hi => \E s : FirstBest(f, lo, lo + k, s)}
<1>1. 0 \in T
  <2>1. lo .. lo + 0 = {lo} /\ lo \in lo .. hi /\ ~(lo < lo)
    OBVIOUS
  <2>2. ~Less(f[lo], f[lo])
    <3>1. PICK a \in Int, d \in Nat \ {0} : f[lo] = <<a, d>>
      BY <2>1 DEF Quotients
    <3>2. a * d \in Int
      OBVIOUS
    <3> QED BY <3>1, <3>2 DEF Less
  <2>3. FirstBest(f, lo, lo + 0, lo)
    BY <2>1, <2>2 DEF FirstBest
  <2> QED BY <2>3
<1>2. ASSUME NEW k \in Nat, k \in T PROVE k + 1 \in T
  <2> SUFFICES ASSUME lo + (k + 1) <= hi PROVE \E s : FirstBest(f, lo, lo + (k + 1), s)
    OBVIOUS
  <2> DEFINE m == lo + k  new == m + 1
  <2>1. m \in Nat /\ lo <= m /\ new <= hi /\ lo + (k + 1) = new /\ lo + k <= hi
    OBVIOUS
  <2>2. PICK s : FirstBest(f, lo, m, s)
    BY <1>2, <2>1
  <2> HIDE DEF m
  <2>3. /\ s \in lo .. m /\ new \in lo .. hi /\ \A o \in lo .. m : o \in lo .. hi /\ o < new /\ o # new
        /\ \A o \in lo .. new : o \in lo .. m \/ o = new
        /\ ~(new < new) /\ ~(new < s) /\ s \in lo .. new /\ new \in lo .. new
    BY <2>1, <2>2 DEF FirstBest
  <2>4. \A o \in lo .. new : f[o] \in Quotients
    BY <2>3
  <2> HIDE DEF new
  <2>5. CASE Less(f[s], f[new])
    <3>1. ~Less(f[new], f[s])
      <4>1. f[s] \in Quotients /\ f[new] \in Quotients
        BY <2>3, <2>4
      <4> DEFINE u == f[s]  v == f[new]
      <4>2. u \in Quotients /\ v \in Quotients /\ Less(u, v)
        BY <2>5, <4>1
      <4>3. SUFFICES ~Less(v, u)
        OBVIOUS
      <4> HIDE DEF u, v
      <4> QED BY <4>2, LessAsymmetric
    <3>2. ASSUME NEW o \in lo .. m PROVE Less(f[o], f[new]) /\ ~Less(f[new], f[o])
      <4>1. ~Less(f[s], f[o]) /\ f[o] \in Quotients /\ f[s] \in Quotients /\ f[new] \in Quotients
        BY <2>2, <2>3, <2>4 DEF FirstBest
      <4>2. Less(f[o], f[new])
        BY <2>5, <4>1, LessOrder
      <4>3. ~Less(f[new], f[o])
        BY <3>1, <4>1, LessOrder
      <4> QED BY <4>2, <4>3
    <3>3. ~Less(f[new], f[new])
      <4> SUFFICES ASSUME Less(f[new], f[new]) PROVE FALSE
        OBVIOUS
      <4> DEFINE u == f[new]
      <4>1. u \in Quotients /\ Less(u, u)
        BY <2>3, <2>4
      <4> HIDE DEF u
      <4> QED BY <4>1, LessAsymmetric
    <3>4. FirstBest(f, lo, new, new)
      BY <2>3, <3>2, <3>3 DEF FirstBest
    <3> QED BY <2>1, <3>4
  <2>6. CASE ~Less(f[s], f[new])
    <3>1. FirstBest(f, lo, new, s)
      BY <2>2, <2>3, <2>6 DEF FirstBest
    <3> QED BY <2>1, <3>1
  <2> QED BY <2>5, <2>6
<1> HIDE DEF T
<1>3. hi - lo \in Nat /\ lo + (hi - lo) = hi
  OBVIOUS
<1>4. hi - lo \in T
  BY <1>1, <1>2, <1>3, SetInduction
<1> QED BY <1>3, <1>4 DEF T

---------------------------------------------------------------------------
(* The change point.                                                       *)
LEMMA SegmentBounds ==
  ASSUME NEW m \in Nat
  PROVE  Segment(m) \in Nat /\ Segment(m) >= m /\ Segment(m) >= 2
<1> DEFINE k == IF m >= 2 THEN m ELSE 2
<1>1. k \in {m, 2} /\ \A z \in {m, 2} : k >= z
  OBVIOUS
<1>2. \A z \in {m, 2} : (\A o \in {m, 2} : z >= o) => z >= m /\ z >= 2 /\ z \in Nat
  OBVIOUS
<1>3. Max({m, 2}) \in {m, 2} /\ \A z \in {m, 2} : Max({m, 2}) >= z
  BY <1>1 DEF Max
<1> QED BY <1>2, <1>3 DEF Segment

(* The split that Best chooses exists when the series is long enough, and  *)
(* both of its sides are long enough.                                      *)
LEMMA BestIsFirstBest ==
  ASSUME NEW s \in Seq(Int), NEW m \in Nat, Len(s) >= 2 * Segment(m)
  PROVE  /\ Best(s, m) \in Splits(s, m)
         /\ \A o \in Splits(s, m) : ~Less(Score(s, Best(s, m)), Score(s, o))
         /\ \A o \in Splits(s, m) :
              /\ o \in 1 .. Len(s) - 1 /\ o >= m /\ Len(s) - o >= m
              /\ Cumulative(s, o) \in Int /\ o * (Len(s) - o) \in Nat \ {0}
<1> DEFINE n == Len(s)  k == Segment(m)  hi == n - k
           f == [o \in k .. hi |-> Score(s, o)]
<1>1. k \in Nat /\ k >= m /\ k >= 2 /\ n \in Nat /\ n >= 2 * k
  BY SegmentBounds
<1>2. Splits(s, m) = k .. hi
  BY DEF Splits
<1> HIDE DEF k
<1>3. hi \in Nat /\ k <= hi
  BY <1>1
<1>4. ASSUME NEW o \in k .. hi
      PROVE  /\ o \in 1 .. n - 1 /\ o >= m /\ n - o >= m
             /\ Cumulative(s, o) \in Int /\ o * (n - o) \in Nat \ {0}
  <2>1. o \in 1 .. n - 1 /\ o >= m /\ n - o >= m /\ o \in Nat \ {0} /\ n - o \in Nat \ {0}
    BY <1>1
  <2>2. Prefix(s, o) \in Seq(Int)
    BY <2>1, SubSeqProperties DEF Prefix
  <2>3. Total(Prefix(s, o)) \in Int /\ Total(s) \in Int
    BY <2>2, TotalIsInt
  <2>4. Cumulative(s, o) \in Int
    BY <1>1, <2>1, <2>3 DEF Cumulative
  <2>5. o * (n - o) \in Nat \ {0}
    <3> DEFINE r == n - o
    <3> HIDE DEF r
    <3>1. o * r \in Nat \ {0}
      BY <2>1, ProductPositive DEF r
    <3> QED BY <3>1 DEF r
  <2> QED BY <2>1, <2>4, <2>5
<1> HIDE DEF hi
<1>5. f \in [k .. hi -> Quotients]
  <2> SUFFICES ASSUME NEW o \in k .. hi PROVE Score(s, o) \in Quotients
    OBVIOUS
  <2> DEFINE c == Cumulative(s, o)
  <2>1. c \in Int /\ o * (n - o) \in Nat \ {0}
    BY <1>4
  <2>2. Score(s, o) = <<c * c, o * (n - o)>>
    BY DEF Score
  <2> HIDE DEF c
  <2>3. c * c \in Int
    BY <2>1
  <2> QED BY <2>1, <2>2, <2>3 DEF Quotients
<1>6. \A o \in k .. hi : f[o] = Score(s, o)
  OBVIOUS
<1> HIDE DEF f
<1>7. PICK b : FirstBest(f, k, hi, b)
  BY <1>1, <1>3, <1>5, FirstBestExists
<1>8. /\ b \in k .. hi
      /\ \A o \in k .. hi : ~Less(Score(s, b), Score(s, o)) /\ (o < b => Less(Score(s, o), Score(s, b)))
  BY <1>6, <1>7 DEF FirstBest
<1>9. /\ Best(s, m) \in k .. hi
      /\ \A o \in k .. hi : ~Less(Score(s, Best(s, m)), Score(s, o))
  BY <1>2, <1>8 DEF Best
<1> QED BY <1>2, <1>4, <1>9

(* What a score says of the explained sum of squares: a constant more, and *)
(* n times as much.                                                        *)
LEMMA Decomposition ==
  ASSUME NEW s \in Int, NEW r \in Int, NEW a \in Int, NEW b \in Int
  PROVE  LET c == (s + r) * a - s * (a + b)
         IN (s + r) * ((a * a) * r + (b * b) * s) = c * c + (s * r) * ((a + b) * (a + b))
<1> DEFINE c == (s + r) * a - s * (a + b)
<1>1. c = r * a - s * b
  OBVIOUS
<1>2. (r * a - s * b) * (r * a - s * b) = (r * a) * (r * a) - 2 * ((r * a) * (s * b)) + (s * b) * (s * b)
  OBVIOUS
<1>3. (s * r) * ((a + b) * (a + b)) = (s * r) * (a * a) + 2 * ((s * r) * (a * b)) + (s * r) * (b * b)
  OBVIOUS
<1>4. (s + r) * ((a * a) * r + (b * b) * s)
        = (s * r) * (a * a) + (s * b) * (s * b) + (r * a) * (r * a) + (s * r) * (b * b)
  OBVIOUS
<1>5. (r * a) * (s * b) = (s * r) * (a * b)
  OBVIOUS
<1> QED BY <1>1, <1>2, <1>3, <1>4, <1>5

(* So splits compare by what they explain as they do by their scores.      *)
LEMMA ComparedAlike ==
  ASSUME NEW n \in Nat \ {0}, NEW w \in Int,
         NEW e1 \in Int, NEW q1 \in Int, NEW d1 \in Nat \ {0}, n * e1 = q1 + d1 * w,
         NEW e2 \in Int, NEW q2 \in Int, NEW d2 \in Nat \ {0}, n * e2 = q2 + d2 * w,
         ~Less(<<q1, d1>>, <<q2, d2>>)
  PROVE  ~Less(<<e1, d1>>, <<e2, d2>>)
<1> DEFINE p1 == e1 * d2  p2 == e2 * d1  z1 == q1 * d2  z2 == q2 * d1  v == (d1 * d2) * w
<1>1. p1 \in Int /\ p2 \in Int /\ z1 \in Int /\ z2 \in Int /\ v \in Int
  OBVIOUS
<1>2. z2 <= z1
  BY <1>1 DEF Less
<1>3. p1 * n = z1 + v
  <2>1. p1 * n = (n * e1) * d2
    OBVIOUS
  <2>2. (q1 + d1 * w) * d2 = q1 * d2 + (d1 * d2) * w
    OBVIOUS
  <2> QED BY <2>1, <2>2
<1>4. p2 * n = z2 + v
  <2>1. p2 * n = (n * e2) * d1
    OBVIOUS
  <2>2. (q2 + d2 * w) * d1 = q2 * d1 + (d1 * d2) * w
    OBVIOUS
  <2> QED BY <2>1, <2>2
<1>5. Less(<<e1, d1>>, <<e2, d2>>) <=> p1 < p2
  BY DEF Less
<1> HIDE DEF p1, p2, z1, z2, v
<1>6. p2 * n <= p1 * n
  BY <1>1, <1>2, <1>3, <1>4
<1>7. p2 <= p1
  BY <1>1, <1>6, TimesLe
<1> QED BY <1>1, <1>5, <1>7

Explained(s, k) ==
  LET a == Total(Prefix(s, k))  b == Total(s) - a
  IN a * a * (Len(s) - k) + b * b * k

(* The score of a split and what the means of its sides explain, term by   *)
(* term.                                                                   *)
LEMMA ScoreExplains ==
  ASSUME NEW s \in Seq(Int), NEW k \in 1 .. Len(s) - 1
  PROVE  /\ Explained(s, k) \in Int
         /\ Len(s) * Explained(s, k)
              = Cumulative(s, k) * Cumulative(s, k) + (k * (Len(s) - k)) * (Total(s) * Total(s))
<1> DEFINE n == Len(s)  r == n - k  a == Total(Prefix(s, k))  t == Total(s)  b == t - a
<1>1. n \in Nat /\ k \in Int /\ r \in Int /\ n = k + r
  OBVIOUS
<1>2. Prefix(s, k) \in Seq(Int)
  BY SubSeqProperties DEF Prefix
<1>3. a \in Int /\ t \in Int
  BY <1>2, TotalIsInt
<1>4. Explained(s, k) = (a * a) * r + (b * b) * k /\ Cumulative(s, k) = n * a - k * t
  BY DEF Explained, Cumulative
<1> HIDE DEF n, r, a, t
<1>5. b \in Int /\ a + b = t
  BY <1>3
<1> HIDE DEF b
<1>6. (a * a) * r + (b * b) * k \in Int
  BY <1>1, <1>3, <1>5
<1>7. (k + r) * ((a * a) * r + (b * b) * k)
        = ((k + r) * a - k * (a + b)) * ((k + r) * a - k * (a + b)) + (k * r) * ((a + b) * (a + b))
  BY <1>1, <1>3, <1>5, Decomposition
<1>8. n * Explained(s, k) = Cumulative(s, k) * Cumulative(s, k) + (k * r) * (t * t)
  BY <1>1, <1>4, <1>5, <1>7
<1> QED BY <1>4, <1>6, <1>8 DEF n, r, t

(* So the best split by its score is the best by what it explains.         *)
LEMMA BestExplainsMost ==
  ASSUME NEW s \in Seq(Int), NEW m \in Nat, Len(s) >= 2 * Segment(m)
  PROVE  /\ Best(s, m) \in Nat /\ Best(s, m) >= m /\ Len(s) - Best(s, m) >= m
         /\ \A o \in Splits(s, m) :
              ~Less(<<Explained(s, Best(s, m)), Best(s, m) * (Len(s) - Best(s, m))>>,
                    <<Explained(s, o), o * (Len(s) - o)>>)
<1> DEFINE k == Best(s, m)  n == Len(s)  w == Total(s) * Total(s)
           Square(o) == Cumulative(s, o) * Cumulative(s, o)
           Sides(o) == o * (n - o)
<1>1. k \in Splits(s, m)
  BY BestIsFirstBest
<1>2. \A o \in Splits(s, m) : ~Less(<<Square(k), Sides(k)>>, <<Square(o), Sides(o)>>)
  BY BestIsFirstBest DEF Score
<1>3. \A o \in Splits(s, m) :
        o \in 1 .. n - 1 /\ o >= m /\ n - o >= m /\ Cumulative(s, o) \in Int /\ Sides(o) \in Nat \ {0}
  BY BestIsFirstBest
<1>4. \A o \in Splits(s, m) : Square(o) \in Int
  BY <1>3
<1>5. \A o \in Splits(s, m) : Explained(s, o) \in Int /\ n * Explained(s, o) = Square(o) + Sides(o) * w
  BY <1>3, ScoreExplains
<1>6. w \in Int
  <2>1. Total(s) \in Int
    BY TotalIsInt
  <2> QED BY <2>1
<1>7. n \in Nat \ {0}
  BY <1>1, <1>3
<1>8. k \in Nat /\ k >= m /\ n - k >= m
  BY <1>1, <1>3
<1>9. ASSUME NEW o \in Splits(s, m)
      PROVE  ~Less(<<Explained(s, k), Sides(k)>>, <<Explained(s, o), Sides(o)>>)
  <2> DEFINE e1 == Explained(s, k)  e2 == Explained(s, o)
             q1 == Square(k)  q2 == Square(o)  d1 == Sides(k)  d2 == Sides(o)
  <2>1. e1 \in Int /\ q1 \in Int /\ d1 \in Nat \ {0} /\ n * e1 = q1 + d1 * w
    BY <1>1, <1>3, <1>4, <1>5
  <2>2. e2 \in Int /\ q2 \in Int /\ d2 \in Nat \ {0} /\ n * e2 = q2 + d2 * w
    BY <1>3, <1>4, <1>5
  <2>3. ~Less(<<q1, d1>>, <<q2, d2>>)
    BY <1>2
  <2> HIDE DEF e1, e2, q1, q2, d1, d2, n, w, k
  <2>4. ~Less(<<e1, d1>>, <<e2, d2>>)
    BY <1>6, <1>7, <2>1, <2>2, <2>3, ComparedAlike
  <2> QED BY <2>4 DEF e1, e2, d1, d2
<1> QED BY <1>8, <1>9

(* Unless the series was refused or the test said no, the answer is the    *)
(* best split.                                                             *)
LEMMA SplitFoundAtBest ==
  ASSUME NEW S, NEW s \in Seq(S), NEW m \in Nat, cusum_changepoint(s, m, TRUE).index # 0
  PROVE  /\ Len(s) >= 2 * Segment(m) /\ check_finite(s)
         /\ cusum_changepoint(s, m, TRUE).index = Best(s, m)
<1> DEFINE k == Best(s, m)  after == SubSeq(s, k + 1, Len(s))
           found == IF Constant(Prefix(s, k)) /\ Constant(after)
                    THEN IF Prefix(s, k)[1] # after[1] THEN Split(k) ELSE NoSplit
                    ELSE IF TRUE THEN Split(k) ELSE NoSplit
           short == Len(s) < 2 * Segment(m)  long == Len(s) >= 2 * Segment(m)
           finite == check_finite(s)
           Answer(e) == [error |-> e, index |-> 0]
<1>1. cusum_changepoint(s, m, TRUE)
        = CASE short -> Answer("TooFewObservations")
            [] long /\ ~finite -> Answer("NotFinite")
            [] OTHER -> found
  BY DEF cusum_changepoint
<1>2. ~short <=> long
  <2> DEFINE g == Segment(m)
  <2>1. g \in Nat
    BY SegmentBounds
  <2>2. Len(s) \in Nat
    OBVIOUS
  <2> HIDE DEF g
  <2>3. ~(Len(s) < 2 * g) <=> Len(s) >= 2 * g
    BY <2>1, <2>2
  <2> QED BY <2>3 DEF g
<1>3. \A e : Answer(e).index = 0
  OBVIOUS
<1>4. found \in {Split(k), NoSplit}
  OBVIOUS
<1>5. Split(k).index = k /\ NoSplit.index = 0
  BY DEF Split, NoSplit
<1> HIDE DEF k, after, found, short, long, finite, Answer
<1>6. CASE short
  BY <1>1, <1>2, <1>3, <1>6
<1>7. CASE long /\ ~finite
  BY <1>1, <1>2, <1>3, <1>7
<1>8. CASE long /\ finite
  <2>1. cusum_changepoint(s, m, TRUE) = found
    BY <1>1, <1>2, <1>8
  <2> QED BY <1>4, <1>5, <1>8, <2>1 DEF k, long, finite
<1> QED BY <1>2, <1>6, <1>7, <1>8

(* The series observed so far hold integers and values that are not finite. *)
SeriesTyped ==
  /\ x \in Seq(Observations \cup {NotFinite})
  /\ y \in Seq(Observations \cup {NotFinite})

LEMMA SeriesStep ==
  ASSUME SeriesTyped, [SeriesNext]_series
  PROVE  SeriesTyped'
<1>1. ASSUME NEW a \in Observations, NEW b \in Observations, Observe(a, b) PROVE SeriesTyped'
  BY <1>1 DEF Observe, SeriesTyped
<1>2. ASSUME NEW b \in Observations \cup {NotFinite}, ObserveResponse(b) PROVE SeriesTyped'
  BY <1>2 DEF ObserveResponse, SeriesTyped
<1>3. CASE UNCHANGED series
  BY <1>3 DEF series, SeriesTyped
<1> QED BY <1>1, <1>2, <1>3 DEF SeriesNext

(* The split that cusum_changepoint reports leaves both sides at least     *)
(* min_segment observations, and no other allowed split explains more of   *)
(* the sum of squares: it is the maximum-likelihood split for a level      *)
(* shift, for series of any length.                                        *)
THEOREM SplitFoundIsBest == SeriesSpec => []SplitIsBest
<1>1. SeriesInit => SeriesTyped
  BY EmptySeq DEF SeriesInit, SeriesTyped
<1>2. SeriesTyped /\ [SeriesNext]_series => SeriesTyped'
  BY SeriesStep
<1>3. SeriesTyped => SplitIsBest
  <2> SUFFICES ASSUME SeriesTyped PROVE SplitIsBest
    OBVIOUS
  <2> SUFFICES ASSUME NEW m \in MinSegments, cusum_changepoint(y, m, TRUE).index # 0
               PROVE  LET found == cusum_changepoint(y, m, TRUE)
                          k == found.index
                      IN /\ k >= m /\ Len(y) - k >= m
                         /\ \A s \in Splits(y, m) :
                              ~Less(<<Explained(y, k), k * (Len(y) - k)>>, <<Explained(y, s), s * (Len(y) - s)>>)
    BY DEF SplitIsBest, Explained
  <2>1. m \in Nat /\ Observations \subseteq Int
    BY StatisticsAssumption
  <2>2. y \in Seq(Observations \cup {NotFinite})
    BY DEF SeriesTyped
  <2>3. Len(y) >= 2 * Segment(m) /\ check_finite(y) /\ cusum_changepoint(y, m, TRUE).index = Best(y, m)
    BY <2>1, <2>2, SplitFoundAtBest
  <2>4. y \in Seq(Int)
    <3>1. y \in [1 .. Len(y) -> Observations \cup {NotFinite}] /\ Len(y) \in Nat
      BY <2>2
    <3>2. \A i \in 1 .. Len(y) : y[i] \in Int
      BY <2>1, <2>3, <3>1 DEF check_finite
    <3>3. y \in [1 .. Len(y) -> Int]
      BY <3>1, <3>2
    <3> QED BY <3>1, <3>3, FunctionIsSeq
  <2> QED BY <2>1, <2>3, <2>4, BestExplainsMost
<1> QED BY <1>1, <1>2, <1>3, PTL DEF SeriesSpec

---------------------------------------------------------------------------
(* Sorting.  Arranged puts an element where as many stand before it as     *)
(* precede it; for a strict order the places are 1, 2, ..., one for each.  *)
OrdersStrictly(R, S) ==
  /\ \A i \in S : <<i, i>> \notin R
  /\ \A i, j \in S : i # j => <<i, j>> \in R \/ <<j, i>> \in R
  /\ \A i, j, k \in S : <<i, j>> \in R /\ <<j, k>> \in R => <<i, k>> \in R

Preceding(S, R, i) == {j \in S : <<j, i>> \in R}

LEMMA MorePrecede ==
  ASSUME NEW S, IsFiniteSet(S), NEW R, OrdersStrictly(R, S), NEW i \in S, NEW j \in S, <<i, j>> \in R
  PROVE  Cardinality(Preceding(S, R, i)) < Cardinality(Preceding(S, R, j))
<1> DEFINE A == Preceding(S, R, i)  B == Preceding(S, R, j)
<1>1. A \subseteq B /\ i \in B /\ i \notin A /\ B \subseteq S
  BY DEF OrdersStrictly, Preceding
<1> HIDE DEF A, B
<1>2. IsFiniteSet(B)
  BY <1>1, FS_Subset
<1>3. /\ IsFiniteSet(A) /\ Cardinality(A) <= Cardinality(B)
      /\ Cardinality(A) # Cardinality(B)
  BY <1>1, <1>2, FS_Subset
<1>4. Cardinality(A) \in Nat /\ Cardinality(B) \in Nat
  BY <1>2, <1>3, FS_CardinalityType
<1>5. Cardinality(A) < Cardinality(B)
  BY <1>3, <1>4
<1> QED BY <1>5 DEF A, B

LEMMA FewerPrecede ==
  ASSUME NEW S, IsFiniteSet(S), NEW R, OrdersStrictly(R, S), NEW i \in S
  PROVE  Cardinality(Preceding(S, R, i)) + 1 \in 1 .. Cardinality(S)
<1> DEFINE P == Preceding(S, R, i)
<1>1. P \subseteq S /\ i \notin P
  BY DEF OrdersStrictly, Preceding
<1> HIDE DEF P
<1>2. /\ IsFiniteSet(P) /\ Cardinality(P) <= Cardinality(S)
      /\ Cardinality(P) # Cardinality(S)
  BY <1>1, FS_Subset
<1>3. Cardinality(P) \in Nat /\ Cardinality(S) \in Nat
  BY <1>2, FS_CardinalityType
<1>4. Cardinality(P) + 1 \in 1 .. Cardinality(S)
  BY <1>2, <1>3
<1> QED BY <1>4 DEF P

LEMMA ArrangedIsSorted ==
  ASSUME NEW S, IsFiniteSet(S), NEW R, OrdersStrictly(R, S)
  PROVE  /\ Cardinality(S) \in Nat
         /\ Arranged(S, R) \in [1 .. Cardinality(S) -> S]
         /\ \A i \in S : \E k \in 1 .. Cardinality(S) : Arranged(S, R)[k] = i
         /\ \A k, l \in 1 .. Cardinality(S) : k < l <=> <<Arranged(S, R)[k], Arranged(S, R)[l]>> \in R
<1> DEFINE n == Cardinality(S)
           place == [i \in S |-> Cardinality(Preceding(S, R, i)) + 1]
           L == Arranged(S, R)
<1>1. n \in Nat
  BY FS_CardinalityType
<1>2. place \in [S -> 1 .. n]
  BY FewerPrecede
<1>3. \A i \in S : place[i] = Cardinality(Preceding(S, R, i)) + 1 /\ place[i] \in 1 .. n
  BY FewerPrecede
<1>4. \A i, j \in S : <<i, j>> \in R => place[i] < place[j]
  <2> SUFFICES ASSUME NEW i \in S, NEW j \in S, <<i, j>> \in R PROVE place[i] < place[j]
    OBVIOUS
  <2> DEFINE a == Cardinality(Preceding(S, R, i))  b == Cardinality(Preceding(S, R, j))
  <2>1. a < b
    BY MorePrecede
  <2>2. place[i] = a + 1 /\ place[j] = b + 1 /\ a + 1 \in 1 .. n /\ b + 1 \in 1 .. n
    BY FewerPrecede
  <2>3. IsFiniteSet(Preceding(S, R, i)) /\ IsFiniteSet(Preceding(S, R, j))
    BY FS_Subset DEF Preceding
  <2>4. a \in Nat /\ b \in Nat
    BY <2>3, FS_CardinalityType
  <2> HIDE DEF a, b, place
  <2> QED BY <2>1, <2>2, <2>4
<1>5. L = [k \in 1 .. n |-> CHOOSE i \in S : place[i] = k]
  <2>1. L = [k \in 1 .. n |-> CHOOSE i \in S : Cardinality(Preceding(S, R, i)) = k - 1]
    BY DEF Arranged, Preceding
  <2>2. ASSUME NEW k \in 1 .. n, NEW i \in S
        PROVE  Cardinality(Preceding(S, R, i)) = k - 1 <=> place[i] = k
    <3> DEFINE a == Cardinality(Preceding(S, R, i))
    <3>1. place[i] = a + 1
      OBVIOUS
    <3>2. a \in Nat
      BY FS_Subset, FS_CardinalityType DEF Preceding
    <3> HIDE DEF a, place
    <3>3. a = k - 1 <=> place[i] = k
      BY <1>1, <3>1, <3>2
    <3> QED BY <3>3 DEF a
  <2>3. ASSUME NEW k \in 1 .. n
        PROVE  (CHOOSE i \in S : Cardinality(Preceding(S, R, i)) = k - 1) = CHOOSE i \in S : place[i] = k
    BY <2>2
  <2> QED BY <2>1, <2>3
<1> HIDE DEF place, L
<1>6. place \in Injection(S, 1 .. n)
  <2>1. \A i, j \in S : i # j => place[i] # place[j]
    <3> SUFFICES ASSUME NEW i \in S, NEW j \in S, i # j PROVE place[i] # place[j]
      OBVIOUS
    <3>1. place[i] < place[j] \/ place[j] < place[i]
      BY <1>4 DEF OrdersStrictly
    <3>2. place[i] \in Int /\ place[j] \in Int
      BY <1>1, <1>3
    <3> QED BY <3>1, <3>2
  <2> QED BY <1>2, <2>1 DEF Injection, IsInjective
<1>7. \A k \in 1 .. n : \E i \in S : place[i] = k
  <2>1. IsFiniteSet(1 .. n) /\ Cardinality(1 .. n) = n
    BY <1>1, FS_Interval
  <2>2. place \in Surjection(S, 1 .. n)
    BY <1>6, <2>1, FS_Injection
  <2> QED BY <2>2 DEF Surjection
<1>8. \A k \in 1 .. n : L[k] \in S /\ place[L[k]] = k
  <2> SUFFICES ASSUME NEW k \in 1 .. n PROVE L[k] \in S /\ place[L[k]] = k
    OBVIOUS
  <2>1. L[k] = CHOOSE i \in S : place[i] = k
    BY <1>5
  <2>2. \E i \in S : place[i] = k
    BY <1>7
  <2> QED BY <2>1, <2>2
<1>9. L \in [1 .. n -> S]
  BY <1>5, <1>8
<1>10. \A i \in S : place[i] \in 1 .. n /\ L[place[i]] = i
  <2> SUFFICES ASSUME NEW i \in S PROVE place[i] \in 1 .. n /\ L[place[i]] = i
    OBVIOUS
  <2>1. place[i] \in 1 .. n
    BY <1>3
  <2>2. L[place[i]] \in S /\ place[L[place[i]]] = place[i]
    BY <1>8, <2>1
  <2> QED BY <1>6, <2>1, <2>2 DEF Injection, IsInjective
<1>11. ASSUME NEW k \in 1 .. n, NEW l \in 1 .. n
       PROVE  k < l <=> <<L[k], L[l]>> \in R
  <2>1. <<L[k], L[l]>> \in R => k < l
    BY <1>4, <1>8
  <2>2. <<L[l], L[k]>> \in R => l < k
    BY <1>4, <1>8
  <2>3. L[k] = L[l] => k = l
    BY <1>8
  <2>4. L[k] = L[l] \/ <<L[k], L[l]>> \in R \/ <<L[l], L[k]>> \in R
    BY <1>8 DEF OrdersStrictly
  <2> QED BY <1>1, <2>1, <2>2, <2>3, <2>4
<1> QED BY <1>1, <1>9, <1>10, <1>11 DEF L

(* The three orders: by place, by value and then place, by strength and    *)
(* then place.                                                             *)
LEMMA PlacesAreOrdered ==
  ASSUME NEW S, S \subseteq Int
  PROVE  OrdersStrictly(ByPlace(S), S)
<1>1. \A i, j \in S : <<i, j>> \in ByPlace(S) <=> i < j
  BY DEF ByPlace
<1> QED BY <1>1 DEF OrdersStrictly

LEMMA ValuesAreOrdered ==
  ASSUME NEW n \in Nat, NEW s \in [1 .. n -> Int]
  PROVE  /\ DOMAIN s = 1 .. n
         /\ OrdersStrictly(ByValue(s), 1 .. n)
         /\ \A a, b \in 1 .. n : <<a, b>> \in ByValue(s) => s[a] <= s[b]
<1>1. \A a, b \in 1 .. n : <<a, b>> \in ByValue(s) <=> s[a] < s[b] \/ (s[a] = s[b] /\ a < b)
  BY DEF ByValue
<1>2. \A a \in 1 .. n : s[a] \in Int
  OBVIOUS
<1>3. \A a \in 1 .. n : <<a, a>> \notin ByValue(s)
  BY <1>1, <1>2
<1>4. \A a, b \in 1 .. n : a # b => <<a, b>> \in ByValue(s) \/ <<b, a>> \in ByValue(s)
  BY <1>1, <1>2
<1>5. ASSUME NEW a \in 1 .. n, NEW b \in 1 .. n, NEW c \in 1 .. n,
             <<a, b>> \in ByValue(s), <<b, c>> \in ByValue(s)
      PROVE  <<a, c>> \in ByValue(s)
  <2> DEFINE u == s[a]  v == s[b]  w == s[c]
  <2>1. u \in Int /\ v \in Int /\ w \in Int
    BY <1>2
  <2>2. (u < v \/ (u = v /\ a < b)) /\ (v < w \/ (v = w /\ b < c))
    BY <1>1, <1>5
  <2>3. <<a, c>> \in ByValue(s) <=> u < w \/ (u = w /\ a < c)
    BY <1>1
  <2> HIDE DEF u, v, w
  <2> QED BY <2>1, <2>2, <2>3
<1>6. \A a, b \in 1 .. n : <<a, b>> \in ByValue(s) => s[a] <= s[b]
  BY <1>1, <1>2
<1> QED BY <1>3, <1>4, <1>5, <1>6 DEF OrdersStrictly

Tested(o, S) == \A i \in S : o[i].sxy \in Int /\ o[i].square \in Nat \ {0}

LEMMA SquaresAreQuotients ==
  ASSUME NEW n \in Int, NEW d \in Nat \ {0}
  PROVE  <<n * n, d>> \in Quotients
BY DEF Quotients

LEMMA StrengthsAreOrdered ==
  ASSUME NEW o, NEW S, S \subseteq Int, Tested(o, S)
  PROVE  /\ OrdersStrictly(ByStrength(o, S), S)
         /\ \A i, j \in S : <<i, j>> \in ByStrength(o, S) => ~Stronger(o[j], o[i])
<1> DEFINE f == [i \in S |-> <<o[i].sxy * o[i].sxy, o[i].square>>]
<1>1. \A i \in S : f[i] \in Quotients
  BY SquaresAreQuotients DEF Tested
<1>2. \A i, j \in S : Stronger(o[i], o[j]) <=> Less(f[j], f[i])
  BY DEF Stronger
<1>3. \A i, j \in S : <<i, j>> \in ByStrength(o, S) <=> Less(f[j], f[i]) \/ (~Less(f[i], f[j]) /\ i < j)
  BY <1>2 DEF ByStrength
<1> HIDE DEF f
<1>4. \A i, j \in S : Less(f[i], f[j]) => ~Less(f[j], f[i])
  BY <1>1, LessAsymmetric
<1>5. \A i, j, k \in S : ~Less(f[j], f[i]) => /\ ~Less(f[k], f[j]) => ~Less(f[k], f[i])
                                              /\ Less(f[j], f[k]) => Less(f[i], f[k])
  BY <1>1, LessOrder
<1>6. \A i \in S : <<i, i>> \notin ByStrength(o, S)
  BY <1>3, <1>4
<1>7. \A i, j \in S : i # j => <<i, j>> \in ByStrength(o, S) \/ <<j, i>> \in ByStrength(o, S)
  BY <1>3
<1>8. ASSUME NEW i \in S, NEW j \in S, NEW k \in S,
             <<i, j>> \in ByStrength(o, S), <<j, k>> \in ByStrength(o, S)
      PROVE  <<i, k>> \in ByStrength(o, S)
  <2>1. ~Less(f[i], f[j]) /\ ~Less(f[j], f[k])
    BY <1>3, <1>4, <1>8
  <2>2. ~Less(f[i], f[k])
    BY <1>5, <2>1
  <2>3. Less(f[k], f[i]) \/ i < k
    <3>1. CASE Less(f[j], f[i])
      <4>1. Less(f[k], f[i])
        BY <1>5, <2>1, <3>1
      <4> QED BY <4>1
    <3>2. CASE Less(f[k], f[j])
      <4>1. Less(f[k], f[i])
        <5>1. ~Less(f[k], f[i]) => (~Less(f[i], f[j]) => ~Less(f[k], f[j]))
          BY <1>5
        <5> QED BY <2>1, <3>2, <5>1
      <4> QED BY <4>1
    <3>3. CASE ~Less(f[j], f[i]) /\ ~Less(f[k], f[j])
      <4>1. i < j /\ j < k
        BY <1>3, <1>8, <3>3
      <4> QED BY <4>1
    <3> QED BY <3>1, <3>2, <3>3
  <2> QED BY <1>3, <2>2, <2>3
<1> QED BY <1>2, <1>3, <1>4, <1>6, <1>7, <1>8 DEF OrdersStrictly

(* A sequence in order of its values, and which values it begins with.     *)
Sorted(L, s, n) ==
  /\ L \in [1 .. n -> 1 .. n]
  /\ \A i \in 1 .. n : \E k \in 1 .. n : L[k] = i
  /\ \A k, l \in 1 .. n : L[k] = L[l] => k = l
  /\ \A k, l \in 1 .. n : k <= l => s[L[k]] <= s[L[l]]

LEMMA OrderIsSorted ==
  ASSUME NEW n \in Nat, NEW s \in [1 .. n -> Int]
  PROVE  Sorted(Order(s), s, n)
<1> DEFINE L == Order(s)
<1>1. /\ DOMAIN s = 1 .. n /\ OrdersStrictly(ByValue(s), 1 .. n)
      /\ \A a, b \in 1 .. n : <<a, b>> \in ByValue(s) => s[a] <= s[b]
  BY ValuesAreOrdered
<1>2. IsFiniteSet(1 .. n) /\ Cardinality(1 .. n) = n
  BY FS_Interval
<1>3. L = Arranged(1 .. n, ByValue(s))
  BY <1>1 DEF Order
<1>4. /\ L \in [1 .. n -> 1 .. n]
      /\ \A i \in 1 .. n : \E k \in 1 .. n : L[k] = i
      /\ \A k, l \in 1 .. n : k < l <=> <<L[k], L[l]>> \in ByValue(s)
  <2> DEFINE S == 1 .. n  R == ByValue(s)
  <2>1. IsFiniteSet(S) /\ OrdersStrictly(R, S) /\ L = Arranged(S, R) /\ Cardinality(S) = n
    BY <1>1, <1>2, <1>3
  <2> HIDE DEF S, R, L
  <2>2. /\ Arranged(S, R) \in [1 .. Cardinality(S) -> S]
        /\ \A i \in S : \E k \in 1 .. Cardinality(S) : Arranged(S, R)[k] = i
        /\ \A k, l \in 1 .. Cardinality(S) : k < l <=> <<Arranged(S, R)[k], Arranged(S, R)[l]>> \in R
    BY <2>1, ArrangedIsSorted
  <2>3. /\ L \in [1 .. n -> S]
        /\ \A i \in S : \E k \in 1 .. n : L[k] = i
        /\ \A k, l \in 1 .. n : k < l <=> <<L[k], L[l]>> \in R
    BY <2>1, <2>2
  <2> QED BY <2>3 DEF S, R
<1> HIDE DEF L
<1>5. \A k, l \in 1 .. n : L[k] = L[l] => k = l
  <2> SUFFICES ASSUME NEW k \in 1 .. n, NEW l \in 1 .. n, L[k] = L[l], k < l PROVE FALSE
    OBVIOUS
  <2>1. <<L[k], L[l]>> \in ByValue(s) /\ L[k] \in 1 .. n
    BY <1>4
  <2> QED BY <1>1, <2>1 DEF OrdersStrictly
<1>6. ASSUME NEW k \in 1 .. n, NEW l \in 1 .. n, k <= l PROVE s[L[k]] <= s[L[l]]
  <2>1. L[k] \in 1 .. n /\ L[l] \in 1 .. n
    BY <1>4
  <2>2. CASE k < l
    BY <1>1, <1>4, <2>1, <2>2
  <2>3. CASE k = l
    BY <2>1, <2>3
  <2> QED BY <1>6, <2>2, <2>3
<1> QED BY <1>4, <1>5, <1>6 DEF L, Sorted

AtMostAs(s, n, j) == {h \in 1 .. n : s[h] <= s[j]}

LEMMA AtMostCounted ==
  ASSUME NEW n \in Nat, NEW s \in [1 .. n -> Int], NEW j \in 1 .. n
  PROVE  /\ IsFiniteSet(AtMostAs(s, n, j))
         /\ Cardinality(AtMostAs(s, n, j)) \in 1 .. n
<1> DEFINE A == AtMostAs(s, n, j)
<1>1. A \subseteq 1 .. n /\ j \in A
  BY DEF AtMostAs
<1>2. IsFiniteSet(1 .. n) /\ Cardinality(1 .. n) = n
  BY FS_Interval
<1> HIDE DEF A
<1>3. IsFiniteSet(A) /\ Cardinality(A) <= n
  <2>1. IsFiniteSet(A) /\ Cardinality(A) <= Cardinality(1 .. n)
    BY <1>1, <1>2, FS_Subset
  <2> QED BY <1>2, <2>1
<1>4. Cardinality(A) \in Nat /\ Cardinality(A) # 0
  BY <1>1, <1>3, FS_CardinalityType, FS_EmptySet
<1>5. Cardinality(A) \in 1 .. n
  BY <1>3, <1>4
<1> QED BY <1>3, <1>5 DEF A

(* The first k of the order are among those of at most a value when the    *)
(* k-th of them is,                                                        *)
LEMMA CountedAtLeast ==
  ASSUME NEW n \in Nat, NEW s \in [1 .. n -> Int], NEW L, Sorted(L, s, n),
         NEW k \in 1 .. n, NEW j \in 1 .. n, s[L[k]] <= s[j]
  PROVE  k <= Cardinality(AtMostAs(s, n, j))
<1> DEFINE A == AtMostAs(s, n, j)
           f == [a \in 1 .. k |-> L[a]]
<1>1. ASSUME NEW a \in 1 .. k PROVE L[a] \in A
  <2>1. a \in 1 .. n /\ a <= k
    OBVIOUS
  <2>2. L[a] \in 1 .. n /\ L[k] \in 1 .. n /\ s[L[a]] <= s[L[k]]
    BY <2>1 DEF Sorted
  <2>3. s[L[a]] \in Int /\ s[L[k]] \in Int /\ s[j] \in Int
    BY <2>2
  <2>4. s[L[a]] <= s[j]
    BY <2>2, <2>3
  <2> QED BY <2>2, <2>4 DEF AtMostAs
<1>2. \A a, b \in 1 .. k : L[a] = L[b] => a = b
  <2>1. 1 .. k \subseteq 1 .. n
    OBVIOUS
  <2> QED BY <2>1 DEF Sorted
<1>3. IsFiniteSet(A) /\ Cardinality(A) \in 1 .. n
  BY AtMostCounted
<1> HIDE DEF A
<1>4. f \in Injection(1 .. k, A)
  BY <1>1, <1>2 DEF Injection, IsInjective
<1>5. Cardinality(1 .. k) = k
  BY FS_Interval
<1>6. Cardinality(1 .. k) <= Cardinality(A)
  BY <1>3, <1>4, FS_Injection
<1> QED BY <1>5, <1>6 DEF A

(* and as many of the order as there are of them all are among them.       *)
LEMMA CountedAtMost ==
  ASSUME NEW n \in Nat, NEW s \in [1 .. n -> Int], NEW L, Sorted(L, s, n), NEW j \in 1 .. n
  PROVE  s[L[Cardinality(AtMostAs(s, n, j))]] <= s[j]
<1> DEFINE A == AtMostAs(s, n, j)
           l == Cardinality(A)
           f == [h \in A |-> CHOOSE a \in 1 .. n : L[a] = h]
<1>1. IsFiniteSet(A) /\ l \in 1 .. n
  BY AtMostCounted
<1>2. L[l] \in 1 .. n /\ s[j] \in Int
  BY <1>1 DEF Sorted
<1> SUFFICES ASSUME ~(s[L[l]] <= s[j]) PROVE FALSE
  OBVIOUS
<1>3. ASSUME NEW h \in A PROVE f[h] \in 1 .. l - 1 /\ L[f[h]] = h
  <2>1. h \in 1 .. n /\ s[h] <= s[j]
    BY DEF AtMostAs
  <2>2. \E a \in 1 .. n : L[a] = h
    BY <2>1 DEF Sorted
  <2>3. f[h] \in 1 .. n /\ L[f[h]] = h
    BY <2>2
  <2> HIDE DEF f, l
  <2>4. ~(l <= f[h])
    <3> SUFFICES ASSUME l <= f[h] PROVE FALSE
      OBVIOUS
    <3>1. s[L[l]] <= s[L[f[h]]]
      BY <1>1, <2>3 DEF Sorted
    <3>2. s[L[l]] \in Int /\ s[h] \in Int
      BY <1>2, <2>1
    <3> QED BY <1>2, <2>1, <2>3, <3>1, <3>2 DEF l
  <2>5. f[h] \in 1 .. l - 1
    BY <1>1, <2>3, <2>4
  <2> QED BY <2>3, <2>5
<1>4. f \in Injection(A, 1 .. l - 1)
  <2>1. \A h \in A : f[h] \in 1 .. l - 1
    BY <1>3
  <2>2. \A g, h \in A : f[g] = f[h] => g = h
    BY <1>3
  <2>3. f \in [A -> 1 .. l - 1]
    BY <2>1
  <2> HIDE DEF f, l, A
  <2> QED BY <2>2, <2>3 DEF Injection, IsInjective
<1> HIDE DEF A, f
<1>5. IsFiniteSet(1 .. l - 1) /\ Cardinality(1 .. l - 1) = l - 1
  BY <1>1, FS_Interval
<1>6. Cardinality(A) <= Cardinality(1 .. l - 1)
  BY <1>4, <1>5, FS_Injection
<1> QED BY <1>1, <1>5, <1>6

---------------------------------------------------------------------------
(* Benjamini and Hochberg's adjusted values.  The least candidate so far,  *)
(* from the last rank down: it is at most a rate when some candidate is.   *)
IsRunning(f, s, L, m, one) ==
  f = [rank \in 1 .. m + 1 |->
         IF rank > m THEN <<one, 1>> ELSE Lesser(f[rank + 1], Candidate(s[L[rank]], m, rank))]

LEMMA RunningExists ==
  ASSUME NEW s, NEW L, NEW m \in Nat, NEW one
  PROVE  \E f : IsRunning(f, s, L, m, one)
<1> DEFINE Below(f, k) ==
             f = [rank \in m + 1 - k .. m + 1 |->
                    IF rank > m THEN <<one, 1>> ELSE Lesser(f[rank + 1], Candidate(s[L[rank]], m, rank))]
           T == {k \in Nat : k <= m => \E f : Below(f, k)}
<1>1. 0 \in T
  <2> DEFINE f == [rank \in m + 1 .. m + 1 |-> <<one, 1>>]
  <2>1. m + 1 - 0 = m + 1 /\ \A rank \in m + 1 .. m + 1 : rank > m
    OBVIOUS
  <2>2. Below(f, 0)
    BY <2>1
  <2> QED BY <2>2
<1>2. ASSUME NEW k \in Nat, k \in T PROVE k + 1 \in T
  <2> SUFFICES ASSUME k + 1 <= m PROVE \E f : Below(f, k + 1)
    OBVIOUS
  <2>1. PICK f : Below(f, k)
    BY <1>2
  <2> DEFINE r0 == m - k
             C(g, rank) == Lesser(g[rank + 1], Candidate(s[L[rank]], m, rank))
             g == [rank \in r0 .. m + 1 |-> IF rank = r0 THEN C(f, r0) ELSE f[rank]]
  <2>2. r0 \in 1 .. m /\ m + 1 - (k + 1) = r0 /\ m + 1 - k = r0 + 1
    OBVIOUS
  <2> HIDE DEF r0
  <2>3. \A rank \in r0 + 1 .. m + 1 : f[rank] = IF rank > m THEN <<one, 1>> ELSE C(f, rank)
    BY <2>1, <2>2
  <2>4. \A rank \in r0 + 1 .. m + 1 : rank \in r0 .. m + 1 /\ rank # r0
    BY <2>2
  <2>5. g[r0] = C(f, r0) /\ \A rank \in r0 + 1 .. m + 1 : g[rank] = f[rank]
    BY <2>2, <2>4
  <2>6. \A rank \in r0 .. m : rank + 1 \in r0 + 1 .. m + 1
    BY <2>2
  <2>7. DOMAIN g = r0 .. m + 1 /\ g = [rank \in r0 .. m + 1 |-> g[rank]]
    OBVIOUS
  <2> HIDE DEF g
  <2>8. \A rank \in r0 .. m : C(g, rank) = C(f, rank)
    BY <2>5, <2>6
  <2>9. ASSUME NEW rank \in r0 .. m + 1
        PROVE  g[rank] = IF rank > m THEN <<one, 1>> ELSE C(g, rank)
    <3>1. CASE rank = r0
      <4>1. rank \in r0 .. m /\ ~(rank > m)
        BY <2>2, <3>1
      <4> QED BY <2>5, <2>8, <3>1, <4>1
    <3>2. CASE rank # r0
      <4>1. rank \in r0 + 1 .. m + 1 /\ (~(rank > m) => rank \in r0 .. m)
        BY <2>2, <3>2
      <4> QED BY <2>3, <2>5, <2>8, <4>1
    <3> QED BY <3>1, <3>2
  <2>10. g = [rank \in r0 .. m + 1 |-> IF rank > m THEN <<one, 1>> ELSE C(g, rank)]
    BY <2>7, <2>9
  <2> QED BY <2>2, <2>10
<1> HIDE DEF T
<1>3. m \in T
  BY <1>1, <1>2, SetInduction
<1>4. PICK f : Below(f, m)
  BY <1>3 DEF T
<1>5. m + 1 - m = 1
  OBVIOUS
<1> QED BY <1>4, <1>5 DEF IsRunning

AtMostRate(v, rate) == ~Less(<<rate, 1>>, v)

LEMMA LesserIsEither ==
  ASSUME NEW a \in Quotients, NEW b \in Quotients, NEW rate \in Int
  PROVE  /\ Lesser(a, b) \in Quotients
         /\ AtMostRate(Lesser(a, b), rate) <=> AtMostRate(a, rate) \/ AtMostRate(b, rate)
<1> DEFINE c == <<rate, 1>>
<1>1. c \in Quotients
  BY DEF Quotients
<1> HIDE DEF c
<1>2. CASE Less(b, a)
  <2>1. Lesser(a, b) = b /\ ~Less(a, b)
    BY <1>2, LessAsymmetric DEF Lesser
  <2>2. ~Less(c, a) => ~Less(c, b)
    BY <1>1, <2>1, LessOrder
  <2> QED BY <2>1, <2>2 DEF AtMostRate, c
<1>3. CASE ~Less(b, a)
  <2>1. Lesser(a, b) = a
    BY <1>3 DEF Lesser
  <2>2. ~Less(c, b) => ~Less(c, a)
    BY <1>1, <1>3, LessOrder
  <2> QED BY <2>1, <2>2 DEF AtMostRate, c
<1> QED BY <1>2, <1>3

LEMMA CandidateAtMost ==
  ASSUME NEW v \in Nat, NEW m \in Nat, NEW rank \in Nat \ {0}, NEW rate \in Nat
  PROVE  /\ Candidate(v, m, rank) \in Quotients
         /\ AtMostRate(Candidate(v, m, rank), rate) <=> v * m <= rate * rank
<1> DEFINE a == v * m  b == rate * rank
<1>1. a \in Int /\ b \in Int
  OBVIOUS
<1>2. Candidate(v, m, rank) = <<a, rank>>
  BY DEF Candidate
<1>3. Less(<<rate, 1>>, <<a, rank>>) <=> b < a * 1
  BY DEF Less
<1> HIDE DEF a, b
<1>4. a * 1 = a /\ <<a, rank>> \in Quotients
  BY <1>1 DEF Quotients
<1>5. ~(b < a * 1) <=> a <= b
  BY <1>1, <1>4
<1> QED BY <1>2, <1>3, <1>4, <1>5 DEF AtMostRate, a, b

LEMMA RunningAtMost ==
  ASSUME NEW m \in Nat, NEW one \in Nat, NEW s \in [1 .. m -> Nat], NEW L, Sorted(L, s, m),
         NEW f, IsRunning(f, s, L, m, one), NEW rate \in Nat
  PROVE  \A k \in 1 .. m + 1 :
           AtMostRate(f[k], rate) <=> one <= rate \/ \E l \in k .. m : s[L[l]] * m <= rate * l
<1> DEFINE Right(k) ==
             /\ f[k] \in Quotients
             /\ AtMostRate(f[k], rate) <=> one <= rate \/ \E l \in k .. m : s[L[l]] * m <= rate * l
           T == {k \in Nat : k <= m => Right(m + 1 - k)}
<1>1. \A k \in 1 .. m + 1 :
        f[k] = IF k > m THEN <<one, 1>> ELSE Lesser(f[k + 1], Candidate(s[L[k]], m, k))
  BY DEF IsRunning
<1>2. Right(m + 1)
  <2>1. f[m + 1] = <<one, 1>>
    <3> HIDE DEF Right
    <3>1. m + 1 \in 1 .. m + 1 /\ m + 1 > m
      OBVIOUS
    <3> QED BY <1>1, <3>1
  <2>2. <<one, 1>> \in Quotients /\ (AtMostRate(<<one, 1>>, rate) <=> one <= rate)
    BY DEF Quotients, AtMostRate, Less
  <2>3. \A l \in m + 1 .. m : FALSE
    OBVIOUS
  <2> QED BY <2>1, <2>2, <2>3
<1>3. ASSUME NEW k \in 1 .. m, Right(k + 1) PROVE Right(k)
  <2> DEFINE c == Candidate(s[L[k]], m, k)
  <2>0. k \in 1 .. m + 1 /\ ~(k > m) /\ k \in Nat \ {0}
    OBVIOUS
  <2>1. f[k] = Lesser(f[k + 1], c) /\ f[k + 1] \in Quotients
    <3> HIDE DEF c
    <3>1. f[k + 1] \in Quotients
      BY <1>3
    <3>2. f[k] = Lesser(f[k + 1], Candidate(s[L[k]], m, k))
      <4> HIDE DEF Right
      <4> QED BY <1>1, <2>0
    <3> QED BY <3>1, <3>2 DEF c
  <2>2. s[L[k]] \in Nat
    BY DEF Sorted
  <2>3. c \in Quotients /\ (AtMostRate(c, rate) <=> s[L[k]] * m <= rate * k)
    <3> DEFINE v == s[L[k]]
    <3>1. v \in Nat
      BY <2>2
    <3> HIDE DEF v, Right
    <3>2. Candidate(v, m, k) \in Quotients /\ (AtMostRate(Candidate(v, m, k), rate) <=> v * m <= rate * k)
      BY <2>0, <3>1, CandidateAtMost
    <3> QED BY <3>2 DEF v
  <2> HIDE DEF c
  <2>4. /\ f[k] \in Quotients
        /\ AtMostRate(f[k], rate) <=> AtMostRate(f[k + 1], rate) \/ AtMostRate(c, rate)
    BY <2>1, <2>3, LesserIsEither
  <2> DEFINE P(l) == s[L[l]] * m <= rate * l
  <2>5. (\E l \in k .. m : P(l)) <=> P(k) \/ \E l \in k + 1 .. m : P(l)
    <3> HIDE DEF P
    <3>1. \A l \in k .. m : l = k \/ l \in k + 1 .. m
      OBVIOUS
    <3>2. k \in k .. m /\ \A l \in k + 1 .. m : l \in k .. m
      OBVIOUS
    <3> QED BY <3>1, <3>2
  <2> QED BY <1>3, <2>3, <2>4, <2>5
<1> HIDE DEF Right
<1>4. 0 \in T
  BY <1>2
<1>5. ASSUME NEW k \in Nat, k \in T PROVE k + 1 \in T
  <2> SUFFICES ASSUME k + 1 <= m PROVE Right(m + 1 - (k + 1))
    OBVIOUS
  <2>1. m + 1 - (k + 1) \in 1 .. m /\ (m + 1 - (k + 1)) + 1 = m + 1 - k /\ Right(m + 1 - k)
    BY <1>5
  <2> QED BY <1>3, <2>1
<1> HIDE DEF T
<1>6. Nat \subseteq T
  BY <1>4, <1>5, SetInduction
<1>7. ASSUME NEW k \in 1 .. m + 1 PROVE Right(k)
  <2>1. m + 1 - k \in T /\ m + 1 - k <= m /\ m + 1 - (m + 1 - k) = k
    BY <1>6
  <2> QED BY <2>1 DEF T
<1> QED BY <1>7 DEF Right

InOrder(q, L, f, m) == \A k \in 1 .. m : q[L[k]] = f[k]

LEMMA AdjustedIsRunning ==
  ASSUME NEW m \in Nat, NEW s \in [1 .. m -> Nat], NEW one
  PROVE  \E f : IsRunning(f, s, Order(s), m, one) /\ InOrder(benjamini_hochberg(s, one), Order(s), f, m)
<1> DEFINE Body(f) == [rank \in 1 .. m + 1 |->
                         IF rank > m THEN <<one, 1>>
                         ELSE Lesser(f[rank + 1], Candidate(s[Order(s)[rank]], m, rank))]
           f == CHOOSE g : g = Body(g)
<1>1. Len(s) = m
  BY FunctionLen
<1>2. benjamini_hochberg(s, one) = [i \in 1 .. m |-> f[CHOOSE rank \in 1 .. m : Order(s)[rank] = i]]
  BY <1>1 DEF benjamini_hochberg
<1>3. \E g : g = Body(g)
  <2>1. PICK g : IsRunning(g, s, Order(s), m, one)
    BY RunningExists
  <2>2. g = Body(g)
    BY <2>1 DEF IsRunning
  <2> QED BY <2>2
<1> HIDE DEF Body
<1>4. f = Body(f)
  BY <1>3
<1> HIDE DEF f
<1>5. IsRunning(f, s, Order(s), m, one)
  BY <1>4 DEF Body, IsRunning
<1>6. Sorted(Order(s), s, m)
  <2>1. s \in [1 .. m -> Int]
    OBVIOUS
  <2> QED BY <2>1, OrderIsSorted
<1>7. ASSUME NEW k \in 1 .. m PROVE benjamini_hochberg(s, one)[Order(s)[k]] = f[k]
  <2> DEFINE L == Order(s)
  <2>1. L[k] \in 1 .. m
    BY <1>6 DEF Sorted
  <2>2. (CHOOSE rank \in 1 .. m : L[rank] = L[k]) = k
    BY <1>6 DEF Sorted
  <2> HIDE DEF L
  <2>3. benjamini_hochberg(s, one)[L[k]] = f[CHOOSE rank \in 1 .. m : L[rank] = L[k]]
    BY <1>2, <2>1 DEF L
  <2> QED BY <2>2, <2>3 DEF L
<1> QED BY <1>5, <1>7 DEF InOrder

(* An adjusted value is at most the rate exactly for the values up to one  *)
(* that the step-up rule accepts.                                          *)
AcceptedAt(s, m, rate, j) == s[j] * m <= rate * Cardinality(AtMostAs(s, m, j))

LEMMA AdjustedIsStepUp ==
  ASSUME NEW m \in Nat, NEW one \in Nat, NEW s \in [1 .. m -> 0 .. one], NEW rate \in Nat, NEW i \in 1 .. m
  PROVE  AtMostRate(benjamini_hochberg(s, one)[i], rate)
           <=> \E j \in 1 .. m : s[i] <= s[j] /\ AcceptedAt(s, m, rate, j)
<1> DEFINE L == Order(s)
<1>0. s \in [1 .. m -> Nat] /\ s \in [1 .. m -> Int] /\ \A j \in 1 .. m : s[j] \in Nat /\ s[j] <= one
  <2>1. \A j \in 1 .. m : s[j] \in 0 .. one
    OBVIOUS
  <2>2. \A v \in 0 .. one : v \in Nat /\ v \in Int /\ v <= one
    OBVIOUS
  <2> QED BY <2>1, <2>2
<1>1. Sorted(L, s, m)
  BY <1>0, OrderIsSorted
<1>2. PICK f : /\ IsRunning(f, s, L, m, one)
               /\ \A r \in 1 .. m : benjamini_hochberg(s, one)[L[r]] = f[r]
  <2>1. s \in [1 .. m -> Nat]
    BY <1>0
  <2>2. \E f : IsRunning(f, s, Order(s), m, one) /\ InOrder(benjamini_hochberg(s, one), Order(s), f, m)
    BY <2>1, AdjustedIsRunning
  <2> QED BY <2>2 DEF L, InOrder
<1> HIDE DEF L
<1>3. PICK k \in 1 .. m : L[k] = i
  BY <1>1 DEF Sorted
<1>4. benjamini_hochberg(s, one)[i] = f[k]
  BY <1>2, <1>3
<1>5. AtMostRate(f[k], rate) <=> one <= rate \/ \E l \in k .. m : s[L[l]] * m <= rate * l
  <2>1. k \in 1 .. m + 1
    OBVIOUS
  <2> QED BY <1>0, <1>1, <1>2, <2>1, RunningAtMost
<1>6. ASSUME NEW l \in 1 .. m, NEW j \in 1 .. m, s[L[l]] <= s[j] PROVE l <= Cardinality(AtMostAs(s, m, j))
  BY <1>0, <1>1, <1>6, CountedAtLeast
<1>7. ASSUME NEW j \in 1 .. m
      PROVE  Cardinality(AtMostAs(s, m, j)) \in 1 .. m /\ s[L[Cardinality(AtMostAs(s, m, j))]] <= s[j]
  BY <1>0, <1>1, AtMostCounted, CountedAtMost
<1>8. \A l \in 1 .. m : L[l] \in 1 .. m /\ s[L[l]] \in Nat
  BY <1>0, <1>1 DEF Sorted
<1>9. ASSUME one <= rate
      PROVE  \E j \in 1 .. m : s[i] <= s[j] /\ AcceptedAt(s, m, rate, j)
  <2> DEFINE j == L[m]  c == Cardinality(AtMostAs(s, m, j))
  <2>1. m \in 1 .. m /\ k <= m
    OBVIOUS
  <2>2. j \in 1 .. m /\ s[j] \in Nat /\ s[j] <= rate
    BY <1>0, <1>8, <1>9, <2>1
  <2>3. s[i] <= s[j]
    BY <1>1, <1>3, <2>1 DEF Sorted
  <2>4. c \in 1 .. m /\ m <= c
    <3>1. s[L[m]] <= s[j]
      BY <2>2
    <3> QED BY <1>6, <1>7, <2>1, <2>2, <3>1
  <2>5. s[j] * m <= rate * m
    BY <2>2, LeTimes
  <2>6. c = m
    BY <2>4
  <2>7. AcceptedAt(s, m, rate, j)
    BY <2>5, <2>6 DEF AcceptedAt
  <2> HIDE DEF j
  <2> QED BY <2>2, <2>3, <2>7
<1>10. ASSUME NEW l \in k .. m, s[L[l]] * m <= rate * l
       PROVE  \E j \in 1 .. m : s[i] <= s[j] /\ AcceptedAt(s, m, rate, j)
  <2> DEFINE j == L[l]  c == Cardinality(AtMostAs(s, m, j))
  <2>1. l \in 1 .. m /\ k <= l
    OBVIOUS
  <2>2. j \in 1 .. m /\ s[j] \in Nat
    BY <1>8, <2>1
  <2>3. s[i] <= s[j]
    BY <1>1, <1>3, <2>1 DEF Sorted
  <2>4. c \in 1 .. m /\ l <= c
    <3>1. s[L[l]] <= s[j]
      BY <2>2
    <3> QED BY <1>6, <1>7, <2>1, <2>2, <3>1
  <2>5. s[j] * m <= rate * l
    BY <1>10
  <2> HIDE DEF c, j
  <2>6. l * rate <= c * rate
    BY <2>1, <2>4, LeTimes
  <2>7. s[j] * m <= rate * c
    <3>1. s[j] * m \in Int /\ rate * l = l * rate /\ rate * c = c * rate /\ rate * l \in Int /\ rate * c \in Int
      BY <2>1, <2>2, <2>4
    <3> QED BY <2>5, <2>6, <3>1
  <2>8. AcceptedAt(s, m, rate, j)
    BY <2>7 DEF AcceptedAt, c
  <2> QED BY <2>2, <2>3, <2>8
<1>11. ASSUME NEW j \in 1 .. m, s[i] <= s[j], AcceptedAt(s, m, rate, j)
       PROVE  \E l \in k .. m : s[L[l]] * m <= rate * l
  <2> DEFINE l == Cardinality(AtMostAs(s, m, j))
  <2>1. l \in 1 .. m /\ s[L[l]] <= s[j]
    BY <1>7
  <2>2. k <= l
    BY <1>3, <1>6, <1>11
  <2>3. s[j] * m <= rate * l
    BY <1>11 DEF AcceptedAt
  <2> HIDE DEF l
  <2>4. s[L[l]] \in Nat /\ s[j] \in Nat
    BY <1>0, <1>8, <2>1
  <2>5. s[L[l]] * m <= s[j] * m
    BY <2>1, <2>4, LeTimes
  <2>6. s[L[l]] * m <= rate * l
    <3>1. s[L[l]] * m \in Int /\ s[j] * m \in Int /\ rate * l \in Int
      BY <2>1, <2>4
    <3> QED BY <2>3, <2>5, <3>1
  <2>7. l \in k .. m
    BY <2>1, <2>2
  <2> QED BY <2>6, <2>7
<1> QED BY <1>4, <1>5, <1>9, <1>10, <1>11

(* Counting does not depend on how the candidates are numbered.            *)
AtMostAsIn(T, v, i) == {h \in T : v[h] <= v[i]}

Numbers(names, n, T) ==
  /\ n \in Nat /\ names \in [1 .. n -> T]
  /\ \A i \in T : \E k \in 1 .. n : names[k] = i
  /\ \A k, l \in 1 .. n : names[k] = names[l] => k = l
ValuesOf(s, names, n, v) == \A k \in 1 .. n : s[k] = v[names[k]]

LEMMA CountedAlike ==
  ASSUME NEW n, NEW T, NEW names, Numbers(names, n, T),
         NEW v, NEW s, ValuesOf(s, names, n, v), NEW j \in 1 .. n
  PROVE  Cardinality(AtMostAsIn(T, v, names[j])) = Cardinality(AtMostAs(s, n, j))
<1> DEFINE A == AtMostAs(s, n, j)
           B == {h \in T : v[h] <= v[names[j]]}
           f == [k \in A |-> names[k]]
<1> USE DEF Numbers
<1>1. A = {k \in 1 .. n : v[names[k]] <= v[names[j]]}
  BY DEF AtMostAs, ValuesOf
<1>2. A \subseteq 1 .. n /\ \A k \in A : names[k] \in B
  BY <1>1
<1>3. \A h \in B : \E k \in A : names[k] = h
  BY <1>1
<1> HIDE DEF A, B
<1>4. f \in Bijection(A, B)
  <2>1. f \in [A -> B]
    BY <1>2
  <2>2. \A k, l \in A : f[k] = f[l] => k = l
    BY <1>2
  <2>3. \A h \in B : \E k \in A : f[k] = h
    BY <1>3
  <2> HIDE DEF f
  <2> QED BY <2>1, <2>2, <2>3 DEF Bijection, Injection, Surjection, IsInjective
<1>5. IsFiniteSet(A)
  <2>1. IsFiniteSet(1 .. n)
    BY FS_Interval
  <2> QED BY <1>2, <2>1, FS_Subset
<1>6. ExistsBijection(A, B)
  BY <1>4 DEF ExistsBijection
<1>7. Cardinality(B) = Cardinality(A)
  BY <1>5, <1>6, FS_Bijection
<1> QED BY <1>7 DEF A, B, AtMostAsIn

LEMMA StepUpIs ==
  ASSUME NEW T, NEW rate, NEW i
  PROVE  i \in StepUp(T, rate)
           <=> i \in T /\ \E j \in T : /\ p[i] <= p[j]
                                       /\ p[j] * Cardinality(T) <= rate * Cardinality({h \in T : p[h] <= p[j]})
<1> DEFINE AtMost(t) == {h \in T : p[h] <= t}
           Passes(t) == t * Cardinality(T) <= rate * Cardinality(AtMost(t))
<1>1. StepUp(T, rate) = UNION {AtMost(t) : t \in {u \in {p[j] : j \in T} : Passes(u)}}
  BY DEF StepUp
<1> HIDE DEF Passes
<1>2. i \in StepUp(T, rate) <=> \E j \in T : Passes(p[j]) /\ i \in AtMost(p[j])
  BY <1>1
<1> QED BY <1>2 DEF Passes

Skipped == {i \in DOMAIN outcomes : outcomes[i].error # ""}
Testable == DOMAIN outcomes \ Skipped
Names == Arranged(Testable, ByPlace(Testable))
TestedP == [k \in DOMAIN Names |-> p[Names[k]]]
Significant(rate) ==
  {Names[k] : k \in {l \in DOMAIN Names : ~Less(<<rate, 1>>, benjamini_hochberg(TestedP, One)[l])}}

LEMMA DiscoverIs ==
  ASSUME NEW rate
  PROVE  /\ discover(outcomes, p, rate, One).skipped = Skipped
         /\ discover(outcomes, p, rate, One).findings
              = Arranged(Significant(rate), ByStrength(outcomes, Significant(rate)))
BY DEF discover, Skipped, Testable, Names, TestedP, Significant

(* The candidates and their p-values grow together.                        *)
CandidatesTyped ==
  outcomes \in Seq(Outcomes) /\ p \in Seq(PValues) /\ Len(p) = Len(outcomes)

LEMMA NamesNumber ==
  ASSUME CandidatesTyped
  PROVE  /\ IsFiniteSet(Testable) /\ Testable \subseteq 1 .. Len(p) /\ Cardinality(Testable) \in Nat
         /\ Names \in [1 .. Cardinality(Testable) -> Testable]
         /\ \A i \in Testable : \E k \in 1 .. Cardinality(Testable) : Names[k] = i
         /\ \A k, l \in 1 .. Cardinality(Testable) : Names[k] = Names[l] => k = l
<1> DEFINE T == Testable  n == Cardinality(T)
<1>1. T \subseteq 1 .. Len(p) /\ Len(p) \in Nat
  BY DEF CandidatesTyped, Testable
<1>2. IsFiniteSet(T)
  <2>1. IsFiniteSet(1 .. Len(p))
    BY <1>1, FS_Interval
  <2> QED BY <1>1, <2>1, FS_Subset
<1>3. OrdersStrictly(ByPlace(T), T)
  <2>1. T \subseteq Int
    BY <1>1
  <2> HIDE DEF T
  <2> QED BY <2>1, PlacesAreOrdered
<1>4. /\ n \in Nat
      /\ Names \in [1 .. n -> T]
      /\ \A i \in T : \E k \in 1 .. n : Names[k] = i
      /\ \A k, l \in 1 .. n : k < l <=> <<Names[k], Names[l]>> \in ByPlace(T)
  <2> HIDE DEF T
  <2>1. Names = Arranged(T, ByPlace(T))
    BY DEF Names, T
  <2> HIDE DEF n
  <2> QED BY <1>2, <1>3, <2>1, ArrangedIsSorted DEF n
<1>5. ASSUME NEW k \in 1 .. n, NEW l \in 1 .. n, Names[k] = Names[l] PROVE k = l
  <2>1. <<Names[k], Names[k]>> \notin ByPlace(T)
    BY <1>3, <1>4 DEF OrdersStrictly
  <2>2. ~(k < l) /\ ~(l < k)
    BY <1>4, <1>5, <2>1
  <2> HIDE DEF n
  <2> QED BY <1>4, <2>2
<1> QED BY <1>1, <1>2, <1>4, <1>5

(* What is found is what the step-up rule rejects.                         *)
LEMMA SignificantIsStepUp ==
  ASSUME CandidatesTyped, NEW rate \in PValues
  PROVE  Significant(rate) = StepUp(Testable, rate)
<1> DEFINE T == Testable  n == Cardinality(T)  s == TestedP
           Enough(j) == p[j] * n <= rate * Cardinality({h \in T : p[h] <= p[j]})
<1>1. /\ T \subseteq 1 .. Len(p) /\ n \in Nat /\ Names \in [1 .. n -> T]
      /\ \A i \in T : \E k \in 1 .. n : Names[k] = i
      /\ \A k, l \in 1 .. n : Names[k] = Names[l] => k = l
  BY NamesNumber
<1> HIDE DEF T, n
<1>2. One \in Nat /\ PValues \subseteq 0 .. One /\ rate \in Nat
  <2>1. One \in Nat /\ PValues \subseteq 0 .. One
    BY StatisticsAssumption
  <2>2. rate \in 0 .. One
    BY <2>1
  <2> QED BY <2>1, <2>2
<1>3. \A i \in T : p[i] \in 0 .. One
  <2>1. p \in Seq(PValues)
    BY DEF CandidatesTyped
  <2>2. \A i \in 1 .. Len(p) : p[i] \in PValues
    BY <2>1, ElementOfSeq
  <2> QED BY <1>1, <1>2, <2>2
<1>4. s = [k \in 1 .. n |-> p[Names[k]]]
  BY <1>1 DEF TestedP
<1>5. s \in [1 .. n -> 0 .. One]
  BY <1>1, <1>3, <1>4
<1>6. Significant(rate) = {Names[k] : k \in {l \in 1 .. n : AtMostRate(benjamini_hochberg(s, One)[l], rate)}}
  BY <1>1 DEF Significant, AtMostRate
<1> HIDE DEF s
<1>7. ASSUME NEW j \in 1 .. n PROVE AcceptedAt(s, n, rate, j) <=> Enough(Names[j])
  <2>1. Cardinality({h \in T : p[h] <= p[Names[j]]}) = Cardinality(AtMostAs(s, n, j))
    <3>1. Cardinality(AtMostAsIn(T, p, Names[j])) = Cardinality(AtMostAs(s, n, j))
      <4>1. Numbers(Names, n, T)
        BY <1>1 DEF Numbers
      <4>2. ValuesOf(s, Names, n, p)
        BY <1>4 DEF ValuesOf
      <4> HIDE DEF Enough
      <4> QED BY <4>1, <4>2, CountedAlike
    <3> QED BY <3>1 DEF AtMostAsIn
  <2>2. s[j] = p[Names[j]]
    BY <1>4
  <2> QED BY <2>1, <2>2 DEF AcceptedAt
<1>8. ASSUME NEW k \in 1 .. n
      PROVE  AtMostRate(benjamini_hochberg(s, One)[k], rate) <=> \E j \in T : p[Names[k]] <= p[j] /\ Enough(j)
  <2>1. AtMostRate(benjamini_hochberg(s, One)[k], rate)
          <=> \E j \in 1 .. n : s[k] <= s[j] /\ AcceptedAt(s, n, rate, j)
    BY <1>1, <1>2, <1>5, AdjustedIsStepUp
  <2>2. \A j \in 1 .. n : s[j] = p[Names[j]] /\ Names[j] \in T
    BY <1>1, <1>4
  <2> HIDE DEF Enough
  <2>3. ASSUME NEW j \in 1 .. n, s[k] <= s[j], AcceptedAt(s, n, rate, j)
        PROVE  Names[j] \in T /\ p[Names[k]] <= p[Names[j]] /\ Enough(Names[j])
    BY <1>7, <2>2, <2>3
  <2>4. ASSUME NEW i \in T, p[Names[k]] <= p[i], Enough(i)
        PROVE  \E j \in 1 .. n : s[k] <= s[j] /\ AcceptedAt(s, n, rate, j)
    <3>1. PICK j \in 1 .. n : Names[j] = i
      BY <1>1
    <3>2. AcceptedAt(s, n, rate, j)
      BY <1>7, <2>4, <3>1
    <3>3. s[k] <= s[j]
      BY <2>2, <2>4, <3>1
    <3> QED BY <3>2, <3>3
  <2> QED BY <2>1, <2>3, <2>4
<1>9. \A i : i \in StepUp(T, rate) <=> i \in T /\ \E j \in T : p[i] <= p[j] /\ Enough(j)
  BY StepUpIs DEF n
<1> HIDE DEF Enough
<1>10. ASSUME NEW i PROVE i \in Significant(rate) <=> i \in StepUp(T, rate)
  <2>1. i \in Significant(rate) <=>
          \E k \in 1 .. n : i = Names[k] /\ AtMostRate(benjamini_hochberg(s, One)[k], rate)
    BY <1>6
  <2>2. i \in Significant(rate) <=>
          \E k \in 1 .. n : i = Names[k] /\ \E j \in T : p[Names[k]] <= p[j] /\ Enough(j)
    BY <1>8, <2>1
  <2> QED BY <1>1, <1>9, <2>2
<1> QED BY <1>10 DEF T

LEMMA CandidateExamined ==
  ASSUME CandidatesTyped, [CandidatesNext]_candidates
  PROVE  CandidatesTyped'
<1>1. ASSUME NEW c \in Outcomes, NEW value \in PValues, Examine(c, value) PROVE CandidatesTyped'
  <2>1. outcomes' = Append(outcomes, c) /\ p' = Append(p, value)
    BY <1>1 DEF Examine
  <2>2. outcomes \in Seq(Outcomes) /\ p \in Seq(PValues) /\ Len(p) = Len(outcomes)
    BY DEF CandidatesTyped
  <2> QED BY <2>1, <2>2, AppendProperties DEF CandidatesTyped
<1>2. CASE UNCHANGED candidates
  BY <1>2 DEF candidates, CandidatesTyped
<1> QED BY <1>1, <1>2 DEF CandidatesNext

(* The scan for candidate features reports exactly the rejections of the   *)
(* step-up procedure at the rate asked for, each once and the strongest    *)
(* first, and every candidate that could not be tested as skipped, for any *)
(* number of candidates and any p-values (regression.rs 548-660).          *)
THEOREM DiscoveriesAreRejections == CandidatesSpec => []DiscoveriesAreStepUp
<1>1. CandidatesInit => CandidatesTyped
  BY EmptySeq DEF CandidatesInit, CandidatesTyped
<1>2. CandidatesTyped /\ [CandidatesNext]_candidates => CandidatesTyped'
  BY CandidateExamined
<1>3. ASSUME CandidatesTyped PROVE DiscoveriesAreStepUp
  <2> SUFFICES ASSUME NEW rate \in PValues
               PROVE  LET d == discover(outcomes, p, rate, One)
                          found == {d.findings[k] : k \in DOMAIN d.findings}
                      IN /\ d.skipped = Skipped
                         /\ found = StepUp(DOMAIN outcomes \ Skipped, rate)
                         /\ Cardinality(found) = Len(d.findings)
                         /\ \A k, l \in DOMAIN d.findings :
                              k < l => ~Stronger(outcomes[d.findings[l]], outcomes[d.findings[k]])
    BY DEF DiscoveriesAreStepUp, Skipped
  <2> DEFINE d == discover(outcomes, p, rate, One)
             S == Significant(rate)
             R == ByStrength(outcomes, S)
             L == d.findings
             n == Cardinality(S)
  <2>1. d.skipped = Skipped /\ L = Arranged(S, R) /\ DOMAIN outcomes \ Skipped = Testable
    BY DiscoverIs DEF Testable
  <2>2. S = StepUp(Testable, rate)
    BY <1>3, SignificantIsStepUp
  <2>3. IsFiniteSet(S) /\ S \subseteq Testable /\ Testable \subseteq 1 .. Len(p) /\ Len(p) \in Nat
    <3>1. S \subseteq Testable
      BY <2>2, StepUpIs
    <3>2. IsFiniteSet(Testable) /\ Testable \subseteq 1 .. Len(p)
      BY <1>3, NamesNumber
    <3>3. Len(p) \in Nat
      BY <1>3 DEF CandidatesTyped
    <3> HIDE DEF S
    <3> QED BY <3>1, <3>2, <3>3, FS_Subset
  <2>4. Tested(outcomes, S) /\ S \subseteq Int
    <3>1. \A i \in Testable : outcomes[i] \in Outcomes /\ outcomes[i].error = ""
      <4>1. \A i \in 1 .. Len(outcomes) : outcomes[i] \in Outcomes
        BY <1>3, ElementOfSeq DEF CandidatesTyped
      <4>2. DOMAIN outcomes = 1 .. Len(outcomes)
        BY <1>3 DEF CandidatesTyped
      <4> QED BY <4>1, <4>2 DEF Testable, Skipped
    <3>2. \A i \in S : outcomes[i].sxy \in Int /\ outcomes[i].square \in Nat \ {0}
      BY <2>3, <3>1, StatisticsAssumption
    <3>3. S \subseteq Int
      <4> HIDE DEF S
      <4>1. 1 .. Len(p) \subseteq Int
        BY <2>3
      <4> QED BY <2>3, <4>1
    <3> QED BY <3>2, <3>3 DEF Tested
  <2> HIDE DEF S
  <2>5. /\ OrdersStrictly(R, S)
        /\ \A i, j \in S : <<i, j>> \in R => ~Stronger(outcomes[j], outcomes[i])
    BY <2>4, StrengthsAreOrdered
  <2> HIDE DEF R, d, L
  <2>6. /\ n \in Nat /\ L \in [1 .. n -> S]
        /\ \A i \in S : \E k \in 1 .. n : L[k] = i
        /\ \A k, l \in 1 .. n : k < l <=> <<L[k], L[l]>> \in R
    BY <2>1, <2>3, <2>5, ArrangedIsSorted
  <2> HIDE DEF n
  <2>7. Len(L) = n /\ DOMAIN L = 1 .. n
    BY <2>6, FunctionLen
  <2>8. {L[k] : k \in DOMAIN L} = S
    BY <2>6, <2>7
  <2>9. ASSUME NEW k \in 1 .. n, NEW l \in 1 .. n, k < l
        PROVE  ~Stronger(outcomes[L[l]], outcomes[L[k]])
    BY <2>5, <2>6, <2>9
  <2>10. /\ d.skipped = Skipped
         /\ {L[k] : k \in DOMAIN L} = StepUp(DOMAIN outcomes \ Skipped, rate)
         /\ Cardinality({L[k] : k \in DOMAIN L}) = Len(L)
    BY <2>1, <2>2, <2>7, <2>8 DEF n
  <2> QED BY <2>7, <2>9, <2>10 DEF L, d
<1> QED BY <1>1, <1>2, <1>3, PTL DEF CandidatesSpec

---------------------------------------------------------------------------
(* Sums of series of one length, which are functions on 1 .. n.            *)
LEMMA TotalSums ==
  ASSUME NEW n \in Nat, NEW s \in [1 .. n -> Int]
  PROVE  /\ Total(s) \in Int
         /\ \E t : /\ t \in [0 .. n -> Int] /\ t[0] = 0 /\ t[n] = Total(s)
                   /\ \A i \in 1 .. n : t[i] = t[i - 1] + s[i]
<1> DEFINE t == CHOOSE t : t = [i \in 0 .. Len(s) |-> IF i = 0 THEN 0 ELSE t[i - 1] + s[i]]
<1>1. s \in Seq(Int) /\ Len(s) = n
  BY FunctionLen
<1>2. IsSum(t, s, Len(s))
  <2>1. Len(s) \in Nat
    BY <1>1
  <2> QED BY <2>1, SumExists DEF IsSum
<1>3. Total(s) = t[Len(s)]
  BY DEF Total
<1> HIDE DEF t
<1>4. PartialSums(t, s)
  BY <1>1, <1>2, SumsAreInts
<1>5. /\ t \in [0 .. n -> Int] /\ t[0] = 0 /\ t[n] = Total(s)
      /\ \A i \in 1 .. n : t[i] = t[i - 1] + s[i]
  BY <1>1, <1>3, <1>4 DEF PartialSums
<1>6. t[n] \in Int
  BY <1>5
<1> QED BY <1>5, <1>6

LEMMA ProductIsInt ==
  ASSUME NEW a \in Int, NEW b \in Int PROVE a * b \in Int
OBVIOUS

(* Sums are linear.                                                        *)
Combines(s, n, a, f, b, g, c, h, d) ==
  /\ n \in Nat /\ {s, f, g, h} \subseteq [1 .. n -> Int] /\ {a, b, c, d} \subseteq Int
  /\ \A i \in 1 .. n : s[i] = a * f[i] + b * g[i] + c * h[i] + d

LEMMA LinearSum ==
  ASSUME NEW s, NEW n, NEW a, NEW f, NEW b, NEW g, NEW c, NEW h, NEW d,
         Combines(s, n, a, f, b, g, c, h, d)
  PROVE  Total(s) = a * Total(f) + b * Total(g) + c * Total(h) + d * n
<1>0. /\ n \in Nat /\ s \in [1 .. n -> Int]
      /\ f \in [1 .. n -> Int] /\ g \in [1 .. n -> Int] /\ h \in [1 .. n -> Int]
      /\ a \in Int /\ b \in Int /\ c \in Int /\ d \in Int
  BY DEF Combines
<1>1. PICK t : /\ t \in [0 .. n -> Int] /\ t[0] = 0 /\ t[n] = Total(f)
               /\ \A i \in 1 .. n : t[i] = t[i - 1] + f[i]
  BY <1>0, TotalSums
<1>2. PICK u : /\ u \in [0 .. n -> Int] /\ u[0] = 0 /\ u[n] = Total(g)
               /\ \A i \in 1 .. n : u[i] = u[i - 1] + g[i]
  BY <1>0, TotalSums
<1>3. PICK v : /\ v \in [0 .. n -> Int] /\ v[0] = 0 /\ v[n] = Total(h)
               /\ \A i \in 1 .. n : v[i] = v[i - 1] + h[i]
  BY <1>0, TotalSums
<1>4. PICK w : /\ w \in [0 .. n -> Int] /\ w[0] = 0 /\ w[n] = Total(s)
               /\ \A i \in 1 .. n : w[i] = w[i - 1] + s[i]
  BY <1>0, TotalSums
<1> DEFINE T == {i \in Nat : i <= n => w[i] = a * t[i] + b * u[i] + c * v[i] + d * i}
<1>5. 0 \in T
  BY <1>0, <1>1, <1>2, <1>3, <1>4
<1>6. ASSUME NEW i \in Nat, i \in T PROVE i + 1 \in T
  <2> SUFFICES ASSUME i + 1 <= n
               PROVE  w[i + 1] = a * t[i + 1] + b * u[i + 1] + c * v[i + 1] + d * (i + 1)
    OBVIOUS
  <2> DEFINE j == i + 1
  <2>1. j \in 1 .. n /\ j - 1 = i /\ i \in 0 .. n
    BY <1>0
  <2>2. w[i] = a * t[i] + b * u[i] + c * v[i] + d * i
    BY <1>6, <2>1
  <2>3. /\ t[j] = t[i] + f[j] /\ u[j] = u[i] + g[j] /\ v[j] = v[i] + h[j] /\ w[j] = w[i] + s[j]
        /\ s[j] = a * f[j] + b * g[j] + c * h[j] + d
    BY <1>1, <1>2, <1>3, <1>4, <2>1 DEF Combines
  <2>4. /\ t[i] \in Int /\ u[i] \in Int /\ v[i] \in Int
        /\ f[j] \in Int /\ g[j] \in Int /\ h[j] \in Int
    BY <1>0, <1>1, <1>2, <1>3, <2>1
  <2> HIDE DEF T, j
  <2>5. /\ a * t[j] = a * t[i] + a * f[j] /\ b * u[j] = b * u[i] + b * g[j]
        /\ c * v[j] = c * v[i] + c * h[j] /\ d * (i + 1) = d * i + d
    <3> DEFINE ti == t[i]  ui == u[i]  vi == v[i]  fj == f[j]  gj == g[j]  hj == h[j]
    <3>1. /\ ti \in Int /\ ui \in Int /\ vi \in Int /\ fj \in Int /\ gj \in Int /\ hj \in Int
      BY <2>4
    <3>2. t[j] = ti + fj /\ u[j] = ui + gj /\ v[j] = vi + hj
      BY <2>3
    <3> HIDE DEF ti, ui, vi, fj, gj, hj
    <3>3. a * (ti + fj) = a * ti + a * fj
      BY <1>0, <3>1
    <3>4. b * (ui + gj) = b * ui + b * gj
      BY <1>0, <3>1
    <3>5. c * (vi + hj) = c * vi + c * hj
      BY <1>0, <3>1
    <3>6. d * (i + 1) = d * i + d
      BY <1>0
    <3>7. a * t[j] = a * ti + a * fj
      BY <3>2, <3>3
    <3>8. b * u[j] = b * ui + b * gj
      BY <3>2, <3>4
    <3>9. c * v[j] = c * vi + c * hj
      BY <3>2, <3>5
    <3>10. /\ a * t[j] = a * t[i] + a * f[j] /\ b * u[j] = b * u[i] + b * g[j]
           /\ c * v[j] = c * v[i] + c * h[j]
      BY <3>7, <3>8, <3>9, Zenon DEF ti, ui, vi, fj, gj, hj
    <3> QED BY <3>6, <3>10, Zenon
  <2>6. w[j] = a * t[j] + b * u[j] + c * v[j] + d * (i + 1)
    <3> DEFINE ti == t[i]  ui == u[i]  vi == v[i]  fj == f[j]  gj == g[j]  hj == h[j]
    <3>0. /\ ti \in Int /\ ui \in Int /\ vi \in Int /\ fj \in Int /\ gj \in Int /\ hj \in Int
      BY <2>4
    <3> HIDE DEF ti, ui, vi, fj, gj, hj
    <3>1. a * ti \in Int /\ a * fj \in Int
      BY <1>0, <3>0
    <3>2. b * ui \in Int /\ b * gj \in Int
      BY <1>0, <3>0
    <3>3. c * vi \in Int /\ c * hj \in Int /\ d * i \in Int
      BY <1>0, <3>0
    <3> DEFINE at == a * t[i]  bu == b * u[i]  cv == c * v[i]  di == d * i
               af == a * f[j]  bg == b * g[j]  ch == c * h[j]
    <3>4. /\ w[j] = (at + bu + cv + di) + (af + bg + ch + d)
          /\ a * t[j] + b * u[j] + c * v[j] + d * (i + 1) = (at + af) + (bu + bg) + (cv + ch) + (di + d)
      BY <2>2, <2>3, <2>5
    <3>5. at \in Int /\ bu \in Int /\ cv \in Int /\ di \in Int /\ af \in Int /\ bg \in Int /\ ch \in Int
      BY <3>1, <3>2, <3>3 DEF ti, ui, vi, fj, gj, hj
    <3> HIDE DEF at, bu, cv, di, af, bg, ch
    <3> QED BY <1>0, <3>4, <3>5
  <2> QED BY <2>6 DEF j
<1> HIDE DEF T
<1>7. Nat \subseteq T
  BY <1>5, <1>6, SetInduction
<1>8. w[n] = a * t[n] + b * u[n] + c * v[n] + d * n
  BY <1>0, <1>7 DEF T
<1> QED BY <1>1, <1>2, <1>3, <1>4, <1>8

(* A sum of what is not negative is at least each of its terms.            *)
LEMMA TermAtMostSum ==
  ASSUME NEW n \in Nat, NEW s \in [1 .. n -> Int], \A i \in 1 .. n : s[i] >= 0
  PROVE  Total(s) >= 0 /\ \A i \in 1 .. n : s[i] <= Total(s)
<1>1. PICK t : /\ t \in [0 .. n -> Int] /\ t[0] = 0 /\ t[n] = Total(s)
               /\ \A i \in 1 .. n : t[i] = t[i - 1] + s[i]
  BY TotalSums
<1> DEFINE T == {i \in Nat : i <= n => t[i] >= 0 /\ \A j \in 1 .. i : s[j] <= t[i]}
<1>2. 0 \in T
  BY <1>1
<1>3. ASSUME NEW i \in Nat, i \in T PROVE i + 1 \in T
  <2> SUFFICES ASSUME i + 1 <= n PROVE t[i + 1] >= 0 /\ \A j \in 1 .. i + 1 : s[j] <= t[i + 1]
    OBVIOUS
  <2>1. i + 1 \in 1 .. n /\ i + 1 - 1 = i /\ i \in 0 .. n
    OBVIOUS
  <2>2. /\ t[i + 1] = t[i] + s[i + 1] /\ t[i] \in Int /\ s[i + 1] \in Int
        /\ s[i + 1] >= 0 /\ t[i] >= 0 /\ \A j \in 1 .. i : s[j] <= t[i]
    BY <1>1, <1>3, <2>1
  <2>3. t[i + 1] >= 0 /\ s[i + 1] <= t[i + 1]
    BY <2>2
  <2>4. ASSUME NEW j \in 1 .. i PROVE s[j] <= t[i + 1]
    <3>1. s[j] \in Int
      BY <2>1
    <3> QED BY <2>2, <3>1
  <2>5. \A j \in 1 .. i + 1 : j = i + 1 \/ j \in 1 .. i
    OBVIOUS
  <2> QED BY <2>3, <2>4, <2>5
<1> HIDE DEF T
<1>4. Nat \subseteq T
  BY <1>2, <1>3, SetInduction
<1> QED BY <1>1, <1>4 DEF T

---------------------------------------------------------------------------
(* Deviations from the mean, n times: what Spread adds the products of.    *)
Deviation(s, n, i) == n * s[i] - Total(s)

LEMMA DeviationIsInt ==
  ASSUME NEW n \in Nat, NEW s \in [1 .. n -> Int], NEW i \in 1 .. n
  PROVE  Deviation(s, n, i) \in Int
<1>1. Total(s) \in Int
  BY TotalSums
<1>2. n * s[i] \in Int
  BY ProductIsInt
<1> QED BY <1>1, <1>2 DEF Deviation

LEMMA SpreadOf ==
  ASSUME NEW n \in Nat, NEW a \in [1 .. n -> Int], NEW b \in [1 .. n -> Int]
  PROVE  /\ Products(a, b) \in [1 .. n -> Int]
         /\ \A i \in 1 .. n : Products(a, b)[i] = a[i] * b[i]
         /\ Spread(a, b) = n * Total(Products(a, b)) - Total(a) * Total(b)
         /\ Spread(a, b) \in Int
<1>1. Len(a) = n
  BY FunctionLen
<1>2. Products(a, b) = [i \in 1 .. n |-> a[i] * b[i]]
  BY DEF Products
<1>3. \A i \in 1 .. n : a[i] * b[i] \in Int
  BY ProductIsInt
<1>4. Products(a, b) \in [1 .. n -> Int] /\ \A i \in 1 .. n : Products(a, b)[i] = a[i] * b[i]
  BY <1>2, <1>3
<1>5. Spread(a, b) = n * Total(Products(a, b)) - Total(a) * Total(b)
  BY <1>1 DEF Spread
<1>6. n * Total(Products(a, b)) \in Int /\ Total(a) * Total(b) \in Int
  BY <1>4, TotalSums, ProductIsInt
<1>7. Spread(a, b) \in Int
  BY <1>5, <1>6
<1> QED BY <1>4, <1>5, <1>7

Deviates(z, n, a, b) ==
  /\ n \in Nat /\ {z, a, b} \subseteq [1 .. n -> Int]
  /\ \A i \in 1 .. n : z[i] = Deviation(a, n, i) * Deviation(b, n, i)

LEMMA DeviationProducts ==
  ASSUME NEW z, NEW n, NEW a, NEW b, Deviates(z, n, a, b)
  PROVE  Total(z) = n * Spread(a, b)
<1>0. n \in Nat /\ z \in [1 .. n -> Int] /\ a \in [1 .. n -> Int] /\ b \in [1 .. n -> Int]
  BY DEF Deviates
<1> DEFINE f == Products(a, b)  P == Total(f)  A == Total(a)  B == Total(b)
<1>1. /\ f \in [1 .. n -> Int] /\ \A i \in 1 .. n : f[i] = a[i] * b[i]
      /\ Spread(a, b) = n * P - A * B
  BY <1>0, SpreadOf
<1>2. P \in Int /\ A \in Int /\ B \in Int
  BY <1>0, <1>1, TotalSums
<1>3. \A i \in 1 .. n : z[i] = (n * a[i] - A) * (n * b[i] - B)
  BY DEF Deviates, Deviation
<1> HIDE DEF f, P, A, B
<1> DEFINE q1 == n * n  q2 == 0 - n * B  q3 == 0 - n * A  q4 == A * B
<1>4. q1 \in Int /\ q2 \in Int /\ q3 \in Int /\ q4 \in Int
  <2>1. n * n \in Int /\ n * B \in Int /\ n * A \in Int /\ A * B \in Int
    BY <1>0, <1>2, ProductIsInt
  <2> QED BY <2>1
<1>5. ASSUME NEW i \in 1 .. n PROVE z[i] = q1 * f[i] + q2 * a[i] + q3 * b[i] + q4
  <2> DEFINE t == a[i]  q == b[i]
  <2>1. t \in Int /\ q \in Int /\ z[i] = (n * t - A) * (n * q - B) /\ f[i] = t * q
    BY <1>0, <1>1, <1>3
  <2> HIDE DEF t, q
  <2>2. (n * t - A) * (n * q - B) = (n * n) * (t * q) + (0 - n * B) * t + (0 - n * A) * q + A * B
    <3> DEFINE v == n * t  w == n * q
    <3>1. v \in Int /\ w \in Int
      BY <1>0, <2>1, ProductIsInt
    <3>2. v * w = (n * n) * (t * q) /\ v * B = (n * B) * t /\ A * w = (n * A) * q
      BY <1>0, <1>2, <2>1
    <3>3. (0 - n * B) * t = 0 - (n * B) * t /\ (0 - n * A) * q = 0 - (n * A) * q
      BY <1>0, <1>2, <2>1
    <3> HIDE DEF v, w
    <3>4. (v - A) * (w - B) = v * w - v * B - A * w + A * B
      BY <1>2, <3>1
    <3>5. v * w \in Int /\ v * B \in Int /\ A * w \in Int /\ A * B \in Int
      BY <1>2, <3>1, ProductIsInt
    <3>6. (v - A) * (w - B) = (n * n) * (t * q) + (0 - n * B) * t + (0 - n * A) * q + A * B
      BY <3>2, <3>3, <3>4, <3>5
    <3> QED BY <3>6 DEF v, w
  <2>3. z[i] = q1 * f[i] + q2 * t + q3 * q + q4
    BY <2>1, <2>2
  <2> QED BY <2>3 DEF t, q
<1> HIDE DEF q1, q2, q3, q4
<1>6. Total(z) = q1 * P + q2 * A + q3 * B + q4 * n
  <2>1. Combines(z, n, q1, f, q2, a, q3, b, q4)
    BY <1>0, <1>1, <1>4, <1>5 DEF Combines
  <2>2. Total(z) = q1 * Total(f) + q2 * Total(a) + q3 * Total(b) + q4 * n
    BY <2>1, LinearSum
  <2> QED BY <2>2 DEF P, A, B
<1>7. (n * n) * P + (0 - n * B) * A + (0 - n * A) * B + (A * B) * n = n * (n * P - A * B)
  BY <1>0, <1>2
<1> QED BY <1>1, <1>6, <1>7 DEF q1, q2, q3, q4

(* No series has a negative spread, and only a constant one has none.      *)
LEMMA SpreadPositive ==
  ASSUME NEW n \in Nat \ {0}, NEW a \in [1 .. n -> Int]
  PROVE  /\ Spread(a, a) \in Nat
         /\ Spread(a, a) = 0 => \A i, j \in 1 .. n : a[i] = a[j]
<1> DEFINE z == [i \in 1 .. n |-> Deviation(a, n, i) * Deviation(a, n, i)]
           S == Spread(a, a)
<1>1. ASSUME NEW i \in 1 .. n PROVE z[i] \in Int /\ z[i] >= 0 /\ (z[i] <= 0 => Deviation(a, n, i) = 0)
  <2> DEFINE u == Deviation(a, n, i)
  <2>1. u \in Int
    BY DeviationIsInt
  <2>2. z[i] = u * u
    OBVIOUS
  <2> HIDE DEF u, z
  <2>3. u * u \in Int /\ u * u >= 0 /\ (u * u <= 0 => u = 0)
    BY <2>1
  <2> QED BY <2>2, <2>3 DEF u
<1>2. z \in [1 .. n -> Int] /\ \A i \in 1 .. n : z[i] >= 0
  BY <1>1
<1>3. Total(z) = n * S
  <2>1. Deviates(z, n, a, a)
    BY <1>2 DEF Deviates
  <2> QED BY <2>1, DeviationProducts
<1> HIDE DEF z
<1>4. Total(z) >= 0 /\ \A i \in 1 .. n : z[i] <= Total(z)
  BY <1>2, TermAtMostSum
<1>5. S \in Int
  BY SpreadOf
<1>6. S \in Nat
  <2> HIDE DEF S
  <2>1. n * S >= 0 => S >= 0
    BY <1>5
  <2> QED BY <1>3, <1>4, <1>5, <2>1
<1>7. ASSUME S = 0, NEW i \in 1 .. n, NEW j \in 1 .. n PROVE a[i] = a[j]
  <2> HIDE DEF S
  <2>1. n * S = 0
    BY <1>7
  <2>2. Deviation(a, n, i) = 0 /\ Deviation(a, n, j) = 0
    BY <1>1, <1>3, <1>4, <2>1
  <2> DEFINE t == a[i]  q == a[j]  A == Total(a)
  <2>3. t \in Int /\ q \in Int /\ A \in Int
    BY TotalSums
  <2>4. n * t - A = 0 /\ n * q - A = 0
    BY <2>2 DEF Deviation
  <2> HIDE DEF t, q, A
  <2>5. n * t = n * q
    <3>1. n * t \in Int /\ n * q \in Int
      BY <2>3, ProductIsInt
    <3> QED BY <2>3, <2>4, <3>1
  <2>6. t = q
    BY <2>3, <2>5
  <2> QED BY <2>6 DEF t, q
<1> QED BY <1>6, <1>7

(* Equality in the inequality of Cauchy and Schwarz: the one series is a   *)
(* straight line in the other.                                             *)
LEMMA Collinear ==
  ASSUME NEW n \in Nat \ {0}, NEW a \in [1 .. n -> Int], NEW b \in [1 .. n -> Int],
         Spread(a, b) * Spread(a, b) = Spread(a, a) * Spread(b, b),
         NEW i \in 1 .. n, NEW j \in 1 .. n
  PROVE  Spread(a, a) * (b[i] - b[j]) = Spread(a, b) * (a[i] - a[j])
<1> DEFINE S == Spread(a, a)  C == Spread(a, b)  D == Spread(b, b)
           u(k) == Deviation(a, n, k)  v(k) == Deviation(b, n, k)
           w(k) == S * v(k) - C * u(k)
           uu == [k \in 1 .. n |-> u(k) * u(k)]
           uv == [k \in 1 .. n |-> u(k) * v(k)]
           vv == [k \in 1 .. n |-> v(k) * v(k)]
           ww == [k \in 1 .. n |-> w(k) * w(k)]
           q1 == S * S  q2 == 0 - 2 * (S * C)  q3 == C * C
<1>1. S \in Int /\ C \in Int /\ D \in Int /\ C * C = S * D
  BY SpreadOf
<1> HIDE DEF S, C, D
<1>2. ASSUME NEW k \in 1 .. n PROVE u(k) \in Int /\ v(k) \in Int
  BY DeviationIsInt
<1> HIDE DEF u, v
<1>3. ASSUME NEW k \in 1 .. n PROVE w(k) \in Int
  <2>1. S * v(k) \in Int /\ C * u(k) \in Int
    BY <1>1, <1>2, ProductIsInt
  <2> QED BY <2>1
<1>4. ASSUME NEW k \in 1 .. n
      PROVE  u(k) * u(k) \in Int /\ u(k) * v(k) \in Int /\ v(k) * v(k) \in Int /\ w(k) * w(k) \in Int
  <2> HIDE DEF w
  <2> QED BY <1>2, <1>3, ProductIsInt
<1>5. ASSUME NEW k \in 1 .. n
      PROVE  w(k) * w(k) = q1 * (v(k) * v(k)) + q2 * (u(k) * v(k)) + q3 * (u(k) * u(k)) + 0
  <2> DEFINE t == u(k)  q == v(k)
  <2>1. t \in Int /\ q \in Int
    BY <1>2
  <2> HIDE DEF t, q
  <2>2. (S * q - C * t) * (S * q - C * t)
          = (S * S) * (q * q) + (0 - 2 * (S * C)) * (t * q) + (C * C) * (t * t) + 0
    <3> DEFINE sq == S * q  ct == C * t
    <3>1. sq \in Int /\ ct \in Int
      BY <1>1, <2>1, ProductIsInt
    <3>2. sq * sq = (S * S) * (q * q) /\ sq * ct = (S * C) * (t * q) /\ ct * ct = (C * C) * (t * t)
      BY <1>1, <2>1
    <3>3. (0 - 2 * (S * C)) * (t * q) = 0 - 2 * ((S * C) * (t * q))
      BY <1>1, <2>1
    <3> HIDE DEF sq, ct
    <3>4. (sq - ct) * (sq - ct) = sq * sq + (0 - 2 * (sq * ct)) + ct * ct + 0
      BY <3>1
    <3>5. (sq - ct) * (sq - ct) = (S * S) * (q * q) + (0 - 2 * (S * C)) * (t * q) + (C * C) * (t * t) + 0
      BY <3>2, <3>3, <3>4
    <3> QED BY <3>5 DEF sq, ct
  <2> QED BY <2>2 DEF t, q
<1>6. q1 \in Int /\ q2 \in Int /\ q3 \in Int
  <2>1. S * S \in Int /\ S * C \in Int /\ C * C \in Int
    BY <1>1, ProductIsInt
  <2> QED BY <2>1
<1>7. /\ uu \in [1 .. n -> Int] /\ uv \in [1 .. n -> Int] /\ vv \in [1 .. n -> Int] /\ ww \in [1 .. n -> Int]
      /\ \A k \in 1 .. n : /\ uu[k] = u(k) * u(k) /\ uv[k] = u(k) * v(k)
                           /\ vv[k] = v(k) * v(k) /\ ww[k] = w(k) * w(k)
  <2> HIDE DEF w
  <2> QED BY <1>4
<1> HIDE DEF uu, uv, vv, ww, w, q1, q2, q3
<1>8. Total(ww) = q1 * Total(vv) + q2 * Total(uv) + q3 * Total(uu) + 0 * n
  <2>1. \A k \in 1 .. n : ww[k] = q1 * vv[k] + q2 * uv[k] + q3 * uu[k] + 0
    BY <1>5, <1>7
  <2>2. Combines(ww, n, q1, vv, q2, uv, q3, uu, 0)
    <3>1. {ww, vv, uv, uu} \subseteq [1 .. n -> Int]
      BY <1>7
    <3>2. {q1, q2, q3, 0} \subseteq Int
      BY <1>6
    <3> QED BY <2>1, <3>1, <3>2 DEF Combines
  <2> QED BY <2>2, LinearSum
<1>9. Total(uu) = n * S /\ Total(uv) = n * C /\ Total(vv) = n * D
  <2>1. \A k \in 1 .. n : uu[k] = Deviation(a, n, k) * Deviation(a, n, k)
    BY <1>7 DEF u
  <2>2. \A k \in 1 .. n : uv[k] = Deviation(a, n, k) * Deviation(b, n, k)
    BY <1>7 DEF u, v
  <2>3. \A k \in 1 .. n : vv[k] = Deviation(b, n, k) * Deviation(b, n, k)
    BY <1>7 DEF v
  <2>4. Total(uu) = n * S
    <3>1. Deviates(uu, n, a, a)
      BY <1>7, <2>1 DEF Deviates
    <3> QED BY <3>1, DeviationProducts DEF S
  <2>5. Total(uv) = n * C
    <3>1. Deviates(uv, n, a, b)
      BY <1>7, <2>2 DEF Deviates
    <3> QED BY <3>1, DeviationProducts DEF C
  <2>6. Total(vv) = n * D
    <3>1. Deviates(vv, n, b, b)
      BY <1>7, <2>3 DEF Deviates
    <3> QED BY <3>1, DeviationProducts DEF D
  <2> QED BY <2>4, <2>5, <2>6
<1>10. Total(ww) = 0
  <2>1. (S * S) * (n * D) = (n * S) * (S * D)
    BY <1>1
  <2>2. (0 - 2 * (S * C)) * (n * C) = 0 - 2 * ((n * S) * (C * C))
    BY <1>1
  <2>3. (C * C) * (n * S) = (n * S) * (C * C)
    BY <1>1
  <2> DEFINE K == (n * S) * (C * C)
  <2>4. K \in Int
    BY <1>1, ProductIsInt
  <2>5. Total(ww) = K + (0 - 2 * K) + K + 0 * n
    BY <1>1, <1>8, <1>9, <2>1, <2>2, <2>3 DEF q1, q2, q3
  <2> HIDE DEF K
  <2> QED BY <2>4, <2>5
<1>11. ASSUME NEW k \in 1 .. n PROVE w(k) = 0
  <2>1. \A l \in 1 .. n : ww[l] >= 0
    <3> SUFFICES ASSUME NEW l \in 1 .. n PROVE ww[l] >= 0
      OBVIOUS
    <3> DEFINE t == w(l)
    <3>1. t \in Int /\ ww[l] = t * t
      BY <1>3, <1>7
    <3> HIDE DEF t
    <3>2. t * t >= 0
      BY <3>1
    <3> QED BY <3>1, <3>2
  <2>2. ww[k] <= 0
    BY <1>7, <1>10, <2>1, TermAtMostSum
  <2> DEFINE t == w(k)
  <2>3. t \in Int /\ t * t <= 0
    BY <1>3, <1>7, <2>2
  <2> HIDE DEF t
  <2>4. t = 0
    BY <2>3
  <2> QED BY <2>4 DEF t
<1> DEFINE bi == b[i]  bj == b[j]  ai == a[i]  aj == a[j]  A == Total(a)  B == Total(b)
<1>12. bi \in Int /\ bj \in Int /\ ai \in Int /\ aj \in Int /\ A \in Int /\ B \in Int
  BY TotalSums
<1>13. S * (n * bi - B) - C * (n * ai - A) = 0 /\ S * (n * bj - B) - C * (n * aj - A) = 0
  BY <1>11 DEF w, u, v, Deviation
<1> HIDE DEF bi, bj, ai, aj, A, B
<1>14. n * (S * (bi - bj) - C * (ai - aj))
         = (S * (n * bi - B) - C * (n * ai - A)) - (S * (n * bj - B) - C * (n * aj - A))
  BY <1>1, <1>12
<1> DEFINE e == S * (bi - bj) - C * (ai - aj)
<1>15. e \in Int /\ S * (bi - bj) \in Int /\ C * (ai - aj) \in Int
  <2>1. bi - bj \in Int /\ ai - aj \in Int
    BY <1>12
  <2>2. S * (bi - bj) \in Int /\ C * (ai - aj) \in Int
    BY <1>1, <2>1, ProductIsInt
  <2> QED BY <2>2
<1>16. n * e = 0
  BY <1>13, <1>14
<1>17. e = 0
  <2> HIDE DEF e
  <2> QED BY <1>15, <1>16
<1>18. S * (bi - bj) = C * (ai - aj)
  BY <1>15, <1>17
<1> QED BY <1>18 DEF S, C, bi, bj, ai, aj

LEMMA PerfectIsAlike ==
  ASSUME NEW n \in Nat \ {0}, NEW a \in [1 .. n -> Int], NEW b \in [1 .. n -> Int],
         Spread(a, a) # 0, Spread(b, b) # 0,
         Spread(a, b) * Spread(a, b) = Spread(a, a) * Spread(b, b)
  PROVE  Alike(a, b) \/ Alike(a, [i \in 1 .. n |-> -b[i]])
<1> DEFINE S == Spread(a, a)  C == Spread(a, b)  D == Spread(b, b)
<1>1. S \in Nat \ {0} /\ C \in Int /\ D \in Nat \ {0} /\ C * C = S * D
  BY SpreadPositive, SpreadOf
<1>2. \A i, j \in 1 .. n : S * (b[i] - b[j]) = C * (a[i] - a[j])
  BY Collinear
<1> HIDE DEF S, C, D
<1>3. C # 0
  <2> SUFFICES ASSUME C = 0 PROVE FALSE
    OBVIOUS
  <2>1. S * D = 0
    BY <1>1
  <2>2. S * D # 0
    BY <1>1
  <2> QED BY <2>1, <2>2
<1>4. ASSUME NEW i \in 1 .. n, NEW j \in 1 .. n
      PROVE  /\ C > 0 => (a[i] < a[j] <=> b[i] < b[j])
             /\ C < 0 => (a[i] < a[j] <=> -b[i] < -b[j])
  <2> DEFINE d == a[i] - a[j]  e == b[i] - b[j]
  <2>1. a[i] \in Int /\ a[j] \in Int /\ b[i] \in Int /\ b[j] \in Int /\ d \in Int /\ e \in Int /\ S * e = C * d
    <3>1. a[i] \in Int /\ a[j] \in Int /\ b[i] \in Int /\ b[j] \in Int
      OBVIOUS
    <3>2. S * e = C * d
      BY <1>2
    <3> QED BY <3>1, <3>2
  <2>2. /\ a[i] < a[j] <=> d < 0
        /\ b[i] < b[j] <=> e < 0
        /\ -b[i] < -b[j] <=> e > 0
    <3> DEFINE ai == a[i]  aj == a[j]  bi == b[i]  bj == b[j]
    <3>1. ai \in Int /\ aj \in Int /\ bi \in Int /\ bj \in Int
      BY <2>1
    <3> HIDE DEF ai, aj, bi, bj
    <3>2. ai < aj <=> ai - aj < 0
      BY <3>1
    <3>3. (bi < bj <=> bi - bj < 0) /\ (-bi < -bj <=> bi - bj > 0)
      BY <3>1
    <3> QED BY <3>2, <3>3 DEF ai, aj, bi, bj
  <2> HIDE DEF d, e
  <2>3. /\ e < 0 <=> S * e < 0
        /\ e > 0 <=> S * e > 0
    BY <1>1, <2>1
  <2>4. /\ C > 0 => (d < 0 <=> C * d < 0)
        /\ C < 0 => (d < 0 <=> C * d > 0)
    <3>1. CASE C > 0
      BY <1>1, <2>1, <3>1
    <3>2. CASE C < 0
      BY <1>1, <2>1, <3>2
    <3> QED BY <1>1, <3>1, <3>2
  <2> QED BY <2>1, <2>2, <2>3, <2>4
<1>5. DOMAIN a = 1 .. n
  OBVIOUS
<1>6. CASE C > 0
  BY <1>4, <1>5, <1>6 DEF Alike
<1>7. CASE C < 0
  BY <1>4, <1>5, <1>7 DEF Alike
<1> QED BY <1>1, <1>3, <1>6, <1>7

---------------------------------------------------------------------------
(* Ranks.  A run of ties ends at as many places as there are values up to  *)
(* its own, and begins, seen from the other end, likewise.                 *)
Negated(s, n) == [i \in 1 .. n |-> -s[i]]
UpTo(s, n, i) == Cardinality(AtMostAs(s, n, i))

LEMMA EndOfTies ==
  ASSUME NEW n \in Nat, NEW s \in [1 .. n -> Int], NEW L, Sorted(L, s, n), NEW i \in 1 .. n
  PROVE  /\ UpTo(s, n, i) \in 1 .. n /\ s[L[UpTo(s, n, i)]] = s[i]
         /\ \A k \in 1 .. n : s[L[k]] = s[i] => k <= UpTo(s, n, i)
<1> DEFINE c == UpTo(s, n, i)
<1>1. c \in 1 .. n
  BY AtMostCounted DEF UpTo
<1>2. s[L[c]] <= s[i]
  BY CountedAtMost DEF UpTo
<1>3. ASSUME NEW k \in 1 .. n, s[L[k]] <= s[i] PROVE k <= c
  BY <1>3, CountedAtLeast DEF UpTo
<1> HIDE DEF c
<1>4. \A k \in 1 .. n : L[k] \in 1 .. n /\ s[L[k]] \in Int
  BY DEF Sorted
<1>5. PICK k \in 1 .. n : L[k] = i
  BY DEF Sorted
<1>6. s[i] <= s[L[c]]
  <2>1. k <= c
    BY <1>3, <1>5
  <2> QED BY <1>1, <1>5, <2>1 DEF Sorted
<1>7. s[L[c]] = s[i]
  BY <1>1, <1>2, <1>4, <1>6
<1> QED BY <1>1, <1>3, <1>7 DEF c

LEMMA SortedBackwards ==
  ASSUME NEW n \in Nat, NEW s \in [1 .. n -> Int], NEW L, Sorted(L, s, n)
  PROVE  Sorted([k \in 1 .. n |-> L[n + 1 - k]], Negated(s, n), n)
<1> DEFINE B == [k \in 1 .. n |-> L[n + 1 - k]]
<1>1. /\ L \in [1 .. n -> 1 .. n]
      /\ \A i \in 1 .. n : \E k \in 1 .. n : L[k] = i
      /\ \A k, l \in 1 .. n : L[k] = L[l] => k = l
      /\ \A k, l \in 1 .. n : k <= l => s[L[k]] <= s[L[l]]
  BY DEF Sorted
<1>2. \A k \in 1 .. n : n + 1 - k \in 1 .. n /\ n + 1 - (n + 1 - k) = k /\ B[k] = L[n + 1 - k]
  OBVIOUS
<1> HIDE DEF B
<1>3. B \in [1 .. n -> 1 .. n]
  BY <1>1, <1>2 DEF B
<1>4. ASSUME NEW i \in 1 .. n PROVE \E k \in 1 .. n : B[k] = i
  <2>1. PICK k \in 1 .. n : L[k] = i
    BY <1>1
  <2>2. n + 1 - k \in 1 .. n /\ B[n + 1 - k] = i
    BY <1>2, <2>1
  <2> QED BY <2>2
<1>5. ASSUME NEW k \in 1 .. n, NEW l \in 1 .. n, B[k] = B[l] PROVE k = l
  <2>1. n + 1 - k = n + 1 - l
    <3> DEFINE kk == n + 1 - k  ll == n + 1 - l
    <3>1. kk \in 1 .. n /\ ll \in 1 .. n /\ L[kk] = L[ll]
      BY <1>2, <1>5
    <3> HIDE DEF kk, ll
    <3>2. kk = ll
      BY <1>1, <3>1
    <3> QED BY <3>2 DEF kk, ll
  <2> QED BY <2>1
<1>6. ASSUME NEW k \in 1 .. n, NEW l \in 1 .. n, k <= l
      PROVE  Negated(s, n)[B[k]] <= Negated(s, n)[B[l]]
  <2> DEFINE kk == n + 1 - k  ll == n + 1 - l
  <2>1. ll \in 1 .. n /\ kk \in 1 .. n /\ ll <= kk /\ B[k] = L[kk] /\ B[l] = L[ll]
    BY <1>2, <1>6
  <2> HIDE DEF kk, ll
  <2>2. s[B[l]] <= s[B[k]]
    BY <1>1, <2>1
  <2>3. B[k] \in 1 .. n /\ B[l] \in 1 .. n
    BY <1>3
  <2>4. s[B[k]] \in Int /\ s[B[l]] \in Int
    BY <2>3
  <2>5. Negated(s, n)[B[k]] = -s[B[k]] /\ Negated(s, n)[B[l]] = -s[B[l]]
    BY <2>3 DEF Negated
  <2> QED BY <2>2, <2>4, <2>5
<1>7. Sorted(B, Negated(s, n), n)
  BY <1>3, <1>4, <1>5, <1>6 DEF Sorted
<1> QED BY <1>7 DEF B

LEMMA NegatedIsInt ==
  ASSUME NEW n, NEW s \in [1 .. n -> Int]
  PROVE  Negated(s, n) \in [1 .. n -> Int] /\ \A i \in 1 .. n : Negated(s, n)[i] = -s[i]
BY DEF Negated

(* The middle of a run of ties, from both ends.                            *)
LEMMA RankIs ==
  ASSUME NEW n \in Nat, NEW s \in [1 .. n -> Int], NEW i \in 1 .. n
  PROVE  /\ ranks(s)[i] = (n + 1 - UpTo(Negated(s, n), n, i)) + UpTo(s, n, i)
         /\ UpTo(Negated(s, n), n, i) \in 1 .. n /\ UpTo(s, n, i) \in 1 .. n
<1> DEFINE L == Order(s)  B == [k \in 1 .. n |-> L[n + 1 - k]]
           P == Positions(s, s[i])  z == Negated(s, n)
           last == UpTo(s, n, i)  first == n + 1 - UpTo(z, n, i)
<1>1. Sorted(L, s, n)
  BY OrderIsSorted
<1>2. z \in [1 .. n -> Int] /\ \A k \in 1 .. n : z[k] = -s[k]
  BY NegatedIsInt
<1>3. Sorted(B, z, n)
  BY <1>1, SortedBackwards
<1>4. P = {k \in 1 .. n : s[L[k]] = s[i]}
  BY DEF Positions
<1>5. \A k \in 1 .. n : L[k] \in 1 .. n /\ s[L[k]] \in Int
  BY <1>1 DEF Sorted
<1> HIDE DEF L, z, P
<1>6. /\ last \in 1 .. n /\ s[L[last]] = s[i]
      /\ \A k \in 1 .. n : s[L[k]] = s[i] => k <= last
  BY <1>1, EndOfTies
<1> DEFINE c == UpTo(z, n, i)
<1>7. /\ c \in 1 .. n /\ z[B[c]] = z[i]
      /\ \A k \in 1 .. n : z[B[k]] = z[i] => k <= c
  <2> HIDE DEF B
  <2> QED BY <1>2, <1>3, EndOfTies
<1> HIDE DEF c
<1>8. first = n + 1 - c
  BY DEF c
<1> HIDE DEF first, last
<1>9. first \in 1 .. n /\ s[L[first]] = s[i]
  <2>1. first \in 1 .. n /\ B[c] = L[first]
    BY <1>7, <1>8
  <2>2. s[L[first]] \in Int /\ s[i] \in Int /\ -s[L[first]] = -s[i]
    BY <1>2, <1>5, <1>7, <2>1
  <2> QED BY <2>1, <2>2
<1>10. ASSUME NEW k \in 1 .. n, s[L[k]] = s[i] PROVE first <= k
  <2>1. n + 1 - k \in 1 .. n /\ n + 1 - (n + 1 - k) = k
    OBVIOUS
  <2>2. B[n + 1 - k] = L[k]
    BY <2>1
  <2>3. z[L[k]] = z[i]
    BY <1>2, <1>5, <1>10
  <2>4. n + 1 - k <= c
    BY <1>7, <2>1, <2>2, <2>3
  <2> QED BY <1>7, <1>8, <2>4
<1>11. Min(P) = first
  <2>1. first \in P /\ \A k \in P : first <= k
    BY <1>4, <1>9, <1>10
  <2>2. P \subseteq Int
    BY <1>4
  <2>3. \A m \in P : (\A k \in P : m <= k) => m = first
    BY <2>1, <2>2
  <2> QED BY <2>1, <2>3 DEF Min
<1>12. Max(P) = last
  <2>1. last \in P /\ \A k \in P : last >= k
    BY <1>4, <1>6
  <2>2. P \subseteq Int
    BY <1>4
  <2>3. \A m \in P : (\A k \in P : m >= k) => m = last
    BY <2>1, <2>2
  <2> QED BY <2>1, <2>3 DEF Max
<1>13. ranks(s)[i] = first + last
  <2>1. ranks(s)[i] = MiddleOfTies(s, s[i])
    BY DEF ranks
  <2> QED BY <1>11, <1>12, <2>1 DEF MiddleOfTies, P
<1> QED BY <1>6, <1>7, <1>8, <1>13 DEF first, last, c, z

LEMMA AlikeUpTo ==
  ASSUME NEW n \in Nat, NEW a \in [1 .. n -> Int], NEW b \in [1 .. n -> Int], Alike(a, b), NEW i \in 1 .. n
  PROVE  UpTo(a, n, i) = UpTo(b, n, i)
<1>1. \A j \in 1 .. n : a[i] < a[j] <=> b[i] < b[j]
  BY DEF Alike
<1>2. \A j \in 1 .. n : (a[j] <= a[i] <=> ~(a[i] < a[j])) /\ (b[j] <= b[i] <=> ~(b[i] < b[j]))
  OBVIOUS
<1>3. AtMostAs(a, n, i) = AtMostAs(b, n, i)
  BY <1>1, <1>2 DEF AtMostAs
<1> QED BY <1>3 DEF UpTo

LEMMA NegatedAlike ==
  ASSUME NEW n \in Nat, NEW a \in [1 .. n -> Int], NEW b \in [1 .. n -> Int], Alike(a, b)
  PROVE  Alike(Negated(a, n), Negated(b, n))
<1>1. \A i, j \in 1 .. n : (-a[i] < -a[j] <=> a[j] < a[i]) /\ (-b[i] < -b[j] <=> b[j] < b[i])
  OBVIOUS
<1>2. \A i, j \in 1 .. n : a[j] < a[i] <=> b[j] < b[i]
  BY DEF Alike
<1>3. DOMAIN Negated(a, n) = 1 .. n
  BY DEF Negated
<1> DEFINE na == Negated(a, n)  nb == Negated(b, n)
<1>4. \A i \in 1 .. n : na[i] = -a[i] /\ nb[i] = -b[i]
  BY NegatedIsInt
<1> HIDE DEF na, nb
<1>5. \A i, j \in 1 .. n : na[i] < na[j] <=> nb[i] < nb[j]
  BY <1>1, <1>2, <1>4
<1>6. Alike(na, nb)
  BY <1>3, <1>5 DEF Alike, na
<1> QED BY <1>6 DEF na, nb

LEMMA NegatedTwice ==
  ASSUME NEW n \in Nat, NEW b \in [1 .. n -> Int]
  PROVE  Negated(Negated(b, n), n) = b
<1>1. \A i \in 1 .. n : Negated(b, n)[i] = -b[i]
  BY NegatedIsInt
<1>2. \A i \in 1 .. n : -(-b[i]) = b[i]
  OBVIOUS
<1> QED BY <1>1, <1>2 DEF Negated

LEMMA RanksTyped ==
  ASSUME NEW n \in Nat, NEW s \in [1 .. n -> Int]
  PROVE  ranks(s) \in [1 .. n -> Int] /\ Len(ranks(s)) = n
<1>1. ASSUME NEW i \in 1 .. n PROVE ranks(s)[i] \in Int
  <2> DEFINE c == UpTo(s, n, i)  d == UpTo(Negated(s, n), n, i)
  <2>1. ranks(s)[i] = (n + 1 - d) + c /\ d \in 1 .. n /\ c \in 1 .. n
    BY RankIs
  <2> HIDE DEF c, d
  <2> QED BY <2>1
<1>2. ranks(s) = [i \in 1 .. n |-> ranks(s)[i]]
  BY DEF ranks
<1>3. ranks(s) \in [1 .. n -> Int]
  BY <1>1, <1>2
<1> QED BY <1>3, FunctionLen

(* Series in the same order have the same ranks, in opposite order         *)
(* opposite ones.                                                          *)
LEMMA RanksOfAlike ==
  ASSUME NEW n \in Nat, NEW a \in [1 .. n -> Int], NEW b \in [1 .. n -> Int], NEW i \in 1 .. n
  PROVE  /\ Alike(a, b) => ranks(a)[i] = ranks(b)[i]
         /\ Alike(a, Negated(b, n)) => ranks(a)[i] = 2 * (n + 1) - ranks(b)[i]
<1> DEFINE A == UpTo(a, n, i)  B == UpTo(b, n, i)  NA == UpTo(Negated(a, n), n, i)  NB == UpTo(Negated(b, n), n, i)
<1>1. /\ ranks(a)[i] = (n + 1 - NA) + A /\ ranks(b)[i] = (n + 1 - NB) + B
      /\ A \in Int /\ B \in Int /\ NA \in Int /\ NB \in Int
  <2>1. ranks(a)[i] = (n + 1 - NA) + A /\ A \in Int /\ NA \in Int
    <3>1. ranks(a)[i] = (n + 1 - NA) + A /\ NA \in 1 .. n /\ A \in 1 .. n
      BY RankIs
    <3> HIDE DEF A, NA
    <3> QED BY <3>1
  <2>2. ranks(b)[i] = (n + 1 - NB) + B /\ B \in Int /\ NB \in Int
    <3>1. ranks(b)[i] = (n + 1 - NB) + B /\ NB \in 1 .. n /\ B \in 1 .. n
      BY RankIs
    <3> HIDE DEF B, NB
    <3> QED BY <3>1
  <2> QED BY <2>1, <2>2
<1>2. Negated(a, n) \in [1 .. n -> Int] /\ Negated(b, n) \in [1 .. n -> Int]
  BY NegatedIsInt
<1>3. ASSUME Alike(a, b) PROVE A = B /\ NA = NB
  <2>1. Alike(Negated(a, n), Negated(b, n))
    BY <1>3, NegatedAlike
  <2> QED BY <1>2, <1>3, <2>1, AlikeUpTo
<1>4. ASSUME Alike(a, Negated(b, n)) PROVE A = NB /\ NA = B
  <2>1. Alike(Negated(a, n), b)
    BY <1>2, <1>4, NegatedAlike, NegatedTwice
  <2> QED BY <1>2, <1>4, <2>1, AlikeUpTo
<1> HIDE DEF A, B, NA, NB
<1>5. ASSUME A = NB, NA = B PROVE ranks(a)[i] = 2 * (n + 1) - ranks(b)[i]
  BY <1>1, <1>5
<1> QED BY <1>1, <1>3, <1>4, <1>5

(* Ranks are ordered as the values are.                                    *)
LEMMA MoreUpTo ==
  ASSUME NEW n \in Nat, NEW s \in [1 .. n -> Int], NEW i \in 1 .. n, NEW j \in 1 .. n
  PROVE  /\ s[i] <= s[j] => UpTo(s, n, i) <= UpTo(s, n, j)
         /\ s[i] < s[j] => UpTo(s, n, i) < UpTo(s, n, j)
<1> DEFINE A == AtMostAs(s, n, i)  B == AtMostAs(s, n, j)
<1>1. \A h \in 1 .. n : s[h] \in Int
  OBVIOUS
<1>2. s[i] <= s[j] => A \subseteq B
  BY <1>1 DEF AtMostAs
<1>3. s[i] < s[j] => A \subseteq B /\ j \in B /\ j \notin A
  BY <1>1 DEF AtMostAs
<1>4. IsFiniteSet(B) /\ Cardinality(A) \in Int /\ Cardinality(B) \in Int
  BY AtMostCounted
<1> HIDE DEF A, B
<1>5. A \subseteq B => /\ Cardinality(A) <= Cardinality(B)
                       /\ Cardinality(A) = Cardinality(B) => A = B
  BY <1>4, FS_Subset
<1>6. s[i] < s[j] => Cardinality(A) < Cardinality(B)
  BY <1>3, <1>4, <1>5
<1> QED BY <1>2, <1>5, <1>6 DEF UpTo, A, B

LEMMA RanksAreAlike ==
  ASSUME NEW n \in Nat, NEW s \in [1 .. n -> Int]
  PROVE  Alike(s, ranks(s))
<1> DEFINE z == Negated(s, n)  r == ranks(s)
<1>1. z \in [1 .. n -> Int] /\ \A i \in 1 .. n : z[i] = -s[i]
  BY NegatedIsInt
<1>2. \A i \in 1 .. n : /\ r[i] = (n + 1 - UpTo(z, n, i)) + UpTo(s, n, i)
                        /\ UpTo(z, n, i) \in Int /\ UpTo(s, n, i) \in Int
  BY RankIs
<1> HIDE DEF z, r
<1>3. ASSUME NEW i \in 1 .. n, NEW j \in 1 .. n, s[i] <= s[j]
      PROVE  UpTo(s, n, i) <= UpTo(s, n, j) /\ UpTo(z, n, j) <= UpTo(z, n, i)
  <2>1. z[j] <= z[i]
    <3>1. s[i] \in Int /\ s[j] \in Int
      OBVIOUS
    <3> QED BY <1>1, <1>3, <3>1
  <2>2. UpTo(s, n, i) <= UpTo(s, n, j)
    BY <1>3, MoreUpTo
  <2>3. UpTo(z, n, j) <= UpTo(z, n, i)
    BY <1>1, <2>1, MoreUpTo
  <2> QED BY <2>2, <2>3
<1>4. ASSUME NEW i \in 1 .. n, NEW j \in 1 .. n, s[i] < s[j] PROVE r[i] < r[j]
  <2>1. s[i] <= s[j]
    BY <1>4
  <2>2. UpTo(s, n, i) < UpTo(s, n, j)
    BY <1>4, MoreUpTo
  <2>3. UpTo(z, n, j) <= UpTo(z, n, i)
    BY <1>3, <2>1
  <2> QED BY <1>2, <2>2, <2>3
<1>5. ASSUME NEW i \in 1 .. n, NEW j \in 1 .. n, s[i] <= s[j] PROVE r[i] <= r[j]
  <2>1. UpTo(s, n, i) <= UpTo(s, n, j) /\ UpTo(z, n, j) <= UpTo(z, n, i)
    BY <1>3, <1>5
  <2> QED BY <1>2, <2>1
<1>6. ASSUME NEW i \in 1 .. n, NEW j \in 1 .. n PROVE s[i] < s[j] <=> r[i] < r[j]
  <2>0. s[i] \in Int /\ s[j] \in Int
    OBVIOUS
  <2>1. s[i] < s[j] \/ s[j] <= s[i]
    BY <2>0
  <2>2. r[i] \in Int /\ r[j] \in Int
    BY <1>2
  <2>3. s[j] <= s[i] => ~(s[i] < s[j])
    BY <2>0
  <2>4. CASE s[i] < s[j]
    <3>1. r[i] < r[j]
      BY <1>4, <2>4
    <3> QED BY <2>4, <3>1
  <2>5. CASE s[j] <= s[i]
    <3>1. r[j] <= r[i]
      BY <1>5, <2>5
    <3>2. ~(r[i] < r[j])
      BY <2>2, <3>1
    <3> QED BY <2>3, <2>5, <3>2
  <2> QED BY <2>1, <2>4, <2>5
<1>7. DOMAIN s = 1 .. n
  OBVIOUS
<1> QED BY <1>6, <1>7 DEF Alike, r

LEMMA ConstantSpread ==
  ASSUME NEW n \in Nat \ {0}, NEW a \in [1 .. n -> Int], \A i, j \in 1 .. n : a[i] = a[j]
  PROVE  Spread(a, a) = 0
<1> DEFINE m == a[1]  z == [i \in 1 .. n |-> 0]  S == Spread(a, a)
<1>1. m \in Int /\ \A i \in 1 .. n : a[i] = m
  <2>1. 1 \in 1 .. n
    OBVIOUS
  <2> QED BY <2>1
<1>2. z \in [1 .. n -> Int] /\ Total(a) \in Int /\ S \in Int
  <2>1. z \in [1 .. n -> Int]
    OBVIOUS
  <2>2. Total(a) \in Int
    BY TotalSums
  <2>3. S \in Int
    BY SpreadOf
  <2> QED BY <2>1, <2>2, <2>3
<1> HIDE DEF m
<1>3. Total(a) = n * m
  <2>1. Combines(a, n, 0, a, 0, a, 0, a, m)
    <3>1. \A i \in 1 .. n : a[i] = 0 * a[i] + 0 * a[i] + 0 * a[i] + m
      BY <1>1
    <3> QED BY <1>1, <3>1 DEF Combines
  <2>2. Total(a) = 0 * Total(a) + 0 * Total(a) + 0 * Total(a) + m * n
    BY <2>1, LinearSum
  <2>3. m * n = n * m /\ m * n \in Int
    BY <1>1, ProductIsInt
  <2> QED BY <1>2, <2>2, <2>3
<1>4. Total(z) = 0
  <2> HIDE DEF z
  <2>1. Combines(z, n, 0, z, 0, z, 0, z, 0)
    <3>1. \A i \in 1 .. n : z[i] = 0 * z[i] + 0 * z[i] + 0 * z[i] + 0
      BY <1>2 DEF z
    <3> QED BY <1>2, <3>1 DEF Combines
  <2>2. Total(z) = 0 * Total(z) + 0 * Total(z) + 0 * Total(z) + 0 * n
    BY <2>1, LinearSum
  <2>3. Total(z) \in Int
    BY <1>2, TotalSums
  <2> QED BY <2>2, <2>3
<1>5. \A i \in 1 .. n : z[i] = Deviation(a, n, i) * Deviation(a, n, i)
  <2> SUFFICES ASSUME NEW i \in 1 .. n PROVE 0 = Deviation(a, n, i) * Deviation(a, n, i)
    OBVIOUS
  <2>1. n * m - n * m = 0
    BY <1>1
  <2>2. Deviation(a, n, i) = 0
    BY <1>1, <1>3, <2>1 DEF Deviation
  <2> QED BY <2>2
<1> HIDE DEF z
<1>6. n * S = 0
  <2>1. Deviates(z, n, a, a)
    BY <1>2, <1>5 DEF Deviates
  <2> QED BY <1>4, <2>1, DeviationProducts DEF S
<1>7. S = 0
  <2> HIDE DEF S
  <2> QED BY <1>2, <1>6
<1> QED BY <1>7

LEMMA Cancelled ==
  ASSUME NEW n \in Nat \ {0}, NEW t \in Int, NEW q \in Int, n * t = n * q
  PROVE  t = q
OBVIOUS

(* Opposite ranks are perfectly correlated, as equal ones are.             *)
LEMMA OppositeSpread ==
  ASSUME NEW n \in Nat \ {0}, NEW a \in [1 .. n -> Int], NEW b \in [1 .. n -> Int], NEW m \in Int,
         \A i \in 1 .. n : a[i] = m - b[i]
  PROVE  Spread(a, b) * Spread(a, b) = Spread(a, a) * Spread(b, b)
<1> DEFINE z == [i \in 1 .. n |-> Deviation(b, n, i) * Deviation(b, n, i)]
           w == [i \in 1 .. n |-> Deviation(a, n, i) * Deviation(b, n, i)]
           S == Spread(a, a)  C == Spread(a, b)  D == Spread(b, b)
<1>1. Total(a) = m * n - Total(b) /\ Total(b) \in Int
  <2>1. Total(a) \in Int /\ Total(b) \in Int /\ m * n \in Int
    BY TotalSums, ProductIsInt
  <2>2. Combines(a, n, -1, b, 0, b, 0, b, m)
    <3>1. \A i \in 1 .. n : a[i] = (-1) * b[i] + 0 * b[i] + 0 * b[i] + m
      OBVIOUS
    <3>2. {-1, 0, 0, m} \subseteq Int
      OBVIOUS
    <3> QED BY <3>1, <3>2 DEF Combines
  <2>3. Total(a) = (-1) * Total(b) + 0 * Total(b) + 0 * Total(b) + m * n
    BY <2>2, LinearSum
  <2> QED BY <2>1, <2>3
<1>2. ASSUME NEW i \in 1 .. n
      PROVE  Deviation(a, n, i) = 0 - Deviation(b, n, i) /\ Deviation(b, n, i) \in Int
  <2> DEFINE t == b[i]  B == Total(b)
  <2>1. t \in Int /\ B \in Int /\ a[i] = m - t
    BY <1>1
  <2> HIDE DEF t, B
  <2>2. n * (m - t) - (m * n - B) = 0 - (n * t - B)
    BY <2>1
  <2>3. Deviation(a, n, i) = n * (m - t) - (m * n - B) /\ Deviation(b, n, i) = n * t - B
    BY <1>1, <2>1 DEF Deviation, t, B
  <2> QED BY <2>2, <2>3, DeviationIsInt
<1>3. ASSUME NEW i \in 1 .. n
      PROVE  /\ Deviation(b, n, i) * Deviation(b, n, i) = Deviation(a, n, i) * Deviation(a, n, i)
             /\ Deviation(a, n, i) * Deviation(b, n, i) = 0 - Deviation(b, n, i) * Deviation(b, n, i)
             /\ Deviation(b, n, i) * Deviation(b, n, i) \in Int
  <2> DEFINE u == Deviation(b, n, i)
  <2>1. u \in Int /\ Deviation(a, n, i) = 0 - u
    BY <1>2
  <2> HIDE DEF u
  <2>2. u * u = (0 - u) * (0 - u) /\ (0 - u) * u = 0 - u * u /\ u * u \in Int
    BY <2>1
  <2> QED BY <2>1, <2>2 DEF u
<1>4. z \in [1 .. n -> Int] /\ w \in [1 .. n -> Int] /\ \A i \in 1 .. n : w[i] = (-1) * z[i] + 0 * z[i] + 0 * z[i] + 0
  <2>1. \A i \in 1 .. n : z[i] \in Int /\ w[i] = 0 - z[i]
    BY <1>3
  <2> HIDE DEF z, w
  <2>2. ASSUME NEW i \in 1 .. n PROVE w[i] \in Int /\ w[i] = (-1) * z[i] + 0 * z[i] + 0 * z[i] + 0
    <3> DEFINE k == z[i]
    <3>1. k \in Int /\ w[i] = 0 - k
      BY <2>1
    <3> HIDE DEF k
    <3>2. 0 - k \in Int /\ 0 - k = (-1) * k + 0 * k + 0 * k + 0
      BY <3>1
    <3> QED BY <3>1, <3>2 DEF k
  <2> QED BY <2>1, <2>2 DEF z, w
<1>5. Total(z) = n * D /\ Total(w) = n * C /\ Total(z) = n * S
  <2>1. Total(z) = n * D
    <3>1. Deviates(z, n, b, b)
      BY <1>4 DEF Deviates
    <3> QED BY <3>1, DeviationProducts
  <2>2. Total(w) = n * C
    <3>1. Deviates(w, n, a, b)
      BY <1>4 DEF Deviates
    <3> QED BY <3>1, DeviationProducts
  <2>3. \A i \in 1 .. n : z[i] = Deviation(a, n, i) * Deviation(a, n, i)
    BY <1>3
  <2> HIDE DEF z
  <2>4. Total(z) = n * S
    <3>1. Deviates(z, n, a, a)
      BY <1>4, <2>3 DEF Deviates
    <3> QED BY <3>1, DeviationProducts
  <2> QED BY <2>1, <2>2, <2>4
<1> HIDE DEF z, w
<1>6. Total(w) = 0 - Total(z)
  <2>1. Combines(w, n, -1, z, 0, z, 0, z, 0)
    <3>1. {-1, 0, 0, 0} \subseteq Int
      OBVIOUS
    <3> QED BY <1>4, <3>1 DEF Combines
  <2>2. Total(w) = (-1) * Total(z) + 0 * Total(z) + 0 * Total(z) + 0 * n
    BY <2>1, LinearSum
  <2>3. Total(z) \in Int
    BY <1>4, TotalSums
  <2> QED BY <2>2, <2>3
<1>7. S \in Int /\ C \in Int /\ D \in Int
  BY SpreadOf
<1> HIDE DEF S, C, D
<1>8. S = D
  <2>1. n * D = n * S
    BY <1>5
  <2> QED BY <1>7, <2>1, Cancelled
<1>9. C = 0 - D
  <2>1. n * C = 0 - n * D
    BY <1>5, <1>6
  <2>2. n * (0 - D) = 0 - n * D /\ 0 - D \in Int
    BY <1>7
  <2>3. n * C = n * (0 - D)
    BY <2>1, <2>2
  <2> QED BY <1>7, <2>2, <2>3, Cancelled
<1>10. (0 - D) * (0 - D) = D * D
  BY <1>7
<1> QED BY <1>8, <1>9, <1>10 DEF S, C, D

(* Spearman's correlation is Pearson's of the ranks.                       *)
LEMMA RanksVary ==
  ASSUME NEW n \in Nat \ {0}, NEW a \in [1 .. n -> Int], Spread(a, a) # 0
  PROVE  Spread(ranks(a), ranks(a)) # 0
<1> SUFFICES ASSUME Spread(ranks(a), ranks(a)) = 0 PROVE FALSE
  OBVIOUS
<1> DEFINE r == ranks(a)
<1>1. r \in [1 .. n -> Int]
  BY RanksTyped
<1>2. \A i, j \in 1 .. n : r[i] = r[j]
  BY <1>1, SpreadPositive
<1>3. Alike(a, r)
  BY RanksAreAlike
<1> HIDE DEF r
<1>4. ASSUME NEW i \in 1 .. n, NEW j \in 1 .. n PROVE a[i] = a[j]
  <2>1. r[i] = r[j] /\ r[i] \in Int /\ r[j] \in Int
    BY <1>1, <1>2
  <2>2. (a[i] < a[j] <=> r[i] < r[j]) /\ (a[j] < a[i] <=> r[j] < r[i])
    BY <1>3 DEF Alike
  <2>3. a[i] \in Int /\ a[j] \in Int
    OBVIOUS
  <2> QED BY <2>1, <2>2, <2>3
<1> QED BY <1>4, ConstantSpread

LEMMA RanksPerfect ==
  ASSUME NEW n \in Nat \ {0}, NEW a \in [1 .. n -> Int], NEW b \in [1 .. n -> Int],
         Spread(ranks(a), ranks(a)) # 0, Spread(ranks(b), ranks(b)) # 0
  PROVE  Spread(ranks(a), ranks(b)) * Spread(ranks(a), ranks(b))
           = Spread(ranks(a), ranks(a)) * Spread(ranks(b), ranks(b))
         <=> Alike(a, b) \/ Alike(a, Negated(b, n))
<1> DEFINE r == ranks(a)  q == ranks(b)
<1>1. r \in [1 .. n -> Int] /\ q \in [1 .. n -> Int]
  BY RanksTyped
<1>2. Alike(a, r) /\ Alike(b, q)
  BY RanksAreAlike
<1>3. /\ Alike(a, b) => \A i \in 1 .. n : r[i] = q[i]
      /\ Alike(a, Negated(b, n)) => \A i \in 1 .. n : r[i] = 2 * (n + 1) - q[i]
  BY RanksOfAlike
<1>4. Spread(r, r) # 0 /\ Spread(q, q) # 0
  OBVIOUS
<1> HIDE DEF r, q
<1>5. ASSUME Spread(r, q) * Spread(r, q) = Spread(r, r) * Spread(q, q)
      PROVE  Alike(a, b) \/ Alike(a, Negated(b, n))
  <2>1. Alike(r, q) \/ Alike(r, [i \in 1 .. n |-> -q[i]])
    BY <1>1, <1>4, <1>5, PerfectIsAlike
  <2>2. \A i, j \in 1 .. n : (a[i] < a[j] <=> r[i] < r[j]) /\ (b[i] < b[j] <=> q[i] < q[j])
    BY <1>2 DEF Alike
  <2>3. DOMAIN a = 1 .. n /\ DOMAIN r = 1 .. n
    BY <1>1
  <2>4. CASE Alike(r, q)
    <3>1. \A i, j \in 1 .. n : a[i] < a[j] <=> b[i] < b[j]
      BY <2>2, <2>3, <2>4 DEF Alike
    <3> QED BY <2>3, <3>1 DEF Alike
  <2>5. CASE Alike(r, [i \in 1 .. n |-> -q[i]])
    <3>1. \A i, j \in 1 .. n : r[i] < r[j] <=> -q[i] < -q[j]
      BY <2>3, <2>5 DEF Alike
    <3>2. ASSUME NEW i \in 1 .. n, NEW j \in 1 .. n
          PROVE  (-q[i] < -q[j] <=> q[j] < q[i]) /\ (-b[i] < -b[j] <=> b[j] < b[i])
      <4> DEFINE qi == q[i]  qj == q[j]  bi == b[i]  bj == b[j]
      <4>1. qi \in Int /\ qj \in Int
        BY <1>1
      <4>2. bi \in Int /\ bj \in Int
        OBVIOUS
      <4> HIDE DEF qi, qj, bi, bj
      <4>3. -qi < -qj <=> qj < qi
        BY <4>1
      <4>4. -bi < -bj <=> bj < bi
        BY <4>2
      <4> QED BY <4>3, <4>4 DEF qi, qj, bi, bj
    <3>3. \A i, j \in 1 .. n : a[i] < a[j] <=> -b[i] < -b[j]
      BY <2>2, <3>1, <3>2
    <3>4. \A i, j \in 1 .. n : a[i] < a[j] <=> Negated(b, n)[i] < Negated(b, n)[j]
      BY <3>3 DEF Negated
    <3>5. Alike(a, Negated(b, n))
      BY <2>3, <3>4 DEF Alike
    <3> QED BY <3>5
  <2> QED BY <2>1, <2>4, <2>5
<1>6. ASSUME Alike(a, b) PROVE Spread(r, q) * Spread(r, q) = Spread(r, r) * Spread(q, q)
  <2>1. r = q
    BY <1>1, <1>3, <1>6
  <2> QED BY <2>1
<1>7. ASSUME Alike(a, Negated(b, n)) PROVE Spread(r, q) * Spread(r, q) = Spread(r, r) * Spread(q, q)
  <2> DEFINE m == 2 * (n + 1)
  <2>1. m \in Int /\ \A i \in 1 .. n : r[i] = m - q[i]
    BY <1>3, <1>7
  <2> HIDE DEF m
  <2> QED BY <1>1, <2>1, OppositeSpread
<1> QED BY <1>5, <1>6, <1>7 DEF r, q

(* When a correlation is computed, and what it then is.                    *)
Judged(a, b) ==
  /\ Len(a) = Len(b) /\ ~(Len(a) < 3) /\ check_finite(a) /\ check_finite(b)
  /\ Spread(a, a) # 0 /\ Spread(b, b) # 0

LEMMA PearsonIs ==
  ASSUME NEW a, NEW b
  PROVE  /\ pearson(a, b).error = "" <=> Judged(a, b)
         /\ Judged(a, b) =>
              (Perfect(pearson(a, b)) <=> Spread(a, b) * Spread(a, b) = Spread(a, a) * Spread(b, b))
<1> DEFINE apart == Len(a) # Len(b)  short == Len(a) < 3
           finite == check_finite(a) /\ check_finite(b)
           flat == Spread(a, a) = 0 \/ Spread(b, b) = 0
           found == [error |-> "", sxy |-> Spread(a, b), square |-> Spread(a, a) * Spread(b, b)]
           inner == CASE ~check_finite(a) \/ ~check_finite(b) -> Error("NotFinite")
                      [] check_finite(a) /\ check_finite(b) /\ flat -> Error("ZeroVariance")
                      [] OTHER -> found
<1>1. pearson(a, b) = CASE apart -> Error("LengthMismatch")
                        [] Len(a) = Len(b) /\ short -> Error("TooFewObservations")
                        [] OTHER -> inner
  BY DEF pearson
<1>2. (~check_finite(a) \/ ~check_finite(b) <=> ~finite) /\ (check_finite(a) /\ check_finite(b) /\ flat <=> finite /\ flat)
  OBVIOUS
<1>3. Judged(a, b) <=> ~apart /\ ~short /\ finite /\ ~flat
  BY DEF Judged
<1>4. /\ Error("LengthMismatch").error # "" /\ Error("TooFewObservations").error # ""
      /\ Error("NotFinite").error # "" /\ Error("ZeroVariance").error # ""
  BY DEF Error
<1>5. /\ ~finite => inner = Error("NotFinite")
      /\ finite /\ flat => inner = Error("ZeroVariance")
      /\ finite /\ ~flat => inner = found
  <2> HIDE DEF flat, found
  <2> QED OBVIOUS
<1> HIDE DEF inner
<1>6. /\ apart => pearson(a, b) = Error("LengthMismatch")
      /\ ~apart /\ short => pearson(a, b) = Error("TooFewObservations")
      /\ ~apart /\ ~short => pearson(a, b) = inner
  <2> HIDE DEF short
  <2> QED BY <1>1
<1>7. Judged(a, b) => pearson(a, b) = found
  BY <1>3, <1>5, <1>6
<1>8. ~Judged(a, b) => pearson(a, b).error # ""
  <2> HIDE DEF apart, short, finite, flat, found
  <2>1. CASE apart
    BY <1>4, <1>6, <2>1
  <2>2. CASE ~apart /\ short
    BY <1>4, <1>6, <2>2
  <2>3. CASE ~apart /\ ~short /\ ~finite
    BY <1>4, <1>5, <1>6, <2>3
  <2>4. CASE ~apart /\ ~short /\ finite /\ flat
    BY <1>4, <1>5, <1>6, <2>4
  <2> QED BY <1>3, <2>1, <2>2, <2>3, <2>4
<1>9. found.error = "" /\ found.sxy = Spread(a, b) /\ found.square = Spread(a, a) * Spread(b, b)
  OBVIOUS
<1> HIDE DEF found
<1>10. Judged(a, b) => pearson(a, b).error = ""
  BY <1>7, <1>9
<1>11. Perfect(found) <=> Spread(a, b) * Spread(a, b) = Spread(a, a) * Spread(b, b)
  BY <1>9 DEF Perfect
<1>12. Judged(a, b) => (Perfect(pearson(a, b)) <=> Spread(a, b) * Spread(a, b) = Spread(a, a) * Spread(b, b))
  BY <1>7, <1>11
<1> QED BY <1>8, <1>10, <1>12

LEMMA SpearmanIs ==
  ASSUME NEW a, NEW b
  PROVE  /\ spearman(a, b).error = "" => Len(a) = Len(b) /\ check_finite(a) /\ check_finite(b)
         /\ Len(a) = Len(b) /\ check_finite(a) /\ check_finite(b) =>
              spearman(a, b) = pearson(ranks(a), ranks(b))
<1> DEFINE apart == Len(a) # Len(b)  finite == check_finite(a) /\ check_finite(b)
           found == pearson(ranks(a), ranks(b))
<1>1. spearman(a, b) = CASE apart -> Error("LengthMismatch")
                         [] Len(a) = Len(b) /\ ~finite -> Error("NotFinite")
                         [] OTHER -> found
  BY DEF spearman
<1> HIDE DEF found, finite
<1>2. /\ apart => spearman(a, b) = Error("LengthMismatch")
      /\ ~apart /\ ~finite => spearman(a, b) = Error("NotFinite")
      /\ ~apart /\ finite => spearman(a, b) = found
  BY <1>1
<1>3. Error("LengthMismatch").error # "" /\ Error("NotFinite").error # ""
  BY DEF Error
<1>4. spearman(a, b).error = "" => ~apart /\ finite
  BY <1>2, <1>3
<1> QED BY <1>2, <1>4 DEF finite, found

LEMMA FiniteIsInt ==
  ASSUME NEW s \in Seq(Observations \cup {NotFinite}), check_finite(s)
  PROVE  s \in [1 .. Len(s) -> Int] /\ Len(s) \in Nat
<1>1. Observations \subseteq Int
  BY StatisticsAssumption
<1>2. s \in [1 .. Len(s) -> Observations \cup {NotFinite}] /\ Len(s) \in Nat
  OBVIOUS
<1>3. \A i \in 1 .. Len(s) : s[i] \in Int
  BY <1>1, <1>2 DEF check_finite
<1> QED BY <1>2, <1>3

(* The rank correlation of a series is perfect exactly for the monotone    *)
(* relations, rising or falling, ties included, and is whenever Pearson's  *)
(* is, for series of any length (regression.rs 101-190).                   *)
THEOREM PerfectionIsMonotone == SeriesSpec => []PerfectIsMonotone
<1>1. SeriesInit => SeriesTyped
  BY EmptySeq DEF SeriesInit, SeriesTyped
<1>2. SeriesTyped /\ [SeriesNext]_series => SeriesTyped'
  BY SeriesStep
<1>3. ASSUME SeriesTyped PROVE PerfectIsMonotone
  <2> DEFINE n == Len(x)  r == ranks(x)  q == ranks(y)
             c == spearman(x, y)  opposite == [i \in DOMAIN y |-> -y[i]]
             Straight(a, b) == Spread(a, b) * Spread(a, b) = Spread(a, a) * Spread(b, b)
  <2>1. ASSUME Len(x) = Len(y), check_finite(x), check_finite(y)
        PROVE  /\ n \in Nat /\ x \in [1 .. n -> Int] /\ y \in [1 .. n -> Int]
               /\ r \in [1 .. n -> Int] /\ q \in [1 .. n -> Int] /\ Len(r) = n /\ Len(q) = n
               /\ check_finite(r) /\ check_finite(q) /\ opposite = Negated(y, n)
    <3>1. n \in Nat /\ x \in [1 .. n -> Int] /\ y \in [1 .. n -> Int]
      BY <1>3, <2>1, FiniteIsInt DEF SeriesTyped
    <3> HIDE DEF n
    <3>2. r \in [1 .. n -> Int] /\ q \in [1 .. n -> Int] /\ Len(r) = n /\ Len(q) = n
      BY <3>1, RanksTyped
    <3>3. NotFinite \notin Int
      BY StatisticsAssumption
    <3>4. check_finite(r) /\ check_finite(q)
      BY <3>2, <3>3 DEF check_finite
    <3>5. opposite = Negated(y, n)
      BY <3>1 DEF Negated
    <3> QED BY <3>1, <3>2, <3>4, <3>5
  <2>2. ASSUME c.error = "" PROVE Perfect(c) <=> Alike(x, y) \/ Alike(x, opposite)
    <3>1. Len(x) = Len(y) /\ check_finite(x) /\ check_finite(y) /\ c = pearson(r, q)
      BY <2>2, SpearmanIs
    <3>2. Judged(r, q) /\ (Perfect(c) <=> Straight(r, q))
      BY <2>2, <3>1, PearsonIs
    <3>3. /\ n \in Nat \ {0} /\ x \in [1 .. n -> Int] /\ y \in [1 .. n -> Int]
          /\ opposite = Negated(y, n)
      BY <2>1, <3>1, <3>2 DEF Judged
    <3>4. Spread(r, r) # 0 /\ Spread(q, q) # 0
      BY <3>2 DEF Judged
    <3> HIDE DEF n, opposite, c
    <3>5. Straight(r, q) <=> Alike(x, y) \/ Alike(x, Negated(y, n))
      BY <3>3, <3>4, RanksPerfect
    <3> QED BY <3>2, <3>3, <3>5
  <2>3. ASSUME Perfect(pearson(x, y)) PROVE Perfect(c)
    <3>1. Judged(x, y) /\ Straight(x, y)
      <4>1. pearson(x, y).error = ""
        BY <2>3 DEF Perfect
      <4>2. Judged(x, y)
        BY <4>1, PearsonIs
      <4> QED BY <2>3, <4>2, PearsonIs
    <3>2. Len(x) = Len(y) /\ check_finite(x) /\ check_finite(y) /\ ~(n < 3) /\ Spread(x, x) # 0 /\ Spread(y, y) # 0
      BY <3>1 DEF Judged
    <3>3. c = pearson(r, q)
      BY <3>2, SpearmanIs
    <3>4. /\ n \in Nat \ {0} /\ x \in [1 .. n -> Int] /\ y \in [1 .. n -> Int]
          /\ Len(r) = n /\ Len(q) = n /\ check_finite(r) /\ check_finite(q)
      BY <2>1, <3>2
    <3> HIDE DEF n, r, q, c
    <3>5. Spread(r, r) # 0 /\ Spread(q, q) # 0
      BY <3>2, <3>4, RanksVary DEF r, q
    <3>6. Judged(r, q)
      BY <3>2, <3>4, <3>5 DEF Judged
    <3>7. Alike(x, y) \/ Alike(x, Negated(y, n))
      BY <3>1, <3>2, <3>4, PerfectIsAlike DEF Negated
    <3>8. Straight(r, q)
      BY <3>4, <3>5, <3>7, RanksPerfect DEF r, q
    <3> QED BY <3>3, <3>6, <3>8, PearsonIs
  <2> QED BY <2>2, <2>3 DEF PerfectIsMonotone
<1> QED BY <1>1, <1>2, <1>3, PTL DEF SeriesSpec

LEMMA ScaledTotal ==
  ASSUME NEW n \in Nat, NEW k \in Int, NEW f \in [1 .. n -> Int], NEW s \in [1 .. n -> Int],
         \A i \in 1 .. n : s[i] = k * f[i]
  PROVE  Total(s) = k * Total(f)
<1>1. Combines(s, n, k, f, 0, f, 0, f, 0)
  <2>1. \A i \in 1 .. n : s[i] = k * f[i] + 0 * f[i] + 0 * f[i] + 0
    OBVIOUS
  <2> QED BY <2>1 DEF Combines
<1>2. Total(s) = k * Total(f) + 0 * Total(f) + 0 * Total(f) + 0 * n
  BY <1>1, LinearSum
<1>3. Total(f) \in Int /\ k * Total(f) \in Int
  BY TotalSums, ProductIsInt
<1> QED BY <1>2, <1>3

(* Two series lie on a straight line exactly when their correlation is     *)
(* perfect: the converse of Collinear.                                     *)
LEMMA StraightIsPerfect ==
  ASSUME NEW n \in Nat \ {0}, NEW a \in [1 .. n -> Int], NEW b \in [1 .. n -> Int],
         Spread(a, a) # 0, StraightLine(a, b)
  PROVE  Spread(a, b) * Spread(a, b) = Spread(a, a) * Spread(b, b)
<1> DEFINE S == Spread(a, a)  C == Spread(a, b)  D == Spread(b, b)  A == Total(a)  B == Total(b)
<1>1. PICK j \in 1 .. n, k \in 1 .. n : a[k] < a[j]
  <2>1. PICK i \in 1 .. n, l \in 1 .. n : a[i] # a[l]
    BY ConstantSpread
  <2>2. a[i] \in Int /\ a[l] \in Int
    OBVIOUS
  <2> DEFINE ai == a[i]  al == a[l]
  <2>3. ai \in Int /\ al \in Int /\ ai # al
    BY <2>1, <2>2
  <2> HIDE DEF ai, al
  <2>4. ai < al \/ al < ai
    BY <2>3
  <2> QED BY <2>4 DEF ai, al
<1> DEFINE P == a[j] - a[k]  Q1 == b[j] - b[k]  R == P * b[j] - Q1 * a[j]
<1>2. P \in Nat \ {0} /\ Q1 \in Int /\ R \in Int /\ A \in Int /\ B \in Int /\ S \in Int /\ C \in Int /\ D \in Int
  <2>1. a[j] \in Int /\ a[k] \in Int /\ b[j] \in Int /\ b[k] \in Int
    OBVIOUS
  <2>2. P \in Nat \ {0} /\ Q1 \in Int
    <3> DEFINE aj == a[j]  ak == a[k]  bj == b[j]  bk == b[k]
    <3>1. aj \in Int /\ ak \in Int /\ bj \in Int /\ bk \in Int /\ ak < aj
      BY <1>1, <2>1
    <3> HIDE DEF aj, ak, bj, bk
    <3>2. aj - ak \in Nat \ {0} /\ bj - bk \in Int
      BY <3>1
    <3> QED BY <3>2 DEF aj, ak, bj, bk
  <2>3. R \in Int
    <3> HIDE DEF P, Q1
    <3>1. P * b[j] \in Int /\ Q1 * a[j] \in Int
      BY <2>1, <2>2, ProductIsInt
    <3> QED BY <3>1
  <2> QED BY <2>2, <2>3, TotalSums, SpreadOf
<1>3. ASSUME NEW i \in 1 .. n PROVE P * b[i] = Q1 * a[i] + R
  <2>1. P * (b[j] - b[i]) = (a[j] - a[i]) * Q1
    BY DEF StraightLine
  <2> DEFINE ai == a[i]  bi == b[i]  aj == a[j]  bj == b[j]
  <2>2. ai \in Int /\ bi \in Int /\ aj \in Int /\ bj \in Int /\ P * (bj - bi) = (aj - ai) * Q1 /\ R = P * bj - Q1 * aj
    BY <2>1
  <2> HIDE DEF ai, bi, aj, bj, P, Q1, R
  <2>3. P * (bj - bi) = P * bj - P * bi /\ (aj - ai) * Q1 = Q1 * aj - Q1 * ai
    BY <1>2, <2>2
  <2> DEFINE pj == P * bj  pi == P * bi  qj == Q1 * aj  qi == Q1 * ai
  <2>4. pj \in Int /\ pi \in Int /\ qj \in Int /\ qi \in Int
    BY <1>2, <2>2, ProductIsInt
  <2>5. pj - pi = qj - qi /\ R = pj - qj
    BY <2>2, <2>3
  <2> HIDE DEF pj, pi, qj, qi
  <2>6. pi = qi + R
    BY <2>4, <2>5
  <2> QED BY <2>6 DEF pi, qi, ai, bi
<1> HIDE DEF P, Q1, R, A, B, S, C, D
<1>4. P * B = Q1 * A + R * n
  <2> DEFINE f == [i \in 1 .. n |-> P * b[i]]
  <2>1. f \in [1 .. n -> Int] /\ \A i \in 1 .. n : f[i] = P * b[i] /\ P * b[i] \in Int
    <3>1. \A i \in 1 .. n : P * b[i] \in Int
      BY <1>2
    <3> QED BY <3>1
  <2> HIDE DEF f
  <2>2. Total(f) = P * B
    <3>1. n \in Nat /\ P \in Int
      BY <1>2
    <3>2. f \in [1 .. n -> Int]
      BY <2>1
    <3>3. \A i \in 1 .. n : f[i] = P * b[i]
      BY <2>1
    <3>4. Total(f) = P * Total(b)
      BY <3>1, <3>2, <3>3, ScaledTotal
    <3> QED BY <3>4 DEF B
  <2>3. Combines(f, n, Q1, a, 0, a, 0, a, R)
    <3>1. \A i \in 1 .. n : f[i] = Q1 * a[i] + 0 * a[i] + 0 * a[i] + R
      <4> SUFFICES ASSUME NEW i \in 1 .. n PROVE f[i] = Q1 * a[i] + 0 * a[i] + 0 * a[i] + R
        OBVIOUS
      <4> DEFINE e == Q1 * a[i]
      <4>1. e \in Int /\ a[i] \in Int
        BY <1>2, ProductIsInt
      <4>2. f[i] = e + R
        BY <1>3, <2>1
      <4> HIDE DEF e
      <4>3. f[i] = e + 0 * a[i] + 0 * a[i] + R
        BY <1>2, <4>1, <4>2
      <4> QED BY <4>3 DEF e
    <3>2. {Q1, 0, 0, R} \subseteq Int
      BY <1>2
    <3> QED BY <2>1, <3>1, <3>2 DEF Combines
  <2>4. Total(f) = Q1 * A + 0 * A + 0 * A + R * n
    BY <2>3, LinearSum DEF A
  <2>5. Q1 * A \in Int /\ R * n \in Int
    BY <1>2, ProductIsInt
  <2> QED BY <1>2, <2>2, <2>4, <2>5
<1>5. ASSUME NEW i \in 1 .. n
      PROVE  /\ Deviation(a, n, i) \in Int /\ Deviation(b, n, i) \in Int
             /\ P * Deviation(b, n, i) = Q1 * Deviation(a, n, i)
  <2>1. Deviation(a, n, i) \in Int /\ Deviation(b, n, i) \in Int
    BY DeviationIsInt
  <2> DEFINE ai == a[i]  bi == b[i]
  <2>2. ai \in Int /\ bi \in Int /\ P * bi = Q1 * ai + R
    BY <1>3
  <2>3. Deviation(a, n, i) = n * ai - A /\ Deviation(b, n, i) = n * bi - B
    BY DEF Deviation, A, B
  <2> HIDE DEF ai, bi
  <2>4. P * (n * bi - B) = n * (P * bi) - P * B
    BY <1>2, <2>2
  <2>5. n * (Q1 * ai + R) = Q1 * (n * ai) + R * n /\ Q1 * (n * ai - A) = Q1 * (n * ai) - Q1 * A
    BY <1>2, <2>2
  <2> DEFINE g == Q1 * (n * ai)  h == Q1 * A  m == R * n
  <2>6. g \in Int /\ h \in Int /\ m \in Int
    BY <1>2, <2>2, ProductIsInt
  <2>7. P * (n * bi - B) = (g + m) - (h + m) /\ Q1 * (n * ai - A) = g - h
    BY <1>4, <2>2, <2>4, <2>5
  <2> HIDE DEF g, h, m
  <2>8. P * (n * bi - B) = Q1 * (n * ai - A)
    BY <2>6, <2>7
  <2> QED BY <2>1, <2>3, <2>8
<1> DEFINE u(i) == Deviation(a, n, i)  v(i) == Deviation(b, n, i)
           uu == [i \in 1 .. n |-> u(i) * u(i)]
           uv == [i \in 1 .. n |-> u(i) * v(i)]
           vv == [i \in 1 .. n |-> v(i) * v(i)]
<1>6. /\ uu \in [1 .. n -> Int] /\ uv \in [1 .. n -> Int] /\ vv \in [1 .. n -> Int]
      /\ \A i \in 1 .. n : uu[i] = u(i) * u(i) /\ uv[i] = u(i) * v(i) /\ vv[i] = v(i) * v(i)
  <2>1. ASSUME NEW i \in 1 .. n PROVE u(i) * u(i) \in Int /\ u(i) * v(i) \in Int /\ v(i) * v(i) \in Int
    <3>1. u(i) \in Int /\ v(i) \in Int
      BY <1>5
    <3> HIDE DEF u, v
    <3> QED BY <3>1, ProductIsInt
  <2> HIDE DEF u, v
  <2> QED BY <2>1
<1> HIDE DEF uu, uv, vv
<1>7. Total(uu) = n * S /\ Total(uv) = n * C /\ Total(vv) = n * D
  <2>1. Total(uu) = n * S
    <3>1. Deviates(uu, n, a, a)
      BY <1>6 DEF Deviates
    <3> QED BY <3>1, DeviationProducts DEF S
  <2>2. Total(uv) = n * C
    <3>1. Deviates(uv, n, a, b)
      BY <1>6 DEF Deviates
    <3> QED BY <3>1, DeviationProducts DEF C
  <2>3. Total(vv) = n * D
    <3>1. Deviates(vv, n, b, b)
      BY <1>6 DEF Deviates
    <3> QED BY <3>1, DeviationProducts DEF D
  <2> QED BY <2>1, <2>2, <2>3
<1>8. \A i \in 1 .. n : P * uv[i] = Q1 * uu[i] /\ P * vv[i] = Q1 * uv[i]
  <2> SUFFICES ASSUME NEW i \in 1 .. n PROVE P * uv[i] = Q1 * uu[i] /\ P * vv[i] = Q1 * uv[i]
    OBVIOUS
  <2> DEFINE e == u(i)  g == v(i)
  <2>1. e \in Int /\ g \in Int /\ P * g = Q1 * e /\ uu[i] = e * e /\ uv[i] = e * g /\ vv[i] = g * g
    BY <1>5, <1>6
  <2> HIDE DEF e, g
  <2>2. P * (e * g) = (P * g) * e /\ (Q1 * e) * e = Q1 * (e * e) /\ P * (g * g) = (P * g) * g /\ (Q1 * e) * g = Q1 * (e * g)
    BY <1>2, <2>1
  <2> QED BY <2>1, <2>2
<1> HIDE DEF u, v
<1>9. P * Total(uv) = Q1 * Total(uu) /\ P * Total(vv) = Q1 * Total(uv)
  <2> DEFINE f == [i \in 1 .. n |-> P * uv[i]]  g == [i \in 1 .. n |-> P * vv[i]]
  <2>1. ASSUME NEW i \in 1 .. n PROVE P * uv[i] \in Int /\ P * vv[i] \in Int
    <3>1. uv[i] \in Int /\ vv[i] \in Int /\ P \in Int
      BY <1>2, <1>6
    <3> QED BY <3>1, ProductIsInt
  <2>2. f \in [1 .. n -> Int]
    BY <2>1
  <2>15. g \in [1 .. n -> Int]
    BY <2>1
  <2>3. \A i \in 1 .. n : f[i] = P * uv[i]
    OBVIOUS
  <2>4. \A i \in 1 .. n : g[i] = P * vv[i]
    OBVIOUS
  <2> HIDE DEF f, g
  <2>5. \A i \in 1 .. n : f[i] = Q1 * uu[i]
    BY <1>8, <2>3
  <2>6. \A i \in 1 .. n : g[i] = Q1 * uv[i]
    BY <1>8, <2>4
  <2>11. n \in Nat
    OBVIOUS
  <2>16. P \in Int
    BY <1>2
  <2>17. Q1 \in Int
    BY <1>2
  <2>12. uu \in [1 .. n -> Int]
    BY <1>6
  <2>13. uv \in [1 .. n -> Int]
    BY <1>6
  <2>14. vv \in [1 .. n -> Int]
    BY <1>6
  <2>7. Total(f) = P * Total(uv)
    BY <2>2, <2>3, <2>11, <2>13, <2>16, ScaledTotal
  <2>8. Total(f) = Q1 * Total(uu)
    BY <2>2, <2>5, <2>11, <2>12, <2>17, ScaledTotal
  <2>9. Total(g) = P * Total(vv)
    BY <2>4, <2>11, <2>14, <2>15, <2>16, ScaledTotal
  <2>10. Total(g) = Q1 * Total(uv)
    BY <2>6, <2>11, <2>13, <2>15, <2>17, ScaledTotal
  <2> QED BY <2>7, <2>8, <2>9, <2>10
<1>10. P * C = Q1 * S /\ P * D = Q1 * C
  <2>1. P * C \in Int /\ Q1 * S \in Int /\ P * D \in Int /\ Q1 * C \in Int
    BY <1>2, ProductIsInt
  <2>2. n * (P * C) = P * (n * C) /\ n * (Q1 * S) = Q1 * (n * S) /\ n * (P * D) = P * (n * D) /\ n * (Q1 * C) = Q1 * (n * C)
    BY <1>2
  <2>3. n * (P * C) = n * (Q1 * S) /\ n * (P * D) = n * (Q1 * C)
    BY <1>7, <1>9, <2>2
  <2> QED BY <2>1, <2>3, Cancelled
<1>11. P * (C * C) = P * (S * D)
  <2>1. P * (C * C) = (P * C) * C /\ (Q1 * S) * C = S * (Q1 * C) /\ S * (P * D) = P * (S * D)
    BY <1>2
  <2> QED BY <1>10, <2>1
<1>12. C * C \in Int /\ S * D \in Int
  BY <1>2, ProductIsInt
<1>13. C * C = S * D
  BY <1>2, <1>11, <1>12, Cancelled
<1> QED BY <1>13 DEF S, C, D

LEMMA PerfectIsStraight ==
  ASSUME NEW n \in Nat \ {0}, NEW a \in [1 .. n -> Int], NEW b \in [1 .. n -> Int], Spread(a, a) # 0,
         Spread(a, b) * Spread(a, b) = Spread(a, a) * Spread(b, b)
  PROVE  StraightLine(a, b)
<1> DEFINE S == Spread(a, a)  C == Spread(a, b)
<1>1. S \in Nat \ {0} /\ C \in Int
  BY SpreadPositive, SpreadOf
<1>2. \A i, j \in 1 .. n : S * (b[i] - b[j]) = C * (a[i] - a[j])
  BY Collinear
<1> HIDE DEF S, C
<1>3. ASSUME NEW i \in 1 .. n, NEW j \in 1 .. n, NEW k \in 1 .. n
      PROVE  (a[i] - a[j]) * (b[i] - b[k]) = (a[i] - a[k]) * (b[i] - b[j])
  <2> DEFINE d == a[i] - a[j]  e == a[i] - a[k]  f == b[i] - b[j]  g == b[i] - b[k]
  <2>1. d \in Int /\ e \in Int /\ f \in Int /\ g \in Int
    <3>1. a[i] \in Int /\ a[j] \in Int /\ a[k] \in Int /\ b[i] \in Int /\ b[j] \in Int /\ b[k] \in Int
      OBVIOUS
    <3>2. d \in Int /\ e \in Int
      BY <3>1
    <3>3. f \in Int /\ g \in Int
      BY <3>1
    <3> QED BY <3>2, <3>3
  <2>2. S * f = C * d /\ S * g = C * e
    <3>1. S * f = C * d
      BY <1>2
    <3>2. S * g = C * e
      BY <1>2
    <3> QED BY <3>1, <3>2
  <2> HIDE DEF d, e, f, g
  <2>3. S * (d * g) = d * (S * g) /\ S * (e * f) = e * (S * f) /\ d * (C * e) = e * (C * d)
    BY <1>1, <2>1
  <2>4. d * g \in Int /\ e * f \in Int
    BY <2>1, ProductIsInt
  <2>5. S * (d * g) = S * (e * f)
    BY <2>2, <2>3
  <2>6. d * g = e * f
    <3> DEFINE dg == d * g  ef == e * f
    <3>1. dg \in Int /\ ef \in Int /\ S * dg = S * ef
      BY <2>4, <2>5
    <3> HIDE DEF dg, ef
    <3>2. dg = ef
      BY <1>1, <3>1, Cancelled
    <3> QED BY <3>2 DEF dg, ef
  <2> QED BY <2>6 DEF d, e, f, g
<1>4. DOMAIN a = 1 .. n
  OBVIOUS
<1> QED BY <1>3, <1>4 DEF StraightLine

(* Pearson's correlation of two series is perfect exactly when they lie on *)
(* one straight line, for series of any length (regression.rs 101-148).    *)
THEOREM PerfectionIsLinear == SeriesSpec => []PerfectIsLinear
<1>1. SeriesInit => SeriesTyped
  BY EmptySeq DEF SeriesInit, SeriesTyped
<1>2. SeriesTyped /\ [SeriesNext]_series => SeriesTyped'
  BY SeriesStep
<1>3. ASSUME SeriesTyped PROVE PerfectIsLinear
  <2> DEFINE c == pearson(x, y)  n == Len(x)
  <2>1. ASSUME c.error = "" PROVE Perfect(c) <=> StraightLine(x, y)
    <3>1. Judged(x, y)
      BY <2>1, PearsonIs
    <3>2. Perfect(c) <=> Spread(x, y) * Spread(x, y) = Spread(x, x) * Spread(y, y)
      BY <3>1, PearsonIs
    <3>3. /\ n \in Nat \ {0} /\ x \in [1 .. n -> Int] /\ y \in [1 .. n -> Int]
          /\ Spread(x, x) # 0
      <4>1. Len(x) = Len(y) /\ check_finite(x) /\ check_finite(y) /\ ~(n < 3) /\ Spread(x, x) # 0
        BY <3>1 DEF Judged
      <4>2. n \in Nat /\ x \in [1 .. n -> Int] /\ y \in [1 .. n -> Int]
        BY <1>3, <4>1, FiniteIsInt DEF SeriesTyped
      <4> QED BY <4>1, <4>2
    <3> HIDE DEF c, n
    <3> QED BY <3>2, <3>3, StraightIsPerfect, PerfectIsStraight
  <2> QED BY <2>1 DEF PerfectIsLinear
<1> QED BY <1>1, <1>2, <1>3, PTL DEF SeriesSpec

---------------------------------------------------------------------------
(* The exact quotients of the fit.  Is(q, n, d) says what a quotient       *)
(* stands for; the elimination of both columns is followed symbolically.   *)

(* Euclid's algorithm: what the recursive function stands for at b follows *)
(* from its values below b, so that it exists, and is what it says.        *)
Euclid(f, b) == [a \in Nat |-> IF b = 0 THEN a ELSE f[a % b][b]]
Euclidean(f, m) == \A b \in 0 .. m : f[b] = Euclid(f, b)

LEMMA EuclidFromBelow ==
  ASSUME NEW b \in Nat, NEW f, NEW g, \A c \in Nat : c < b => f[c] = g[c]
  PROVE  Euclid(f, b) = Euclid(g, b)
<1>1. CASE b = 0
  BY <1>1 DEF Euclid
<1>2. CASE b # 0
  <2>1. \A a \in Nat : a % b \in Nat /\ a % b < b
    BY <1>2
  <2>2. \A a \in Nat : f[a % b][b] = g[a % b][b]
    BY <2>1
  <2> QED BY <1>2, <2>2 DEF Euclid
<1> QED BY <1>1, <1>2

LEMMA EuclidAgrees ==
  ASSUME NEW m \in Nat, NEW k \in Nat, NEW f, NEW g, Euclidean(f, m), Euclidean(g, k)
  PROVE  \A b \in Nat : b <= m /\ b <= k => f[b] = g[b]
<1> DEFINE S == {n \in Nat : \A b \in Nat : b <= n /\ b <= m /\ b <= k => f[b] = g[b]}
<1>1. ASSUME NEW b \in Nat, b <= m, b <= k, \A c \in Nat : c < b => f[c] = g[c] PROVE f[b] = g[b]
  <2>1. b \in 0 .. m /\ b \in 0 .. k
    BY <1>1
  <2>2. f[b] = Euclid(f, b) /\ g[b] = Euclid(g, b)
    BY <2>1 DEF Euclidean
  <2> QED BY <1>1, <2>2, EuclidFromBelow
<1>2. 0 \in S
  <2> SUFFICES ASSUME NEW b \in Nat, b <= 0, b <= m, b <= k PROVE f[b] = g[b]
    OBVIOUS
  <2>1. \A c \in Nat : ~(c < b)
    OBVIOUS
  <2> QED BY <1>1, <2>1
<1>3. ASSUME NEW n \in Nat, n \in S PROVE n + 1 \in S
  <2> SUFFICES ASSUME NEW b \in Nat, b <= n + 1, b <= m, b <= k PROVE f[b] = g[b]
    OBVIOUS
  <2>1. \A c \in Nat : c < b => c <= n /\ c <= m /\ c <= k
    OBVIOUS
  <2>2. \A c \in Nat : c < b => f[c] = g[c]
    BY <1>3, <2>1
  <2> QED BY <1>1, <2>2
<1>4. Nat \subseteq S
  <2> HIDE DEF S
  <2> QED BY <1>2, <1>3, SetInduction
<1> QED
  <2> SUFFICES ASSUME NEW b \in Nat, b <= m, b <= k PROVE f[b] = g[b]
    OBVIOUS
  <2>1. b \in S
    BY <1>4
  <2> QED BY <2>1

LEMMA EuclidExists ==
  \A m \in Nat : \E f : Euclidean(f, m)
<1> DEFINE S == {m \in Nat : \E f : Euclidean(f, m)}
<1>1. 0 \in S
  <2> DEFINE f == [b \in 0 .. 0 |-> [a \in Nat |-> a]]
  <2>1. \A b \in 0 .. 0 : b = 0
    OBVIOUS
  <2>2. Euclid(f, 0) = [a \in Nat |-> a] /\ f[0] = [a \in Nat |-> a]
    BY DEF Euclid
  <2>3. Euclidean(f, 0)
    BY <2>1, <2>2 DEF Euclidean
  <2> HIDE DEF f
  <2> QED BY <2>3
<1>2. ASSUME NEW m \in Nat, m \in S PROVE m + 1 \in S
  <2>1. PICK g : Euclidean(g, m)
    BY <1>2
  <2> DEFINE f == [b \in 0 .. m + 1 |-> IF b = m + 1 THEN Euclid(g, m + 1) ELSE g[b]]
  <2>2. \A c \in Nat : c < m + 1 => c \in 0 .. m + 1 /\ c # m + 1 /\ c \in 0 .. m
    OBVIOUS
  <2>3. \A c \in Nat : c < m + 1 => f[c] = g[c]
    BY <2>2
  <2>4. m + 1 \in 0 .. m + 1 /\ f[m + 1] = Euclid(g, m + 1)
    OBVIOUS
  <2> HIDE DEF f
  <2>5. ASSUME NEW b \in 0 .. m + 1 PROVE f[b] = Euclid(f, b)
    <3>0. \A c \in Nat : c < b => c < m + 1
      OBVIOUS
    <3>1. Euclid(f, b) = Euclid(g, b)
      <4>1. b \in Nat /\ \A c \in Nat : c < b => f[c] = g[c]
        BY <2>3, <3>0
      <4> QED BY <4>1, EuclidFromBelow
    <3>2. CASE b = m + 1
      BY <2>4, <3>1, <3>2
    <3>3. CASE b # m + 1
      <4>1. b < m + 1 /\ b \in Nat /\ b \in 0 .. m
        BY <3>3
      <4>2. g[b] = Euclid(g, b)
        BY <2>1, <4>1 DEF Euclidean
      <4> QED BY <2>3, <3>1, <4>1, <4>2
    <3> QED BY <3>2, <3>3
  <2>6. Euclidean(f, m + 1)
    BY <2>5 DEF Euclidean
  <2> QED BY <2>6
<1> HIDE DEF S
<1>3. Nat \subseteq S
  BY <1>1, <1>2, SetInduction
<1> QED BY <1>3 DEF S

LEMMA DivisorIsEuclid ==
  \A b \in Nat : Divisor[b] = Euclid(Divisor, b)
<1> DEFINE least(b) == CHOOSE f : Euclidean(f, b)
           d == [b \in Nat |-> least(b)[b]]
<1>1. \A b \in Nat : Euclidean(least(b), b)
  BY EuclidExists
<1>2. ASSUME NEW b \in Nat PROVE d[b] = Euclid(d, b)
  <2>1. \A c \in Nat : c < b => d[c] = least(b)[c]
    <3> SUFFICES ASSUME NEW c \in Nat, c < b PROVE least(c)[c] = least(b)[c]
      OBVIOUS
    <3> HIDE DEF least
    <3>1. c <= c /\ c <= b
      OBVIOUS
    <3> QED BY <1>1, <3>1, EuclidAgrees
  <2> DEFINE g == least(b)
  <2>2. Euclidean(g, b)
    BY <1>1
  <2>3. d[b] = g[b]
    OBVIOUS
  <2> HIDE DEF d, least, g
  <2>4. \A c \in Nat : c < b => d[c] = g[c]
    BY <2>1 DEF g
  <2>5. g[b] = Euclid(g, b)
    <3>1. b \in 0 .. b
      OBVIOUS
    <3> QED BY <2>2, <3>1 DEF Euclidean
  <2> QED BY <2>3, <2>4, <2>5, EuclidFromBelow
<1>3. d = [b \in Nat |-> Euclid(d, b)]
  <2>1. d = [b \in Nat |-> d[b]]
    OBVIOUS
  <2> HIDE DEF d
  <2> QED BY <1>2, <2>1
<1> HIDE DEF d
<1>4. \E f : f = [b \in Nat |-> Euclid(f, b)]
  BY <1>3
<1>5. Divisor = [b \in Nat |-> Euclid(Divisor, b)]
  BY <1>4 DEF Divisor, Euclid
<1> QED BY <1>5

(* The divisor of two numbers divides both.                                *)
Divides(g, a) == \E k \in Int : a = k * g

LEMMA DivisorDivides ==
  ASSUME NEW a \in Nat, NEW b \in Nat \ {0}
  PROVE  LET g == Divisor[b][a] IN g \in Nat \ {0} /\ Divides(g, a) /\ Divides(g, b)
<1> DEFINE Right(n, c) == LET g == Divisor[c][n] IN g \in Nat \ {0} /\ Divides(g, n) /\ Divides(g, c)
           S == {m \in Nat : \A c \in Nat : c <= m /\ c # 0 => \A n \in Nat : Right(n, c)}
<1>1. 0 \in S
  OBVIOUS
<1>2. \A n \in Nat : Divisor[0][n] = n
  <2>1. Divisor[0] = Euclid(Divisor, 0)
    BY DivisorIsEuclid
  <2>2. Euclid(Divisor, 0) = [n \in Nat |-> n]
    BY DEF Euclid
  <2> QED BY <2>1, <2>2
<1>3. ASSUME NEW m \in Nat, m \in S, NEW n \in Nat PROVE Right(n, m + 1)
  <2> DEFINE c == m + 1  r == n % c  g == Divisor[r][c]
  <2>1. c \in Nat /\ c # 0 /\ r \in Nat /\ r <= m /\ n \div c \in Int /\ n = (n \div c) * c + r
    <3>1. c \in Nat /\ c > 0 /\ (r < c => r <= m)
      OBVIOUS
    <3> HIDE DEF c
    <3>2. r \in Nat /\ r < c /\ n \div c \in Int /\ n = c * (n \div c) + r
      BY <3>1
    <3> DEFINE q == n \div c
    <3>3. q \in Int /\ n = c * q + r
      BY <3>2
    <3> HIDE DEF q, r
    <3>4. n = q * c + r
      BY <3>1, <3>2, <3>3
    <3> QED BY <3>1, <3>2, <3>3, <3>4 DEF q
  <2>2. Divisor[c][n] = g
    BY <2>1, DivisorIsEuclid DEF Euclid
  <2>3. g \in Nat \ {0} /\ Divides(g, r) /\ Divides(g, c)
    <3>1. CASE r = 0
      <4>1. g = c
        BY <1>2, <2>1, <3>1
      <4>2. c = 1 * c /\ 0 = 0 * c
        BY <2>1
      <4> HIDE DEF g, r, c
      <4> QED BY <2>1, <3>1, <4>1, <4>2 DEF Divides
    <3>2. CASE r # 0
      <4> HIDE DEF g, r, c
      <4>1. Right(c, r)
        BY <1>3, <2>1, <3>2
      <4> QED BY <4>1 DEF g
    <3> QED BY <3>1, <3>2
  <2> HIDE DEF g
  <2>4. Divides(g, n)
    <3> HIDE DEF c, r
    <3> DEFINE q == n \div c
    <3>1. q \in Int /\ n = q * c + r
      BY <2>1
    <3> HIDE DEF q
    <3>2. PICK k \in Int, l \in Int : r = k * g /\ c = l * g
      BY <2>3 DEF Divides
    <3>3. n = (q * l + k) * g /\ q * l + k \in Int
      BY <2>3, <3>1, <3>2
    <3> QED BY <3>3 DEF Divides
  <2> QED BY <2>2, <2>3, <2>4
<1>4. ASSUME NEW m \in Nat, m \in S PROVE m + 1 \in S
  <2>1. \A c \in Nat : c <= m + 1 => c <= m \/ c = m + 1
    OBVIOUS
  <2> HIDE DEF Right
  <2> QED BY <1>3, <1>4, <2>1
<1>5. Nat \subseteq S
  <2> HIDE DEF S
  <2> QED BY <1>1, <1>4, SetInduction
<1>6. b \in S
  BY <1>5
<1>7. Right(a, b)
  <2> HIDE DEF Right
  <2> QED BY <1>6
<1> QED BY <1>7

LEMMA DividedExactly ==
  ASSUME NEW g \in Nat \ {0}, NEW k \in Int, NEW a \in Int, a = k * g
  PROVE  a \div g = k
<1> DEFINE q == a \div g  r == a % g
<1>1. q \in Int /\ r \in Int /\ 0 <= r /\ r < g /\ a = g * q + r
  OBVIOUS
<1> HIDE DEF q, r
<1>2. g * (k - q) = r
  BY <1>1
<1>3. k - q = 0
  <2> DEFINE e == k - q
  <2>1. e \in Int /\ g * e = r
    BY <1>1, <1>2
  <2> HIDE DEF e
  <2>2. ~(e >= 1)
    <3> SUFFICES ASSUME e >= 1 PROVE FALSE
      OBVIOUS
    <3>1. e - 1 \in Nat /\ g * e = g * (e - 1) + g
      BY <2>1
    <3>2. g * (e - 1) >= 0
      BY <3>1
    <3> QED BY <1>1, <2>1, <3>1, <3>2
  <2>3. ~(e <= -1)
    <3> SUFFICES ASSUME e <= -1 PROVE FALSE
      OBVIOUS
    <3> DEFINE h == -e - 1
    <3>1. h \in Nat /\ e = -h - 1
      BY <2>1
    <3> HIDE DEF h
    <3>2. g * e = -(g * h) - g
      BY <3>1
    <3>3. g * h >= 0 /\ g * h \in Int
      BY <3>1
    <3> QED BY <1>1, <2>1, <3>2, <3>3
  <2> QED BY <2>1, <2>2, <2>3 DEF e
<1>4. q = k
  BY <1>1, <1>3
<1> QED BY <1>4 DEF q

LEMMA CancelledInt ==
  ASSUME NEW n \in Int \ {0}, NEW t \in Int, NEW q \in Int, n * t = n * q
  PROVE  t = q
<1>1. n * (t - q) = 0
  OBVIOUS
<1> DEFINE e == t - q
<1>2. e \in Int /\ n * e = 0
  BY <1>1
<1> HIDE DEF e
<1>3. e = 0
  BY <1>2
<1> QED BY <1>3 DEF e

LEMMA NotZero ==
  ASSUME NEW a \in Int \ {0}, NEW b \in Int \ {0}
  PROVE  a * b \in Int \ {0}
OBVIOUS

(* A quotient that stands for n / d, for integers n and d.                 *)
Is(q, n, d) ==
  /\ q = <<q[1], q[2]>> /\ q[1] \in Int /\ q[2] \in Nat \ {0}
  /\ n \in Int /\ d \in Int \ {0} /\ q[1] * d = n * q[2]

LEMMA IsWhole ==
  ASSUME NEW n \in Int
  PROVE  Is(<<n, 1>>, n, 1)
BY DEF Is

LEMMA IsSame ==
  ASSUME NEW q, NEW n, NEW d, Is(q, n, d), NEW m \in Int, NEW e \in Int \ {0}, n * e = m * d
  PROVE  Is(q, m, e)
<1> DEFINE u == q[1]  v == q[2]
<1>1. u \in Int /\ v \in Nat \ {0} /\ n \in Int /\ d \in Int \ {0} /\ u * d = n * v
  BY DEF Is
<1> HIDE DEF u, v
<1>2. (u * d) * e = d * (u * e) /\ (n * v) * e = (n * e) * v /\ (m * d) * v = d * (m * v)
  BY <1>1
<1>3. d * (u * e) = d * (m * v)
  BY <1>1, <1>2
<1>4. u * e \in Int /\ m * v \in Int
  BY <1>1, ProductIsInt
<1>5. u * e = m * v
  BY <1>1, <1>3, <1>4, CancelledInt
<1> QED BY <1>5 DEF Is, u, v

LEMMA IsZero ==
  ASSUME NEW q, NEW n, NEW d, Is(q, n, d)
  PROVE  q[1] = 0 <=> n = 0
<1> DEFINE u == q[1]  v == q[2]
<1>1. u \in Int /\ v \in Nat \ {0} /\ n \in Int /\ d \in Int \ {0} /\ u * d = n * v
  BY DEF Is
<1> HIDE DEF u, v
<1>2. u = 0 => n = 0
  <2> SUFFICES ASSUME u = 0 PROVE n = 0
    OBVIOUS
  <2>1. n * v = 0
    BY <1>1
  <2> QED BY <1>1, <2>1
<1>3. n = 0 => u = 0
  <2> SUFFICES ASSUME n = 0 PROVE u = 0
    OBVIOUS
  <2>1. u * d = 0
    BY <1>1
  <2> QED BY <1>1, <2>1
<1> QED BY <1>2, <1>3 DEF u

LEMMA QuotientIs ==
  ASSUME NEW n \in Int, NEW d \in Int \ {0}
  PROVE  Is(Q(n, d), n, d)
<1> DEFINE a == IF n < 0 THEN -n ELSE n
           b == IF d < 0 THEN -d ELSE d
           sign == IF d < 0 THEN -1 ELSE 1
           g == Divisor[a][b]
<1>1. a \in Nat /\ b \in Nat \ {0} /\ sign \in {1, -1} /\ d = sign * b
  OBVIOUS
<1>2. g \in Nat \ {0} /\ Divides(g, a) /\ Divides(g, b)
  <2> HIDE DEF a, b, g
  <2>1. CASE a = 0
    <3>1. Divisor[a] = Euclid(Divisor, 0)
      BY <2>1, DivisorIsEuclid
    <3>2. g = b
      BY <1>1, <3>1 DEF Euclid, g
    <3>3. 0 = 0 * b /\ b = 1 * b
      BY <1>1
    <3> QED BY <1>1, <2>1, <3>2, <3>3 DEF Divides
  <2>2. CASE a # 0
    BY <1>1, <2>2, DivisorDivides DEF g
  <2> QED BY <2>1, <2>2
<1>3. PICK k \in Int, l \in Int : a = k * g /\ b = l * g
  BY <1>2 DEF Divides
<1>4. Divides(g, n) /\ n \in Int
  <2>1. n = a \/ n = -a
    OBVIOUS
  <2> HIDE DEF a, g
  <2>2. -a = (-k) * g /\ -k \in Int
    BY <1>2, <1>3
  <2> QED BY <1>3, <2>1, <2>2 DEF Divides
<1>5. PICK m \in Int : n = m * g
  BY <1>4 DEF Divides
<1>6. Divides(g, d) /\ l > 0
  <2> HIDE DEF a, b, sign, g
  <2>1. d = (sign * l) * g /\ sign * l \in Int
    BY <1>1, <1>2, <1>3
  <2>2. ~(l <= 0)
    <3> SUFFICES ASSUME l <= 0 PROVE FALSE
      OBVIOUS
    <3> DEFINE h == -l
    <3>1. h \in Nat /\ b = -(h * g)
      BY <1>2, <1>3
    <3> HIDE DEF h
    <3> DEFINE e == h * g
    <3>2. e >= 0 /\ e \in Int
      BY <1>2, <3>1
    <3>3. b = -e
      BY <3>1
    <3> HIDE DEF e
    <3> QED BY <1>1, <3>2, <3>3
  <2> QED BY <1>3, <2>1, <2>2 DEF Divides
<1>7. d = (sign * l) * g /\ sign * l \in Int
  <2> HIDE DEF a, b, sign, g
  <2> QED BY <1>1, <1>2, <1>3
<1>8. Q(n, d) = <<sign * (n \div g), sign * (d \div g)>>
  BY DEF Q
<1> HIDE DEF a, b, sign, g
<1>9. n \div g = m /\ d \div g = sign * l
  BY <1>2, <1>5, <1>7, DividedExactly
<1>10. sign * (sign * l) = l
  BY <1>1
<1>11. Q(n, d) = <<sign * m, l>>
  BY <1>8, <1>9, <1>10
<1>12. (sign * m) * d = n * l /\ sign * m \in Int
  BY <1>1, <1>2, <1>5, <1>7
<1> QED BY <1>6, <1>11, <1>12 DEF Is

LEMMA QuotientParts ==
  ASSUME NEW q, NEW n, NEW d, Is(q, n, d)
  PROVE  q[1] \in Int /\ q[2] \in Nat \ {0} /\ q[2] \in Int \ {0} /\ n \in Int /\ d \in Int \ {0} /\ q[1] * d = n * q[2]
BY DEF Is

LEMMA Exchanged ==
  ASSUME NEW a \in Int, NEW b \in Int, NEW c \in Int, NEW d \in Int
  PROVE  (a * b) * (c * d) = (a * c) * (b * d)
OBVIOUS

LEMMA Distributed ==
  ASSUME NEW a \in Int, NEW b \in Int, NEW c \in Int
  PROVE  (a + b) * c = a * c + b * c /\ (a - b) * c = a * c - b * c
OBVIOUS

LEMMA TimesIs ==
  ASSUME NEW a, NEW n, NEW d, Is(a, n, d), NEW b, NEW m, NEW e, Is(b, m, e)
  PROVE  Is(Times(a, b), n * m, d * e)
<1> DEFINE a1 == a[1]  a2 == a[2]  b1 == b[1]  b2 == b[2]
<1>1. /\ a1 \in Int /\ a2 \in Int \ {0} /\ n \in Int /\ d \in Int \ {0} /\ a1 * d = n * a2
      /\ b1 \in Int /\ b2 \in Int \ {0} /\ m \in Int /\ e \in Int \ {0} /\ b1 * e = m * b2
  BY QuotientParts
<1>2. Times(a, b) = Q(a1 * b1, a2 * b2)
  BY DEF Times
<1> HIDE DEF a1, a2, b1, b2
<1>3. a1 * b1 \in Int /\ a2 * b2 \in Int \ {0} /\ d * e \in Int \ {0} /\ n * m \in Int
  BY <1>1, NotZero, ProductIsInt
<1>4. Is(Q(a1 * b1, a2 * b2), a1 * b1, a2 * b2)
  BY <1>3, QuotientIs
<1>5. (a1 * b1) * (d * e) = (a1 * d) * (b1 * e) /\ (n * m) * (a2 * b2) = (n * a2) * (m * b2)
  BY <1>1, Exchanged
<1>6. (a1 * b1) * (d * e) = (n * m) * (a2 * b2)
  BY <1>1, <1>5
<1> QED BY <1>2, <1>3, <1>4, <1>6, IsSame

LEMMA OverIs ==
  ASSUME NEW a, NEW n, NEW d, Is(a, n, d), NEW b, NEW m, NEW e, Is(b, m, e), m # 0
  PROVE  Is(Over(a, b), n * e, d * m)
<1> DEFINE a1 == a[1]  a2 == a[2]  b1 == b[1]  b2 == b[2]
<1>1. /\ a1 \in Int /\ a2 \in Int \ {0} /\ n \in Int /\ d \in Int \ {0} /\ a1 * d = n * a2
      /\ b1 \in Int /\ b2 \in Int \ {0} /\ m \in Int /\ e \in Int \ {0} /\ b1 * e = m * b2
  BY QuotientParts
<1>2. Over(a, b) = Q(a1 * b2, a2 * b1)
  BY DEF Over
<1>0. b1 # 0
  BY IsZero
<1> HIDE DEF a1, a2, b1, b2
<1>3. a1 * b2 \in Int /\ a2 * b1 \in Int \ {0} /\ d * m \in Int \ {0} /\ n * e \in Int
  BY <1>0, <1>1, NotZero, ProductIsInt
<1>4. Is(Q(a1 * b2, a2 * b1), a1 * b2, a2 * b1)
  BY <1>3, QuotientIs
<1>5. (a1 * b2) * (d * m) = (a1 * d) * (b2 * m) /\ (n * e) * (a2 * b1) = (n * a2) * (e * b1)
  BY <1>1, Exchanged
<1>6. b2 * m = e * b1
  BY <1>1
<1>7. (a1 * b2) * (d * m) = (n * e) * (a2 * b1)
  BY <1>1, <1>5, <1>6
<1> QED BY <1>2, <1>3, <1>4, <1>7, IsSame

LEMMA PlusIs ==
  ASSUME NEW a, NEW n, NEW d, Is(a, n, d), NEW b, NEW m, NEW e, Is(b, m, e)
  PROVE  Is(Plus(a, b), n * e + m * d, d * e) /\ Is(Minus(a, b), n * e - m * d, d * e)
<1> DEFINE a1 == a[1]  a2 == a[2]  b1 == b[1]  b2 == b[2]
<1>1. /\ a1 \in Int /\ a2 \in Int \ {0} /\ n \in Int /\ d \in Int \ {0} /\ a1 * d = n * a2
      /\ b1 \in Int /\ b2 \in Int \ {0} /\ m \in Int /\ e \in Int \ {0} /\ b1 * e = m * b2
  BY QuotientParts
<1>2. Plus(a, b) = Q(a1 * b2 + b1 * a2, a2 * b2) /\ Minus(a, b) = Q(a1 * b2 - b1 * a2, a2 * b2)
  BY DEF Plus, Minus
<1> HIDE DEF a1, a2, b1, b2
<1>3. a1 * b2 \in Int /\ b1 * a2 \in Int /\ a2 * b2 \in Int \ {0} /\ d * e \in Int \ {0} /\ n * e \in Int /\ m * d \in Int
  BY <1>1, NotZero, ProductIsInt
<1>4. (a1 * b2) * (d * e) = (a1 * d) * (b2 * e) /\ (n * e) * (a2 * b2) = (n * a2) * (e * b2)
  BY <1>1, Exchanged
<1>5. (b1 * a2) * (d * e) = (b1 * e) * (a2 * d)
  <2>1. d * e = e * d
    BY <1>1
  <2> QED BY <1>1, <2>1, Exchanged
<1>6. (m * d) * (a2 * b2) = (m * b2) * (a2 * d)
  <2>1. a2 * b2 = b2 * a2 /\ d * a2 = a2 * d
    BY <1>1
  <2> QED BY <1>1, <2>1, Exchanged
<1>7. (a1 * b2) * (d * e) = (n * e) * (a2 * b2)
  <2>1. b2 * e = e * b2
    BY <1>1
  <2> QED BY <1>1, <1>4, <2>1
<1>8. (b1 * a2) * (d * e) = (m * d) * (a2 * b2)
  BY <1>1, <1>5, <1>6
<1> DEFINE r == a1 * b2  s == b1 * a2  t == a2 * b2  u == d * e  v == n * e  w == m * d
<1>9. r \in Int /\ s \in Int /\ t \in Int \ {0} /\ u \in Int \ {0} /\ v \in Int /\ w \in Int /\ r * u = v * t /\ s * u = w * t
  BY <1>3, <1>7, <1>8
<1> HIDE DEF r, s, t, u, v, w
<1>10. Is(Q(r + s, t), r + s, t) /\ Is(Q(r - s, t), r - s, t)
  <2>1. r + s \in Int /\ r - s \in Int
    BY <1>9
  <2> QED BY <1>9, <2>1, QuotientIs
<1>11. (r + s) * u = (v + w) * t /\ (r - s) * u = (v - w) * t /\ v + w \in Int /\ v - w \in Int
  BY <1>9, Distributed
<1>12. Is(Q(r + s, t), v + w, u) /\ Is(Q(r - s, t), v - w, u)
  BY <1>9, <1>10, <1>11, IsSame
<1> QED BY <1>2, <1>12 DEF r, s, t, u, v, w

(* The sum of quotients of one denominator.                                *)
IsAltogether(f, q, n) == f = [i \in 0 .. n |-> IF i = 0 THEN <<0, 1>> ELSE Plus(f[i - 1], q[i])]

LEMMA AltogetherExists ==
  ASSUME NEW q, NEW n \in Nat
  PROVE  \E f : IsAltogether(f, q, n)
<1> DEFINE S == {k \in Nat : \E f : IsAltogether(f, q, k)}
<1>1. 0 \in S
  <2> DEFINE f == [i \in 0 .. 0 |-> <<0, 1>>]
  <2>1. \A i \in 0 .. 0 : i = 0
    OBVIOUS
  <2>2. IsAltogether(f, q, 0)
    BY <2>1 DEF IsAltogether
  <2> HIDE DEF f
  <2> QED BY <2>2
<1>2. ASSUME NEW k \in Nat, k \in S PROVE k + 1 \in S
  <2>1. PICK g : IsAltogether(g, q, k)
    BY <1>2
  <2> DEFINE f == [i \in 0 .. k + 1 |-> IF i = k + 1 THEN Plus(g[k], q[k + 1]) ELSE g[i]]
             step(h, i) == IF i = 0 THEN <<0, 1>> ELSE Plus(h[i - 1], q[i])
  <2>2. \A i \in 0 .. k : g[i] = step(g, i)
    BY <2>1 DEF IsAltogether
  <2>3. \A i \in 0 .. k + 1 : i \in 0 .. k \/ (i = k + 1 /\ i # 0 /\ i - 1 = k)
    OBVIOUS
  <2>4. \A i \in 0 .. k : i # k + 1 /\ i \in 0 .. k + 1 /\ (i # 0 => i - 1 \in 0 .. k)
    OBVIOUS
  <2>5. f[k + 1] = Plus(g[k], q[k + 1]) /\ \A i \in 0 .. k : f[i] = g[i]
    BY <2>4
  <2>6. k \in 0 .. k
    OBVIOUS
  <2>7. f = [i \in 0 .. k + 1 |-> f[i]]
    OBVIOUS
  <2> HIDE DEF f
  <2>8. \A i \in 0 .. k + 1 : f[i] = step(f, i)
    <3> SUFFICES ASSUME NEW i \in 0 .. k + 1 PROVE f[i] = step(f, i)
      OBVIOUS
    <3>1. CASE i \in 0 .. k
      <4>1. f[i] = step(g, i)
        BY <2>2, <2>5, <3>1
      <4>2. step(g, i) = step(f, i)
        BY <2>4, <2>5, <3>1
      <4> QED BY <4>1, <4>2
    <3>2. CASE i = k + 1
      BY <2>3, <2>5, <2>6, <3>2
    <3> QED BY <2>3, <3>1, <3>2
  <2>9. IsAltogether(f, q, k + 1)
    BY <2>7, <2>8 DEF IsAltogether
  <2> QED BY <2>9
<1>3. Nat \subseteq S
  <2> HIDE DEF S
  <2> QED BY <1>1, <1>2, SetInduction
<1> QED BY <1>3

LEMMA AltogetherIs ==
  ASSUME NEW q, NEW n \in Nat, Len(q) = n, NEW s \in [1 .. n -> Int], NEW d \in Int \ {0},
         \A i \in 1 .. n : Is(q[i], s[i], d)
  PROVE  Is(Altogether(q), Total(s), d)
<1>1. PICK f : IsAltogether(f, q, n)
  BY AltogetherExists
<1> DEFINE sum == CHOOSE f1 : IsAltogether(f1, q, n)
<1>2. IsAltogether(sum, q, n)
  BY <1>1
<1>3. Altogether(q) = sum[n]
  BY DEF Altogether, IsAltogether
<1> HIDE DEF sum
<1>4. PICK t : t \in [0 .. n -> Int] /\ t[0] = 0 /\ t[n] = Total(s) /\ \A i \in 1 .. n : t[i] = t[i - 1] + s[i]
  BY TotalSums
<1>5. sum[0] = <<0, 1>> /\ \A i \in 1 .. n : sum[i] = Plus(sum[i - 1], q[i])
  <2>1. 0 \in 0 .. n /\ \A i \in 1 .. n : i \in 0 .. n /\ i # 0
    OBVIOUS
  <2> QED BY <1>2, <2>1 DEF IsAltogether
<1> DEFINE S == {k \in Nat : k <= n => Is(sum[k], t[k], d)}
<1>6. 0 \in S
  BY <1>4, <1>5 DEF Is
<1>7. ASSUME NEW k \in Nat, k \in S PROVE k + 1 \in S
  <2> SUFFICES ASSUME k + 1 <= n PROVE Is(sum[k + 1], t[k + 1], d)
    OBVIOUS
  <2>1. k + 1 \in 1 .. n /\ (k + 1) - 1 = k /\ k <= n /\ k \in 0 .. n
    OBVIOUS
  <2>2. sum[k + 1] = Plus(sum[k], q[k + 1]) /\ t[k + 1] = t[k] + s[k + 1]
    BY <1>4, <1>5, <2>1
  <2>3. Is(sum[k], t[k], d) /\ Is(q[k + 1], s[k + 1], d)
    BY <1>7, <2>1
  <2> DEFINE a == t[k]  b == s[k + 1]  p1 == sum[k]  p2 == q[k + 1]
  <2>4. a \in Int /\ b \in Int
    BY <1>4, <2>1
  <2> HIDE DEF a, b, p1, p2
  <2>5. Is(p1, a, d) /\ Is(p2, b, d)
    BY <2>3 DEF a, b, p1, p2
  <2>6. Is(Plus(p1, p2), a * d + b * d, d * d)
    BY <2>5, PlusIs
  <2>7. (a * d + b * d) * d = (a + b) * (d * d) /\ a + b \in Int
    BY <2>4
  <2>8. Is(Plus(p1, p2), a + b, d)
    BY <2>6, <2>7, IsSame
  <2> QED BY <2>2, <2>8 DEF a, b, p1, p2
<1>8. Nat \subseteq S
  <2> HIDE DEF S
  <2> QED BY <1>6, <1>7, SetInduction
<1>9. n \in S
  BY <1>8
<1> QED BY <1>3, <1>4, <1>9

(* A matrix of two rows and four columns, and the elimination of one of    *)
(* its columns.                                                            *)
IsMatrix(a) ==
  /\ a = [r \in 1 .. 2 |-> a[r]]
  /\ \A r \in 1 .. 2 : a[r] = [k \in 1 .. 4 |-> a[r][k]]

LEMMA MatrixShape ==
  ASSUME NEW a, IsMatrix(a)
  PROVE  DOMAIN a = 1 .. 2 /\ Len(a) = 2 /\ \A r \in 1 .. 2 : DOMAIN a[r] = 1 .. 4
<1>1. a = [r \in 1 .. 2 |-> a[r]]
  BY DEF IsMatrix
<1> DEFINE b == [r \in 1 .. 2 |-> a[r]]  T == {a[r] : r \in 1 .. 2}
<1>2. b \in [1 .. 2 -> T] /\ DOMAIN b = 1 .. 2
  OBVIOUS
<1> HIDE DEF b, T
<1>3. Len(b) = 2
  BY <1>2, FunctionLen
<1>4. DOMAIN a = 1 .. 2 /\ Len(a) = 2
  BY <1>1, <1>2, <1>3 DEF b
<1>5. ASSUME NEW r \in 1 .. 2 PROVE DOMAIN a[r] = 1 .. 4
  <2> DEFINE w == a[r]  v == [k \in 1 .. 4 |-> w[k]]
  <2>1. w = v
    BY DEF IsMatrix
  <2>2. DOMAIN v = 1 .. 4
    OBVIOUS
  <2> HIDE DEF v, w
  <2>3. DOMAIN w = 1 .. 4
    BY <2>1, <2>2
  <2> QED BY <2>3 DEF w
<1> QED BY <1>4, <1>5

LEMMA EliminatedIs ==
  ASSUME NEW a, IsMatrix(a), NEW c \in 1 .. 2, NEW o \in 1 .. 2, c # o, NEW pivot \in 1 .. 2
  PROVE  LET e == Eliminated(a, c, pivot)  other == IF pivot = o THEN a[c] ELSE a[o] IN
         /\ IsMatrix(e)
         /\ \A k \in 1 .. 4 : e[c][k] = Over(a[pivot][k], a[pivot][c])
         /\ \A k \in 1 .. 4 : e[o][k] = Minus(other[k], Times(other[c], e[c][k]))
<1> DEFINE swapped == [a EXCEPT ![c] = a[pivot], ![pivot] = a[c]]
           row == [k \in DOMAIN a[1] |-> Over(swapped[c][k], swapped[c][c])]
           reduced(r) == [k \in DOMAIN row |-> Minus(swapped[r][k], Times(swapped[r][c], row[k]))]
           e == Eliminated(a, c, pivot)
           other == IF pivot = o THEN a[c] ELSE a[o]
<1>1. DOMAIN a = 1 .. 2 /\ DOMAIN a[1] = 1 .. 4
  BY MatrixShape
<1>2. swapped[c] = a[pivot]
  BY <1>1
<1>3. swapped[o] = other
  BY <1>1
<1> HIDE DEF swapped, other
<1>4. e = [r \in 1 .. 2 |-> CASE r = c -> row [] LeftAlone(r, c) -> swapped[r] [] OTHER -> reduced(r)]
  BY <1>1 DEF Eliminated, swapped
<1> HIDE DEF e
<1>5. e[c] = row
  <2>1. \A x1 : ~LeftAlone(x1, c)
    BY DEF LeftAlone
  <2> HIDE DEF row
  <2> QED BY <1>4, <2>1
<1>6. e[o] = reduced(o)
  <2> HIDE DEF row, reduced
  <2> QED BY <1>4 DEF LeftAlone
<1>7. row = [k \in 1 .. 4 |-> row[k]] /\ DOMAIN row = 1 .. 4 /\ \A k \in 1 .. 4 : row[k] = Over(a[pivot][k], a[pivot][c])
  BY <1>1, <1>2
<1> HIDE DEF row
<1>8. reduced(o) = [k \in 1 .. 4 |-> reduced(o)[k]] /\ \A k \in 1 .. 4 : reduced(o)[k] = Minus(other[k], Times(other[c], row[k]))
  BY <1>3, <1>7
<1> HIDE DEF reduced
<1>9. IsMatrix(e)
  <2>1. \A r \in 1 .. 2 : r = c \/ r = o
    OBVIOUS
  <2>2. e = [r \in 1 .. 2 |-> e[r]]
    BY <1>4
  <2> QED BY <1>5, <1>6, <1>7, <1>8, <2>1, <2>2 DEF IsMatrix
<1> QED BY <1>5, <1>6, <1>7, <1>8, <1>9 DEF e, other

LEMMA MatrixIsNot ==
  ASSUME NEW a, IsMatrix(a)
  PROVE  a # Singular
<1>1. DOMAIN a = 1 .. 2 /\ 1 \in 1 .. 2
  BY MatrixShape
<1>2. DOMAIN Singular = {}
  BY EmptySeq DEF Singular
<1> QED BY <1>1, <1>2

(* Quotients are compared through what they stand for.                     *)
LEMMA LessIs ==
  ASSUME NEW a, NEW n, NEW d, Is(a, n, d), NEW b, NEW m, NEW e, Is(b, m, e), d > 0, e > 0
  PROVE  Less(a, b) <=> n * e < m * d
<1> DEFINE a1 == a[1]  a2 == a[2]  b1 == b[1]  b2 == b[2]
<1>1. /\ a1 \in Int /\ a2 \in Nat \ {0} /\ n \in Int /\ d \in Nat \ {0} /\ a1 * d = n * a2
      /\ b1 \in Int /\ b2 \in Nat \ {0} /\ m \in Int /\ e \in Nat \ {0} /\ b1 * e = m * b2
  BY QuotientParts
<1>2. Less(a, b) <=> a1 * b2 < b1 * a2
  BY DEF Less
<1> HIDE DEF a1, a2, b1, b2
<1> DEFINE k == d * e  l == a2 * b2  f == a1 * b2  g == b1 * a2  h == n * e  j == m * d
<1>3. k \in Nat \ {0} /\ l \in Nat \ {0} /\ f \in Int /\ g \in Int /\ h \in Int /\ j \in Int
  BY <1>1, ProductPositive, ProductIsInt
<1>4. f * k = h * l /\ g * k = j * l
  <2>1. f * k = (a1 * d) * (b2 * e) /\ (n * a2) * (b2 * e) = h * l
    BY <1>1
  <2>2. g * k = (b1 * e) * (a2 * d) /\ (m * b2) * (a2 * d) = j * l
    BY <1>1
  <2> QED BY <1>1, <2>1, <2>2
<1> HIDE DEF k, l, f, g, h, j
<1>5. f < g <=> f * k < g * k
  BY <1>3, LtTimes, TimesLt
<1>6. h < j <=> h * l < j * l
  BY <1>3, LtTimes, TimesLt
<1>7. f < g <=> h < j
  BY <1>4, <1>5, <1>6
<1> QED BY <1>2, <1>7 DEF f, g, h, j

LEMMA MagnitudeIs ==
  ASSUME NEW n \in Int
  PROVE  Magnitude(n) \in Nat /\ (Magnitude(n) = 0 <=> n = 0)
BY DEF Magnitude

LEMMA MagnitudeTimes ==
  ASSUME NEW n \in Int, NEW k \in Nat
  PROVE  Magnitude(n * k) = Magnitude(n) * k
<1>1. CASE n >= 0
  <2>1. 0 * k <= n * k /\ n * k \in Int
    BY <1>1, LeTimes
  <2> QED BY <1>1, <2>1 DEF Magnitude
<1>2. CASE n < 0
  <2> DEFINE m == -n
  <2>1. m \in Nat /\ n = -m /\ m * k \in Nat /\ n * k = -(m * k)
    BY <1>2
  <2> HIDE DEF m
  <2>2. CASE m * k = 0
    BY <1>2, <2>1, <2>2 DEF Magnitude
  <2>3. CASE m * k # 0
    <3> DEFINE e == m * k
    <3>1. e \in Nat \ {0} /\ n * k = -e
      BY <2>1, <2>3
    <3> HIDE DEF e
    <3>2. Magnitude(n * k) = e
      BY <3>1 DEF Magnitude
    <3>3. Magnitude(n) = m
      BY <1>2, <2>1 DEF Magnitude
    <3> QED BY <3>2, <3>3 DEF e
  <2> QED BY <2>2, <2>3
<1> QED BY <1>1, <1>2

LEMMA SizeIs ==
  ASSUME NEW v, NEW n, NEW d, Is(v, n, d)
  PROVE  Is(Size(v), Magnitude(n), Magnitude(d)) /\ Magnitude(d) > 0
<1> DEFINE a == v[1]  b == v[2]  h == Magnitude(n)  e == Magnitude(d)
<1>1. a \in Int /\ b \in Nat \ {0} /\ n \in Int /\ d \in Int \ {0} /\ a * d = n * b
  BY QuotientParts
<1>2. h \in Nat /\ e \in Nat \ {0}
  BY <1>1, MagnitudeIs
<1>3. Is(Size(v), Magnitude(a), b)
  <2>1. CASE a < 0
    <3>1. Size(v) = Q(-a, b) /\ Magnitude(a) = -a
      BY <2>1 DEF Size, Magnitude
    <3> HIDE DEF a, b
    <3>2. -a \in Int /\ b \in Int \ {0}
      BY <1>1
    <3> QED BY <3>1, <3>2, QuotientIs
  <2>2. CASE ~(a < 0)
    <3>1. Size(v) = v /\ Magnitude(a) = a
      BY <2>2 DEF Size, Magnitude
    <3>2. v = <<a, b>>
      BY DEF Is
    <3> HIDE DEF a, b
    <3>3. v[1] = a /\ v[2] = b
      BY DEF a, b
    <3>4. a * b = a * v[2] /\ b \in Int \ {0}
      BY <1>1, <3>3
    <3> QED BY <1>1, <3>1, <3>2, <3>3, <3>4 DEF Is
  <2> QED BY <2>1, <2>2
<1> HIDE DEF a, b, h, e
<1> DEFINE c == Magnitude(a)
<1>4. c \in Nat
  BY <1>1, MagnitudeIs
<1>5. c * e = h * b
  <2>1. Magnitude(a * d) = c * e
    <3>1. CASE d > 0
      <4>1. Magnitude(d) = d /\ d \in Nat
        BY <1>1, <3>1 DEF Magnitude
      <4> QED BY <1>1, <4>1, MagnitudeTimes DEF e
    <3>2. CASE d < 0
      <4> DEFINE f == -d
      <4>1. Magnitude(d) = f /\ f \in Nat
        BY <1>1, <3>2 DEF Magnitude
      <4>2. a * d = (-a) * f /\ -a \in Int
        BY <1>1
      <4>3. Magnitude(-a) = Magnitude(a)
        BY <1>1 DEF Magnitude
      <4> HIDE DEF f
      <4>4. Magnitude((-a) * f) = Magnitude(-a) * f
        BY <4>1, <4>2, MagnitudeTimes
      <4> QED BY <4>1, <4>2, <4>3, <4>4 DEF e
    <3> QED BY <1>1, <3>1, <3>2
  <2>2. Magnitude(n * b) = h * b
    BY <1>1, MagnitudeTimes DEF h
  <2> QED BY <1>1, <2>1, <2>2
<1> HIDE DEF c
<1>6. Is(Size(v), h, e)
  <2>1. h \in Int /\ e \in Int \ {0}
    BY <1>2
  <2> QED BY <1>3, <1>5, <2>1, IsSame DEF c
<1>7. e > 0
  BY <1>2
<1> QED BY <1>6, <1>7 DEF h, e

(* A pivot is refused when it is below the tolerance.                      *)
LEMMA TooSmall ==
  ASSUME NEW v, NEW n, NEW d, Is(v, n, d)
  PROVE  Less(Size(v), Tolerance) <=> Magnitude(n) * Tolerance[2] < Tolerance[1] * Magnitude(d)
<1>1. Is(Size(v), Magnitude(n), Magnitude(d)) /\ Magnitude(d) > 0
  BY SizeIs
<1>2. Is(Tolerance, Tolerance[1], Tolerance[2]) /\ Tolerance[2] > 0
  BY RegressionAssumption DEF Is
<1> QED BY <1>1, <1>2, LessIs

(* The first pivot is the larger entry of the first column.                *)
LEMMA FirstPivot ==
  ASSUME NEW a, IsMatrix(a), NEW n \in Int, NEW m \in Int, Is(a[1][1], n, 1), Is(a[2][1], m, 1)
  PROVE  \/ Pivot(a, 1) = 1 /\ Magnitude(m) < Magnitude(n)
         \/ Pivot(a, 1) = 2 /\ Magnitude(n) <= Magnitude(m)
<1> DEFINE h1 == Magnitude(n)  h2 == Magnitude(m)  s(r) == Size(a[r][1])
           Fits(r) == \A o \in 1 .. Len(a) : ~Less(s(r), s(o)) /\ (Less(s(o), s(r)) \/ o <= r)
<1>1. Is(s(1), h1, 1) /\ Is(s(2), h2, 1)
  <2>1. Magnitude(1) = 1
    BY DEF Magnitude
  <2> QED BY <2>1, SizeIs
<1>2. h1 \in Nat /\ h2 \in Nat
  BY MagnitudeIs
<1>3. Len(a) = 2
  BY MatrixShape
<1>4. Pivot(a, 1) = CHOOSE r \in 1 .. Len(a) : Fits(r)
  BY DEF Pivot
<1> HIDE DEF h1, h2, s
<1>5. /\ Less(s(1), s(1)) <=> h1 < h1
      /\ Less(s(1), s(2)) <=> h1 < h2
      /\ Less(s(2), s(1)) <=> h2 < h1
      /\ Less(s(2), s(2)) <=> h2 < h2
  <2>1. 1 > 0 /\ h1 * 1 = h1 /\ h2 * 1 = h2
    BY <1>2
  <2>2. /\ Less(s(1), s(1)) <=> h1 * 1 < h1 * 1
        /\ Less(s(1), s(2)) <=> h1 * 1 < h2 * 1
        /\ Less(s(2), s(1)) <=> h2 * 1 < h1 * 1
        /\ Less(s(2), s(2)) <=> h2 * 1 < h2 * 1
    BY <1>1, <2>1, LessIs
  <2> QED BY <2>1, <2>2
<1>6. \A o \in 1 .. 2 : o = 1 \/ o = 2
  OBVIOUS
<1>7. (Fits(1) <=> h2 < h1) /\ (Fits(2) <=> h1 <= h2)
  BY <1>2, <1>3, <1>5, <1>6
<1> HIDE DEF Fits
<1>8. \E r \in 1 .. Len(a) : Fits(r)
  BY <1>2, <1>3, <1>7
<1>9. Pivot(a, 1) \in 1 .. 2 /\ Fits(Pivot(a, 1))
  BY <1>3, <1>4, <1>8
<1>10. CASE Pivot(a, 1) = 1
  BY <1>7, <1>9, <1>10 DEF h1, h2
<1>11. CASE Pivot(a, 1) = 2
  BY <1>7, <1>9, <1>11 DEF h1, h2
<1> QED BY <1>6, <1>9, <1>10, <1>11

LEMMA LastPivot ==
  ASSUME NEW a, IsMatrix(a), NEW n, NEW d, Is(a[2][2], n, d)
  PROVE  Pivot(a, 2) = 2
<1> DEFINE z == Size(a[2][2])
<1>1. Len(a) = 2
  BY MatrixShape
<1>2. z[1] \in Int /\ z[2] \in Int
  <2>1. a[2][2][1] \in Int /\ a[2][2][2] \in Int \ {0}
    BY QuotientParts
  <2> DEFINE v == a[2][2]
  <2>2. v[1] \in Int /\ v[2] \in Int \ {0}
    BY <2>1
  <2> HIDE DEF v
  <2>3. -v[1] \in Int
    BY <2>2
  <2>4. Is(Q(-v[1], v[2]), -v[1], v[2])
    BY <2>2, <2>3, QuotientIs
  <2>5. Size(v)[1] \in Int /\ Size(v)[2] \in Int
    BY <2>2, <2>4, QuotientParts DEF Size
  <2> QED BY <2>5 DEF v
<1>3. ~Less(z, z)
  <2> HIDE DEF z
  <2> DEFINE k == z[1] * z[2]
  <2>1. k \in Int
    BY <1>2
  <2>2. Less(z, z) <=> k < k
    BY DEF Less
  <2> HIDE DEF k
  <2> QED BY <2>1, <2>2
<1>4. \A r \in 2 .. 2 : r = 2
  OBVIOUS
<1>5. \A o \in 2 .. Len(a) : ~Less(Size(a[2][2]), Size(a[o][2])) /\ (Less(Size(a[o][2]), Size(a[2][2])) \/ o <= 2)
  BY <1>1, <1>3, <1>4
<1>6. 2 \in 2 .. Len(a) /\ \A r \in 2 .. Len(a) : r = 2
  BY <1>1, <1>4
<1> QED BY <1>5, <1>6 DEF Pivot

LEMMA FirstReduced ==
  ASSUME NEW p1, NEW n, Is(p1, n, 1), NEW p2, NEW c, Is(p2, c, 1), NEW p3, NEW m, NEW d, Is(p3, m, d)
  PROVE  Is(Minus(p1, Times(p2, p3)), n * d - c * m, d)
<1>1. Is(Times(p2, p3), c * m, 1 * d)
  BY TimesIs
<1>2. n \in Int /\ c \in Int /\ m \in Int /\ d \in Int \ {0}
  BY QuotientParts
<1>3. 1 * d = d
  BY <1>2
<1>4. Is(Minus(p1, Times(p2, p3)), n * d - (c * m) * 1, 1 * d)
  BY <1>1, <1>3, PlusIs
<1>5. (c * m) * 1 = c * m
  <2> DEFINE k == c * m
  <2>1. k \in Int
    BY <1>2, ProductIsInt
  <2> HIDE DEF k
  <2>2. k * 1 = k
    BY <2>1
  <2> QED BY <2>2 DEF k
<1> QED BY <1>3, <1>4, <1>5

LEMMA LastReduced ==
  ASSUME NEW a \in Int \ {0}, NEW b \in Int, NEW c \in Int, NEW g \in Int, NEW n \in Int, NEW m \in Int,
         g * a - c * b # 0,
         NEW p1, Is(p1, n, a), NEW p2, Is(p2, b, a), NEW p3, Is(p3, m * a - c * n, g * a - c * b)
  PROVE  Is(Minus(p1, Times(p2, p3)), n * g - b * m, g * a - c * b)
<1> DEFINE det == g * a - c * b  w == m * a - c * n  r == n * g - b * m
<1>1. det \in Int \ {0} /\ w \in Int /\ r \in Int
  <2>1. g * a \in Int /\ c * b \in Int /\ m * a \in Int /\ c * n \in Int /\ n * g \in Int /\ b * m \in Int
    BY ProductIsInt
  <2> QED BY <2>1
<1>2. n * det - b * w = a * r
  <2>1. n * det = n * (g * a) - n * (c * b)
    OBVIOUS
  <2>2. b * w = b * (m * a) - b * (c * n)
    OBVIOUS
  <2>3. a * r = a * (n * g) - a * (b * m)
    OBVIOUS
  <2>4. n * (g * a) = a * (n * g) /\ n * (c * b) = b * (c * n) /\ b * (m * a) = a * (b * m)
    OBVIOUS
  <2> DEFINE k1 == a * (n * g)  k2 == b * (c * n)  k3 == a * (b * m)
  <2>5. k1 \in Int /\ k2 \in Int /\ k3 \in Int
    BY ProductIsInt
  <2>6. n * det = k1 - k2 /\ b * w = k3 - k2 /\ a * r = k1 - k3
    BY <2>1, <2>2, <2>3, <2>4
  <2> HIDE DEF k1, k2, k3, det, w, r
  <2> QED BY <2>5, <2>6
<1>3. Is(p3, w, det)
  OBVIOUS
<1> HIDE DEF det, w, r
<1>4. Is(Times(p2, p3), b * w, a * det)
  BY <1>3, TimesIs
<1>5. Is(Minus(p1, Times(p2, p3)), n * (a * det) - (b * w) * a, a * (a * det))
  BY <1>4, PlusIs
<1>6. (n * (a * det) - (b * w) * a) * det = r * (a * (a * det))
  <2>1. n * (a * det) - (b * w) * a = a * (n * det - b * w)
    BY <1>1
  <2>2. (a * (a * r)) * det = r * (a * (a * det))
    BY <1>1
  <2> QED BY <1>2, <2>1, <2>2
<1> DEFINE num == n * (a * det) - (b * w) * a  den == a * (a * det)
<1>7. Is(Minus(p1, Times(p2, p3)), num, den) /\ num * det = r * den
  BY <1>5, <1>6
<1> HIDE DEF num, den
<1>8. Is(Minus(p1, Times(p2, p3)), r, det)
  BY <1>1, <1>7, IsSame
<1> QED BY <1>8 DEF r, det

(* The elimination of [u; v], u being the pivot's row, is Cramer's rule,   *)
(* unless the pivot that is left is below the tolerance.                   *)
Negligible(det, first) == Magnitude(det) * Tolerance[2] < Tolerance[1] * Magnitude(first)

LEMMA RefusedZero ==
  ASSUME NEW first \in Int \ {0}
  PROVE  Negligible(0, first)
<1> DEFINE t1 == Tolerance[1]  t2 == Tolerance[2]  m == Magnitude(first)
<1>1. t1 \in Nat \ {0} /\ t2 \in Nat \ {0}
  BY RegressionAssumption
<1>2. m \in Nat \ {0}
  BY MagnitudeIs
<1>3. Magnitude(0) = 0
  BY DEF Magnitude
<1> HIDE DEF t1, t2, m
<1>4. t1 * m \in Nat \ {0}
  BY <1>1, <1>2, ProductPositive
<1>5. 0 * t2 < t1 * m
  BY <1>1, <1>4
<1> QED BY <1>3, <1>5 DEF Negligible, t1, t2, m

LEMMA BothColumns ==
  ASSUME NEW a, IsMatrix(a), NEW p1 \in 1 .. 2, NEW p2 \in 1 .. 2, p1 # p2, Pivot(a, 1) = p1,
         NEW u \in [1 .. 4 -> Int], NEW v \in [1 .. 4 -> Int], u[1] # 0,
         ~Less(Size(a[p1][1]), Tolerance),
         \A k \in 1 .. 4 : Is(a[p1][k], u[k], 1) /\ Is(a[p2][k], v[k], 1)
  PROVE  LET two == Reduced(Reduced(a, 1), 2)  det == v[2] * u[1] - v[1] * u[2] IN
         /\ Negligible(det, u[1]) => two = Singular
         /\ ~Negligible(det, u[1]) =>
              /\ IsMatrix(two) /\ det # 0
              /\ \A k \in 1 .. 4 : Is(two[1][k], u[k] * v[2] - u[2] * v[k], det)
              /\ \A k \in 1 .. 4 : Is(two[2][k], v[k] * u[1] - v[1] * u[k], det)
<1> DEFINE one == Reduced(a, 1)  two == Reduced(one, 2)  det == v[2] * u[1] - v[1] * u[2]
<1>0. 1 \in 1 .. 4 /\ 2 \in 1 .. 4 /\ 1 \in 1 .. 2 /\ 2 \in 1 .. 2
  OBVIOUS
<1>1. one = Eliminated(a, 1, p1)
  BY MatrixIsNot DEF Reduced
<1>2. /\ IsMatrix(one)
      /\ \A k \in 1 .. 4 : one[1][k] = Over(a[p1][k], a[p1][1])
      /\ \A k \in 1 .. 4 : one[2][k] = Minus(a[p2][k], Times(a[p2][1], one[1][k]))
  <2>1. (IF p1 = 2 THEN a[1] ELSE a[2]) = a[p2]
    OBVIOUS
  <2> HIDE DEF one
  <2> QED BY <1>0, <1>1, <2>1, EliminatedIs
<1> HIDE DEF one
<1>3. \A k \in 1 .. 4 : Is(one[1][k], u[k], u[1])
  <2> SUFFICES ASSUME NEW k \in 1 .. 4 PROVE Is(one[1][k], u[k], u[1])
    OBVIOUS
  <2>1. u[k] \in Int /\ u[1] \in Int \ {0} /\ Is(a[p1][k], u[k], 1) /\ Is(a[p1][1], u[1], 1)
    BY <1>0
  <2>2. Is(Over(a[p1][k], a[p1][1]), u[k] * 1, 1 * u[1])
    BY <2>1, OverIs
  <2>3. u[k] * 1 = u[k] /\ 1 * u[1] = u[1]
    BY <2>1
  <2> QED BY <1>2, <2>2, <2>3
<1>4. \A k \in 1 .. 4 : Is(one[2][k], v[k] * u[1] - v[1] * u[k], u[1])
  <2> SUFFICES ASSUME NEW k \in 1 .. 4 PROVE Is(one[2][k], v[k] * u[1] - v[1] * u[k], u[1])
    OBVIOUS
  <2>1. Is(a[p2][k], v[k], 1) /\ Is(a[p2][1], v[1], 1) /\ Is(one[1][k], u[k], u[1])
    BY <1>0, <1>3
  <2> QED BY <1>2, <2>1, FirstReduced
<1>5. Is(one[2][2], det, u[1])
  BY <1>0, <1>4
<1>6. Pivot(one, 2) = 2
  BY <1>2, <1>5, LastPivot
<1>7. Less(Size(one[2][2]), Tolerance) <=> Negligible(det, u[1])
  <2> HIDE DEF det
  <2> QED BY <1>5, TooSmall DEF Negligible
<1>8. ASSUME Negligible(det, u[1]) PROVE two = Singular
  BY <1>6, <1>7, <1>8 DEF Reduced
<1>9. ASSUME ~Negligible(det, u[1])
      PROVE  /\ IsMatrix(two) /\ det # 0
             /\ \A k \in 1 .. 4 : Is(two[1][k], u[k] * v[2] - u[2] * v[k], det)
             /\ \A k \in 1 .. 4 : Is(two[2][k], v[k] * u[1] - v[1] * u[k], det)
  <2>0. det # 0
    <3> HIDE DEF det
    <3>1. u[1] \in Int \ {0}
      BY <1>0
    <3> QED BY <1>9, <3>1, RefusedZero
  <2>1. two = Eliminated(one, 2, 2)
    BY <1>2, <1>6, <1>7, <1>9, MatrixIsNot DEF Reduced
  <2>2. /\ IsMatrix(two)
        /\ \A k \in 1 .. 4 : two[2][k] = Over(one[2][k], one[2][2])
        /\ \A k \in 1 .. 4 : two[1][k] = Minus(one[1][k], Times(one[1][2], two[2][k]))
    <3> HIDE DEF two
    <3>1. (IF 2 = 1 THEN one[2] ELSE one[1]) = one[1]
      OBVIOUS
    <3>2. IsMatrix(one)
      BY <1>2
    <3> HIDE DEF one
    <3> QED BY <2>1, <3>1, <3>2, EliminatedIs
  <2> HIDE DEF two
  <2>3. ASSUME NEW k \in 1 .. 4
        PROVE  Is(two[2][k], v[k] * u[1] - v[1] * u[k], det) /\ Is(two[1][k], u[k] * v[2] - u[2] * v[k], det)
    <3> DEFINE x1 == u[k]  x2 == v[k]  u1 == u[1]  u2 == u[2]  v1 == v[1]  v2 == v[2]
    <3>1. x1 \in Int /\ x2 \in Int /\ u1 \in Int \ {0} /\ u2 \in Int /\ v1 \in Int /\ v2 \in Int
      BY <1>0
    <3>2. Is(one[2][k], x2 * u1 - v1 * x1, u1) /\ Is(one[1][k], x1, u1) /\ Is(one[1][2], u2, u1)
      BY <1>0, <1>3, <1>4
    <3>3. det = v2 * u1 - v1 * u2
      OBVIOUS
    <3> HIDE DEF x1, x2, u1, u2, v1, v2, det
    <3> DEFINE w == x2 * u1 - v1 * x1
    <3>4. Is(one[2][k], w, u1) /\ Is(one[2][2], det, u1)
      BY <1>5, <3>2 DEF u1
    <3>5. w \in Int /\ det \in Int \ {0}
      BY <2>0, <3>4, QuotientParts
    <3> HIDE DEF w
    <3>6. Is(two[2][k], w * u1, u1 * det)
      BY <2>0, <2>2, <3>4, OverIs
    <3>7. (w * u1) * det = w * (u1 * det)
      BY <3>1, <3>5
    <3>8. Is(two[2][k], w, det)
      BY <3>5, <3>6, <3>7, IsSame
    <3>9. Is(two[2][k], x2 * u1 - v1 * x1, v2 * u1 - v1 * u2) /\ v2 * u1 - v1 * u2 # 0
      BY <2>0, <3>3, <3>8 DEF w
    <3>10. Is(Minus(one[1][k], Times(one[1][2], two[2][k])), x1 * v2 - u2 * x2, v2 * u1 - v1 * u2)
      BY <3>1, <3>2, <3>9, LastReduced
    <3>11. Is(two[1][k], x1 * v2 - u2 * x2, det)
      BY <2>2, <3>3, <3>10
    <3> QED BY <3>8, <3>11 DEF w, x1, x2, u1, u2, v1, v2
  <2> QED BY <2>0, <2>2, <2>3
<1> QED BY <1>8, <1>9 DEF one

(* The inverse of the normal equations' matrix of one predictor.           *)
Whole == Int \X Int
IsNormal(matrix, n, s, w) ==
  /\ matrix \in [1 .. 2 -> [1 .. 2 -> Whole]] /\ n \in Int /\ s \in Int /\ w \in Int
  /\ matrix[1][1] = <<n, 1>> /\ matrix[1][2] = <<s, 1>>
  /\ matrix[2][1] = <<s, 1>> /\ matrix[2][2] = <<w, 1>>

Row(a, b, c, d) == [k \in 1 .. 4 |-> IF k = 1 THEN a ELSE IF k = 2 THEN b ELSE IF k = 3 THEN c ELSE d]

LEMMA FourColumns ==
  ASSUME NEW T, NEW f \in [1 .. 2 -> T], NEW g \in [1 .. 2 -> T]
  PROVE  /\ f \o g = [k \in 1 .. 4 |-> (f \o g)[k]]
         /\ (f \o g)[1] = f[1] /\ (f \o g)[2] = f[2] /\ (f \o g)[3] = g[1] /\ (f \o g)[4] = g[2]
<1>1. f \in Seq(T) /\ Len(f) = 2 /\ g \in Seq(T) /\ Len(g) = 2
  BY FunctionLen
<1> DEFINE h == f \o g
<1>2. h \in Seq(T) /\ Len(h) = 4 /\ \A i \in 1 .. 4 : h[i] = IF i <= 2 THEN f[i] ELSE g[i - 2]
  <2>1. /\ h \in Seq(T) /\ Len(h) = Len(f) + Len(g)
        /\ \A i \in 1 .. Len(f) + Len(g) : h[i] = IF i <= Len(f) THEN f[i] ELSE g[i - Len(f)]
    BY <1>1, ConcatProperties
  <2> HIDE DEF h
  <2>2. Len(f) + Len(g) = 4
    BY <1>1
  <2> QED BY <1>1, <2>1, <2>2
<1> HIDE DEF h
<1>3. h \in [1 .. 4 -> T]
  BY <1>2, LenProperties
<1>4. h = [k \in 1 .. 4 |-> h[k]]
  BY <1>3
<1>5. h[1] = f[1] /\ h[2] = f[2] /\ h[3] = g[1] /\ h[4] = g[2]
  BY <1>2
<1> QED BY <1>4, <1>5 DEF h

LEMMA AugmentedIs ==
  ASSUME NEW matrix, NEW n, NEW s, NEW w, IsNormal(matrix, n, s, w)
  PROVE  LET a == Augmented(matrix) IN
         /\ IsMatrix(a)
         /\ \A k \in 1 .. 4 : Is(a[1][k], Row(n, s, 1, 0)[k], 1)
         /\ \A k \in 1 .. 4 : Is(a[2][k], Row(s, w, 0, 1)[k], 1)
<1> DEFINE unit(r) == [k \in 1 .. 2 |-> <<IF k = r THEN 1 ELSE 0, 1>>]
           a == Augmented(matrix)
<1>1. matrix \in [1 .. 2 -> [1 .. 2 -> Whole]] /\ n \in Int /\ s \in Int /\ w \in Int /\ DOMAIN matrix = 1 .. 2
  BY DEF IsNormal
<1>2. a = [r \in 1 .. 2 |-> matrix[r] \o unit(r)]
  BY <1>1 DEF Augmented
<1>3. \A r \in 1 .. 2 : unit(r) \in [1 .. 2 -> Whole]
  BY DEF Whole
<1>4. unit(1)[1] = <<1, 1>> /\ unit(1)[2] = <<0, 1>> /\ unit(2)[1] = <<0, 1>> /\ unit(2)[2] = <<1, 1>>
  OBVIOUS
<1> HIDE DEF unit, a
<1>5. \A r \in 1 .. 2 : /\ a[r] = [k \in 1 .. 4 |-> a[r][k]]
                        /\ a[r][1] = matrix[r][1] /\ a[r][2] = matrix[r][2]
                        /\ a[r][3] = unit(r)[1] /\ a[r][4] = unit(r)[2]
  <2> SUFFICES ASSUME NEW r \in 1 .. 2
               PROVE  /\ a[r] = [k \in 1 .. 4 |-> a[r][k]]
                      /\ a[r][1] = matrix[r][1] /\ a[r][2] = matrix[r][2]
                      /\ a[r][3] = unit(r)[1] /\ a[r][4] = unit(r)[2]
    OBVIOUS
  <2> DEFINE f == matrix[r]  g == unit(r)
  <2>1. f \in [1 .. 2 -> Whole] /\ g \in [1 .. 2 -> Whole] /\ a[r] = f \o g
    BY <1>1, <1>2, <1>3
  <2> HIDE DEF f, g
  <2>2. /\ f \o g = [k \in 1 .. 4 |-> (f \o g)[k]]
        /\ (f \o g)[1] = f[1] /\ (f \o g)[2] = f[2] /\ (f \o g)[3] = g[1] /\ (f \o g)[4] = g[2]
    BY <2>1, FourColumns
  <2>3. a[r] = [k \in 1 .. 4 |-> a[r][k]]
    <3> DEFINE b == f \o g
    <3>1. b = [k \in 1 .. 4 |-> b[k]] /\ a[r] = b
      BY <2>1, <2>2
    <3> HIDE DEF b
    <3> QED BY <3>1
  <2>4. a[r][1] = f[1] /\ a[r][2] = f[2] /\ a[r][3] = g[1] /\ a[r][4] = g[2]
    BY <2>1, <2>2
  <2> QED BY <2>3, <2>4 DEF f, g
<1>6. IsMatrix(a)
  BY <1>2, <1>5 DEF IsMatrix
<1>7. \A k \in 1 .. 4 : k = 1 \/ k = 2 \/ k = 3 \/ k = 4
  OBVIOUS
<1>8. /\ a[1][1] = <<n, 1>> /\ a[1][2] = <<s, 1>> /\ a[1][3] = <<1, 1>> /\ a[1][4] = <<0, 1>>
      /\ a[2][1] = <<s, 1>> /\ a[2][2] = <<w, 1>> /\ a[2][3] = <<0, 1>> /\ a[2][4] = <<1, 1>>
  BY <1>4, <1>5 DEF IsNormal
<1>9. Is(<<n, 1>>, n, 1) /\ Is(<<s, 1>>, s, 1) /\ Is(<<w, 1>>, w, 1) /\ Is(<<0, 1>>, 0, 1) /\ Is(<<1, 1>>, 1, 1)
  BY <1>1, IsWhole
<1>10. \A k \in 1 .. 4 : Is(a[1][k], Row(n, s, 1, 0)[k], 1)
  <2> DEFINE u == Row(n, s, 1, 0)
  <2>1. u[1] = n /\ u[2] = s /\ u[3] = 1 /\ u[4] = 0
    BY DEF Row
  <2> HIDE DEF u
  <2>2. Is(a[1][1], u[1], 1) /\ Is(a[1][2], u[2], 1) /\ Is(a[1][3], u[3], 1) /\ Is(a[1][4], u[4], 1)
    BY <1>8, <1>9, <2>1
  <2>3. \A k \in 1 .. 4 : Is(a[1][k], u[k], 1)
    BY <1>7, <2>2
  <2> QED BY <2>3 DEF u
<1>11. \A k \in 1 .. 4 : Is(a[2][k], Row(s, w, 0, 1)[k], 1)
  <2> DEFINE u == Row(s, w, 0, 1)
  <2>1. u[1] = s /\ u[2] = w /\ u[3] = 0 /\ u[4] = 1
    BY DEF Row
  <2> HIDE DEF u
  <2>2. Is(a[2][1], u[1], 1) /\ Is(a[2][2], u[2], 1) /\ Is(a[2][3], u[3], 1) /\ Is(a[2][4], u[4], 1)
    BY <1>8, <1>9, <2>1
  <2>3. \A k \in 1 .. 4 : Is(a[2][k], u[k], 1)
    BY <1>7, <2>2
  <2> QED BY <2>3 DEF u
<1> QED BY <1>6, <1>10, <1>11 DEF a

IsColumns(f, matrix, n) ==
  f = [c \in 0 .. n |-> IF c = 0 THEN Augmented(matrix) ELSE Reduced(f[c - 1], c)]

LEMMA InvertIsReduced ==
  ASSUME NEW matrix, Len(matrix) = 2
  PROVE  LET two == Reduced(Reduced(Augmented(matrix), 1), 2)
         IN invert(matrix) = IF two = Singular THEN Singular ELSE [r \in 1 .. 2 |-> SubSeq(two[r], 3, 4)]
<1> DEFINE zero == Augmented(matrix)  one == Reduced(zero, 1)  two == Reduced(one, 2)
           f == [c \in 0 .. 2 |-> IF c = 0 THEN zero ELSE IF c = 1 THEN one ELSE two]
           column == CHOOSE g : IsColumns(g, matrix, 2)
<1>1. \A c \in 0 .. 2 : c = 0 \/ (c = 1 /\ c - 1 = 0) \/ (c = 2 /\ c - 1 = 1)
  OBVIOUS
<1>2. IsColumns(f, matrix, 2)
  <2> HIDE DEF zero
  <2>1. \A c \in 0 .. 2 : f[c] = IF c = 0 THEN zero ELSE Reduced(f[c - 1], c)
    <3>1. f[0] = zero /\ f[1] = Reduced(f[0], 1) /\ f[2] = Reduced(f[1], 2)
      OBVIOUS
    <3> HIDE DEF f, one, two
    <3> QED BY <1>1, <3>1
  <2>2. f = [c \in 0 .. 2 |-> f[c]]
    OBVIOUS
  <2> HIDE DEF f, one, two
  <2> QED BY <2>1, <2>2 DEF IsColumns, zero
<1>3. IsColumns(column, matrix, 2)
  <2> HIDE DEF f
  <2> QED BY <1>2
<1>4. invert(matrix) = IF column[2] = Singular THEN Singular ELSE [r \in 1 .. 2 |-> SubSeq(column[2][r], 3, 4)]
  BY DEF invert, IsColumns
<1> HIDE DEF column, f
<1>5. column[0] = zero /\ column[1] = Reduced(column[0], 1) /\ column[2] = Reduced(column[1], 2)
  <2> HIDE DEF zero, one, two
  <2> QED BY <1>3 DEF IsColumns, zero
<1>6. column[2] = two
  BY <1>5
<1> HIDE DEF two
<1> QED BY <1>4, <1>6 DEF two

LEMMA LastColumns ==
  ASSUME NEW a, IsMatrix(a), NEW r \in 1 .. 2
  PROVE  SubSeq(a[r], 3, 4)[1] = a[r][3] /\ SubSeq(a[r], 3, 4)[2] = a[r][4]
<1> DEFINE s == a[r]  T == {a[r][k] : k \in 1 .. 4}
<1>1. s = [k \in 1 .. 4 |-> s[k]]
  BY DEF IsMatrix
<1>2. \A k \in 1 .. 4 : s[k] \in T
  OBVIOUS
<1> HIDE DEF s, T
<1>3. s \in [1 .. 4 -> T]
  BY <1>1, <1>2
<1>4. s \in Seq(T) /\ Len(s) = 4
  BY <1>3, FunctionLen
<1>5. \A i \in 1 .. 2 : SubSeq(s, 3, 4)[i] = s[3 + i - 1]
  BY <1>4, SubSeqProperties
<1>6. SubSeq(s, 3, 4)[1] = s[3] /\ SubSeq(s, 3, 4)[2] = s[4]
  BY <1>5
<1> QED BY <1>6 DEF s

LEMMA Negative ==
  ASSUME NEW q, NEW n, NEW d, Is(q, n, d)
  PROVE  Is(q, -n, -d)
<1>1. n \in Int /\ d \in Int \ {0}
  BY QuotientParts
<1>2. -n \in Int /\ -d \in Int \ {0} /\ n * (-d) = (-n) * d
  BY <1>1
<1> QED BY <1>2, IsSame

(* The larger entry of the first column is large enough, for it is no less *)
(* than the square of the unit.                                            *)
Larger(n, s) == IF Magnitude(s) < Magnitude(n) THEN n ELSE s

LEMMA LargeEnough ==
  ASSUME NEW v, NEW n, Is(v, n, 1), Tolerance[1] <= Magnitude(n) * Tolerance[2]
  PROVE  ~Less(Size(v), Tolerance)
<1> DEFINE t1 == Tolerance[1]  t2 == Tolerance[2]  m == Magnitude(n)
<1>1. t1 \in Nat /\ t2 \in Nat /\ m \in Nat /\ t1 <= m * t2
  BY RegressionAssumption, MagnitudeIs, QuotientParts
<1>2. Magnitude(1) = 1
  BY DEF Magnitude
<1> HIDE DEF t1, t2, m
<1>3. ~(m * t2 < t1 * 1)
  <2>1. m * t2 \in Int
    BY <1>1, ProductIsInt
  <2> QED BY <1>1, <2>1
<1> QED BY <1>2, <1>3, TooSmall DEF t1, t2, m

LEMMA InverseIs ==
  ASSUME NEW matrix, NEW n, NEW s, NEW w, IsNormal(matrix, n, s, w), n # 0,
         Tolerance[1] <= Magnitude(n) * Tolerance[2]
  PROVE  LET det == n * w - s * s  inverse == invert(matrix) IN
         /\ inverse = Singular <=> Negligible(det, Larger(n, s))
         /\ inverse # Singular => /\ Is(inverse[1][1], w, det) /\ Is(inverse[1][2], -s, det)
                                  /\ Is(inverse[2][1], -s, det) /\ Is(inverse[2][2], n, det)
<1> DEFINE det == n * w - s * s  inverse == invert(matrix)
           a == Augmented(matrix)  two == Reduced(Reduced(a, 1), 2)
           u == Row(n, s, 1, 0)  v == Row(s, w, 0, 1)
<1>1. /\ n \in Int /\ s \in Int /\ w \in Int
      /\ u \in [1 .. 4 -> Int] /\ u[1] = n /\ u[2] = s /\ u[3] = 1 /\ u[4] = 0
      /\ v \in [1 .. 4 -> Int] /\ v[1] = s /\ v[2] = w /\ v[3] = 0 /\ v[4] = 1
  <2>1. n \in Int /\ s \in Int /\ w \in Int /\ 0 \in Int /\ 1 \in Int
    BY DEF IsNormal
  <2>2. u \in [1 .. 4 -> Int] /\ u[1] = n /\ u[2] = s /\ u[3] = 1 /\ u[4] = 0
    BY <2>1 DEF Row
  <2>3. v \in [1 .. 4 -> Int] /\ v[1] = s /\ v[2] = w /\ v[3] = 0 /\ v[4] = 1
    BY <2>1 DEF Row
  <2> QED BY <2>1, <2>2, <2>3
<1>2. /\ IsMatrix(a)
      /\ \A k \in 1 .. 4 : Is(a[1][k], u[k], 1) /\ Is(a[2][k], v[k], 1)
  BY AugmentedIs
<1> HIDE DEF u, v
<1>3. inverse = IF two = Singular THEN Singular ELSE [r \in 1 .. 2 |-> SubSeq(two[r], 3, 4)]
  <2>1. Len(matrix) = 2
    BY FunctionLen DEF IsNormal
  <2> QED BY <2>1, InvertIsReduced
<1> HIDE DEF a, two, inverse
<1> DEFINE refused == Negligible(det, Larger(n, s))
           Inverted == /\ refused => two = Singular
                       /\ ~refused => /\ IsMatrix(two)
                                      /\ Is(two[1][3], w, det) /\ Is(two[1][4], -s, det)
                                      /\ Is(two[2][3], -s, det) /\ Is(two[2][4], n, det)
<1>4. n * w \in Int /\ s * s \in Int /\ w * n = n * w /\ det \in Int
  BY <1>1, ProductIsInt
<1>5. Inverted
  <2>0. 1 \in 1 .. 4 /\ 3 \in 1 .. 4 /\ 4 \in 1 .. 4 /\ 1 \in 1 .. 2 /\ 2 \in 1 .. 2
    OBVIOUS
  <2>1. Is(a[1][1], n, 1) /\ Is(a[2][1], s, 1)
    BY <1>1, <1>2, <2>0
  <2>2. \/ Pivot(a, 1) = 1 /\ Larger(n, s) = n
        \/ Pivot(a, 1) = 2 /\ Larger(n, s) = s /\ s # 0 /\ Magnitude(n) <= Magnitude(s)
    <3>1. Magnitude(n) \in Nat \ {0} /\ Magnitude(s) \in Nat /\ (Magnitude(s) = 0 <=> s = 0)
      BY <1>1, MagnitudeIs
    <3> QED BY <1>1, <1>2, <2>1, <3>1, FirstPivot DEF Larger
  <2>3. CASE Pivot(a, 1) = 1 /\ Larger(n, s) = n
    <3> DEFINE d == v[2] * u[1] - v[1] * u[2]
    <3>1. d = det
      BY <1>1, <1>4
    <3>4. ~Less(Size(a[1][1]), Tolerance)
      BY <2>1, LargeEnough
    <3>2. /\ Negligible(d, n) => two = Singular
          /\ ~Negligible(d, n) =>
                      /\ IsMatrix(two) /\ d # 0
                      /\ \A k \in 1 .. 4 : Is(two[1][k], u[k] * v[2] - u[2] * v[k], d)
                      /\ \A k \in 1 .. 4 : Is(two[2][k], v[k] * u[1] - v[1] * u[k], d)
      <4>1. u \in [1 .. 4 -> Int]
        BY <1>1
      <4>2. v \in [1 .. 4 -> Int]
        BY <1>1
      <4>3. u[1] # 0 /\ 1 # 2
        BY <1>1
      <4>4. Pivot(a, 1) = 1 /\ IsMatrix(a)
        BY <1>2, <2>3
      <4>5. \A k \in 1 .. 4 : Is(a[1][k], u[k], 1) /\ Is(a[2][k], v[k], 1)
        BY <1>2
      <4>6. /\ Negligible(d, u[1]) => two = Singular
            /\ ~Negligible(d, u[1]) =>
                        /\ IsMatrix(two) /\ d # 0
                        /\ \A k \in 1 .. 4 : Is(two[1][k], u[k] * v[2] - u[2] * v[k], d)
                        /\ \A k \in 1 .. 4 : Is(two[2][k], v[k] * u[1] - v[1] * u[k], d)
        BY <2>0, <3>4, <4>1, <4>2, <4>3, <4>4, <4>5, BothColumns DEF two
      <4>7. u[1] = n
        BY <1>1
      <4> QED BY <4>6, <4>7
    <3>3. /\ u[3] * v[2] - u[2] * v[3] = w /\ u[4] * v[2] - u[2] * v[4] = -s
          /\ v[3] * u[1] - v[1] * u[3] = -s /\ v[4] * u[1] - v[1] * u[4] = n
      BY <1>1
    <3> HIDE DEF d
    <3> QED BY <2>0, <2>3, <3>1, <3>2, <3>3
  <2>4. CASE Pivot(a, 1) = 2 /\ Larger(n, s) = s /\ s # 0 /\ Magnitude(n) <= Magnitude(s)
    <3> DEFINE d == u[2] * v[1] - u[1] * v[2]
    <3>1. d = -det
      BY <1>1, <1>4
    <3>0. ~Less(Size(a[2][1]), Tolerance)
      <4>1. Tolerance[1] <= Magnitude(s) * Tolerance[2]
        <5> DEFINE t1 == Tolerance[1]  t2 == Tolerance[2]  m1 == Magnitude(n)  m2 == Magnitude(s)
        <5>1. t1 \in Int /\ t2 \in Nat /\ m1 \in Int /\ m2 \in Int /\ m1 <= m2 /\ t1 <= m1 * t2
          BY <1>1, <2>4, RegressionAssumption, MagnitudeIs
        <5> HIDE DEF t1, t2, m1, m2
        <5>2. m1 * t2 <= m2 * t2 /\ m1 * t2 \in Int /\ m2 * t2 \in Int
          BY <5>1, LeTimes, ProductIsInt
        <5>3. t1 <= m2 * t2
          BY <5>1, <5>2
        <5> QED BY <5>3 DEF t1, t2, m2
      <4> QED BY <2>1, <4>1, LargeEnough
    <3>2. /\ Negligible(d, s) => two = Singular
          /\ ~Negligible(d, s) =>
                      /\ IsMatrix(two) /\ d # 0
                      /\ \A k \in 1 .. 4 : Is(two[1][k], v[k] * u[2] - v[2] * u[k], d)
                      /\ \A k \in 1 .. 4 : Is(two[2][k], u[k] * v[1] - u[1] * v[k], d)
      <4>1. u \in [1 .. 4 -> Int]
        BY <1>1
      <4>2. v \in [1 .. 4 -> Int]
        BY <1>1
      <4>3. v[1] # 0 /\ 2 # 1
        BY <1>1, <2>4
      <4>4. Pivot(a, 1) = 2 /\ IsMatrix(a)
        BY <1>2, <2>4
      <4>5. \A k \in 1 .. 4 : Is(a[2][k], v[k], 1) /\ Is(a[1][k], u[k], 1)
        BY <1>2
      <4>6. /\ Negligible(d, v[1]) => two = Singular
            /\ ~Negligible(d, v[1]) =>
                        /\ IsMatrix(two) /\ d # 0
                        /\ \A k \in 1 .. 4 : Is(two[1][k], v[k] * u[2] - v[2] * u[k], d)
                        /\ \A k \in 1 .. 4 : Is(two[2][k], u[k] * v[1] - u[1] * v[k], d)
        BY <2>0, <3>0, <4>1, <4>2, <4>3, <4>4, <4>5, BothColumns DEF two
      <4>7. v[1] = s
        BY <1>1
      <4> QED BY <4>6, <4>7
    <3>3. /\ v[3] * u[2] - v[2] * u[3] = -w /\ v[4] * u[2] - v[2] * u[4] = s
          /\ u[3] * v[1] - u[1] * v[3] = s /\ u[4] * v[1] - u[1] * v[4] = -n
      BY <1>1
    <3> HIDE DEF d, det
    <3>4. -d = det /\ -(-w) = w /\ -(-n) = n
      BY <1>1, <1>4, <3>1
    <3>6. Negligible(d, s) <=> refused
      <4>1. Magnitude(d) = Magnitude(det)
        BY <1>4, <3>1 DEF Magnitude
      <4> QED BY <2>4, <4>1 DEF Negligible
    <3>5. ASSUME ~Negligible(d, s)
          PROVE  /\ IsMatrix(two)
                 /\ Is(two[1][3], -w, d) /\ Is(two[1][4], s, d) /\ Is(two[2][3], s, d) /\ Is(two[2][4], -n, d)
      BY <2>0, <3>2, <3>3, <3>5
    <3> QED BY <3>2, <3>4, <3>5, <3>6, Negative
  <2> QED BY <2>2, <2>3, <2>4
<1> HIDE DEF det, refused
<1>6. ASSUME ~refused
      PROVE  /\ inverse # Singular
             /\ Is(inverse[1][1], w, det) /\ Is(inverse[1][2], -s, det)
             /\ Is(inverse[2][1], -s, det) /\ Is(inverse[2][2], n, det)
  <2>1. IsMatrix(two) /\ two # Singular
    BY <1>5, <1>6, MatrixIsNot
  <2>2. inverse = [r \in 1 .. 2 |-> SubSeq(two[r], 3, 4)]
    BY <1>3, <2>1
  <2>3. inverse # Singular
    <3>1. DOMAIN inverse = 1 .. 2 /\ 1 \in 1 .. 2
      BY <2>2
    <3>2. DOMAIN Singular = {}
      BY EmptySeq DEF Singular
    <3> QED BY <3>1, <3>2
  <2>4. \A r \in 1 .. 2 : inverse[r][1] = two[r][3] /\ inverse[r][2] = two[r][4]
    BY <2>1, <2>2, LastColumns
  <2> QED BY <1>5, <1>6, <2>3, <2>4
<1> QED BY <1>3, <1>5, <1>6 DEF det, inverse, refused

(* The fit of one predictor.                                               *)
Fitted(a, b) == Len(a) = Len(b) /\ check_finite(a) /\ check_finite(b) /\ Len(a) > 2
Singles(a) == [i \in DOMAIN a |-> <<a[i]>>]
Estimates(matrix, m1, m2, fit) ==
  IF invert(matrix) = Singular THEN fit = NoFit("Singular")
  ELSE /\ fit.error = ""
       /\ \A k \in 1 .. 2 : \E q : /\ fit.coefficients[k] = Altogether(q) /\ Len(q) = 2
                                   /\ q[1] = Times(invert(matrix)[k][1], <<m1, 1>>)
                                   /\ q[2] = Times(invert(matrix)[k][2], <<m2, 1>>)

LEMMA SinglesAre ==
  ASSUME NEW S, NEW a \in Seq(S)
  PROVE  /\ Len(a) \in Nat /\ DOMAIN Singles(a) = 1 .. Len(a) /\ Len(Singles(a)) = Len(a)
         /\ \A i \in 1 .. Len(a) : /\ Singles(a)[i] = <<a[i]>> /\ Len(Singles(a)[i]) = 1
                                   /\ check_finite(Singles(a)[i]) <=> a[i] # NotFinite
<1> DEFINE n == Len(a)  r == Singles(a)  T == {<<a[i]>> : i \in 1 .. n}
<1>1. n \in Nat /\ DOMAIN a = 1 .. n
  BY LenProperties
<1> HIDE DEF n
<1>2. r = [i \in 1 .. n |-> <<a[i]>>]
  BY <1>1 DEF Singles
<1> HIDE DEF r
<1>3. r \in [1 .. n -> T]
  BY <1>2
<1>4. Len(r) = n
  <2> HIDE DEF T
  <2> QED BY <1>1, <1>3, FunctionLen
<1>5. \A v : Len(<<v>>) = 1 /\ (check_finite(<<v>>) <=> v # NotFinite)
  <2> TAKE v
  <2>1. Len(<<v>>) = 1 /\ DOMAIN <<v>> = {1} /\ <<v>>[1] = v
    OBVIOUS
  <2> DEFINE w == <<v>>
  <2>2. Len(w) = 1 /\ DOMAIN w = {1} /\ w[1] = v
    BY <2>1
  <2> HIDE DEF w
  <2>3. check_finite(w) <=> w[1] # NotFinite
    BY <2>2 DEF check_finite
  <2> QED BY <2>2, <2>3 DEF w
<1>6. \A i \in 1 .. n : r[i] = <<a[i]>> /\ Len(r[i]) = 1 /\ (check_finite(r[i]) <=> a[i] # NotFinite)
  BY <1>2, <1>5
<1> QED BY <1>1, <1>2, <1>4, <1>6 DEF n, r

LEMMA ConstantTotal ==
  ASSUME NEW n \in Nat, NEW k \in Int, NEW s \in [1 .. n -> Int], \A i \in 1 .. n : s[i] = k
  PROVE  Total(s) = k * n
<1>1. Combines(s, n, 0, s, 0, s, 0, s, k)
  <2>1. \A i \in 1 .. n : s[i] = 0 * s[i] + 0 * s[i] + 0 * s[i] + k
    OBVIOUS
  <2> QED BY <2>1 DEF Combines
<1>2. Total(s) = 0 * Total(s) + 0 * Total(s) + 0 * Total(s) + k * n
  BY <1>1, LinearSum
<1>3. Total(s) \in Int /\ k * n \in Int
  BY TotalSums
<1> QED BY <1>2, <1>3

LEMMA OlsIs ==
  ASSUME NEW a \in Seq(Observations \cup {NotFinite}), NEW b \in Seq(Observations \cup {NotFinite})
  PROVE  LET fit == ols(Singles(a), b) IN
         /\ fit.error \in {"", "Singular"} => Fitted(a, b)
         /\ Fitted(a, b) => \E matrix : /\ IsNormal(matrix, (Unit * Unit) * Len(a), Unit * Total(a), Total(Products(a, a)))
                                        /\ Estimates(matrix, Unit * Total(b), Total(Products(a, b)), fit)
<1> DEFINE rows == Singles(a)  y1 == b
           parameters == (IF rows = <<>> THEN 0 ELSE Len(rows[1])) + 1
           design == [i \in DOMAIN rows |-> <<Unit>> \o rows[i]]
           column(c) == [i \in DOMAIN rows |-> design[i][c]]
           xtx == [c \in 1 .. parameters |-> [d \in 1 .. parameters |-> <<Total(Products(column(c), column(d))), 1>>]]
           xty == [c \in 1 .. parameters |-> Total(Products(column(c), b))]
           product(row) == Altogether([c \in 1 .. parameters |-> Times(row[c], <<xty[c], 1>>)])
           bad == {i \in DOMAIN rows : Len(rows[i]) # parameters - 1 \/ ~check_finite(rows[i])}
           fit == ols(rows, b)
           n == Len(a)
<1>1. fit = IF Len(rows) # Len(b) THEN NoFit("LengthMismatch")
            ELSE IF ~check_finite(b) THEN NoFit("NotFinite")
            ELSE IF bad # {} THEN NoFit(IF Len(rows[Min(bad)]) # parameters - 1 THEN "LengthMismatch" ELSE "NotFinite")
            ELSE IF Len(rows) <= parameters THEN NoFit("TooFewObservations")
            ELSE IF invert(xtx) = Singular THEN NoFit("Singular")
            ELSE [error |-> "", coefficients |-> [c \in 1 .. parameters |-> product(invert(xtx)[c])]]
  BY DEF ols
<1>2. /\ n \in Nat /\ DOMAIN rows = 1 .. n /\ Len(rows) = n
      /\ \A i \in 1 .. n : rows[i] = <<a[i]>> /\ Len(rows[i]) = 1 /\ (check_finite(rows[i]) <=> a[i] # NotFinite)
  BY SinglesAre
<1>3. \A e : NoFit(e).error = e
  BY DEF NoFit
<1> HIDE DEF fit, xtx, product, n, rows
<1>4. parameters = (IF n = 0 THEN 1 ELSE 2)
  <2>1. CASE n = 0
    <3>1. rows = <<>>
      <4>1. rows = [i \in DOMAIN a |-> <<a[i]>>] /\ DOMAIN a = 1 .. n
        BY LenProperties DEF rows, Singles, n
      <4>2. 1 .. n = {}
        BY <2>1
      <4> DEFINE T == {0}  e == [i \in DOMAIN a |-> <<a[i]>>]
      <4>3. e \in [1 .. 0 -> T]
        BY <2>1, <4>1, <4>2
      <4> HIDE DEF e, T
      <4>4. e \in Seq(T) /\ Len(e) = 0
        BY <4>3, FunctionLen
      <4>5. e = <<>>
        BY <4>4, EmptySeq
      <4> QED BY <4>1, <4>5 DEF e
    <3> QED BY <2>1, <3>1
  <2>2. CASE n # 0
    <3>1. 1 \in 1 .. n
      BY <1>2, <2>2
    <3>2. DOMAIN <<>> = {}
      BY EmptySeq
    <3>3. rows # <<>> /\ Len(rows[1]) = 1
      BY <1>2, <3>1, <3>2
    <3> QED BY <2>2, <3>3
  <2> QED BY <2>1, <2>2
<1> HIDE DEF parameters
<1>5. bad = {} <=> check_finite(a)
  <2>1. DOMAIN a = 1 .. n
    BY LenProperties DEF n
  <2>2. ASSUME NEW i \in 1 .. n PROVE Len(rows[i]) = parameters - 1
    <3> HIDE DEF bad
    <3>1. n # 0
      BY <1>2
    <3>2. parameters = 2
      BY <1>4, <3>1
    <3>3. Len(rows[i]) = 1
      BY <1>2
    <3> QED BY <3>2, <3>3
  <2> QED BY <1>2, <2>1, <2>2 DEF check_finite
<1> HIDE DEF bad
<1>6. ASSUME fit.error \in {"", "Singular"} PROVE Fitted(a, b)
  <2> DEFINE few == Len(rows) <= parameters  unlike == Len(rows) # Len(b)
             other == IF Len(rows[Min(bad)]) # parameters - 1 THEN "LengthMismatch" ELSE "NotFinite"
             found == IF few THEN NoFit("TooFewObservations")
                      ELSE IF invert(xtx) = Singular THEN NoFit("Singular")
                      ELSE [error |-> "", coefficients |-> [c \in 1 .. parameters |-> product(invert(xtx)[c])]]
  <2>0. fit = IF unlike THEN NoFit("LengthMismatch")
              ELSE IF ~check_finite(b) THEN NoFit("NotFinite")
              ELSE IF bad # {} THEN NoFit(other) ELSE found
    BY <1>1
  <2>31. few => found.error = "TooFewObservations"
    BY <1>3
  <2>32. other \in {"LengthMismatch", "NotFinite"}
    OBVIOUS
  <2> HIDE DEF few, unlike, other, found
  <2>33. ~unlike
    <3> SUFFICES ASSUME unlike PROVE FALSE
      OBVIOUS
    <3>1. fit.error = "LengthMismatch"
      BY <1>3, <2>0
    <3> QED BY <1>6, <3>1
  <2>34. check_finite(b)
    <3> SUFFICES ASSUME ~check_finite(b) PROVE FALSE
      OBVIOUS
    <3>1. fit.error = "NotFinite"
      BY <1>3, <2>0, <2>33
    <3> QED BY <1>6, <3>1
  <2>35. bad = {}
    <3> SUFFICES ASSUME bad # {} PROVE FALSE
      OBVIOUS
    <3>1. fit.error = other
      BY <1>3, <2>0, <2>33, <2>34
    <3> QED BY <1>6, <2>32, <3>1
  <2>36. ~few
    <3> SUFFICES ASSUME few PROVE FALSE
      OBVIOUS
    <3>1. fit.error = "TooFewObservations"
      BY <2>0, <2>31, <2>33, <2>34, <2>35
    <3> QED BY <1>6, <3>1
  <2>1. Len(rows) = Len(b) /\ check_finite(b) /\ bad = {} /\ ~(Len(rows) <= parameters)
    BY <2>33, <2>34, <2>35, <2>36 DEF few, unlike
  <2>2. n > 2
    BY <1>2, <1>4, <2>1
  <2> QED BY <1>2, <1>5, <2>1, <2>2 DEF Fitted, n
<1>7. ASSUME Fitted(a, b)
      PROVE  /\ IsNormal(xtx, (Unit * Unit) * n, Unit * Total(a), Total(Products(a, a)))
             /\ Estimates(xtx, Unit * Total(b), Total(Products(a, b)), fit)
  <2>1. n > 2 /\ parameters = 2 /\ a \in [1 .. n -> Int] /\ b \in [1 .. n -> Int] /\ Len(b) = n
    BY <1>2, <1>4, <1>7, FiniteIsInt DEF Fitted, n
  <2> DEFINE units == [i \in 1 .. n |-> Unit]
  <2>2. column(1) = units /\ column(2) = a
    <3>1. \A u, v : (<<u>> \o <<v>>)[1] = u /\ (<<u>> \o <<v>>)[2] = v
      OBVIOUS
    <3>2. ASSUME NEW i \in 1 .. n PROVE design[i][1] = Unit /\ design[i][2] = a[i]
      <4>1. design[i] = <<Unit>> \o rows[i]
        BY <1>2
      <4> HIDE DEF design
      <4>2. rows[i] = <<a[i]>>
        BY <1>2
      <4>3. design[i] = <<Unit>> \o <<a[i]>>
        BY <4>1, <4>2
      <4>4. (<<Unit>> \o <<a[i]>>)[1] = Unit /\ (<<Unit>> \o <<a[i]>>)[2] = a[i]
        BY <3>1
      <4> QED BY <4>3, <4>4, Zenon
    <3> HIDE DEF design
    <3>3. a = [i \in 1 .. n |-> a[i]]
      BY <2>1
    <3> QED BY <1>2, <3>2, <3>3
  <2> HIDE DEF column
  <2>0. Unit \in Int /\ Unit * Unit \in Int
    BY RegressionAssumption, ProductIsInt
  <2>3. units \in [1 .. n -> Int] /\ DOMAIN units = 1 .. n /\ \A i \in 1 .. n : units[i] = Unit
    BY <2>0
  <2> HIDE DEF units
  <2>4. /\ Total(Products(units, units)) = (Unit * Unit) * n
        /\ Total(Products(units, a)) = Unit * Total(a) /\ Total(Products(a, units)) = Unit * Total(a)
        /\ Total(Products(units, b)) = Unit * Total(b)
        /\ Products(a, a) \in [1 .. n -> Int] /\ Products(a, b) \in [1 .. n -> Int]
    <3> DEFINE uu == Products(units, units)  ua == Products(units, a)  au == Products(a, units)  ub == Products(units, b)
    <3>1. /\ uu \in [1 .. n -> Int] /\ \A i \in 1 .. n : uu[i] = units[i] * units[i]
          /\ ua \in [1 .. n -> Int] /\ \A i \in 1 .. n : ua[i] = units[i] * a[i]
          /\ au \in [1 .. n -> Int] /\ \A i \in 1 .. n : au[i] = a[i] * units[i]
          /\ ub \in [1 .. n -> Int] /\ \A i \in 1 .. n : ub[i] = units[i] * b[i]
          /\ Products(a, a) \in [1 .. n -> Int] /\ Products(a, b) \in [1 .. n -> Int]
      BY <1>2, <2>1, <2>3, SpreadOf
    <3> HIDE DEF uu, ua, au, ub
    <3>2. \A i \in 1 .. n : uu[i] = Unit * Unit /\ ua[i] = Unit * a[i] /\ ub[i] = Unit * b[i]
      BY <2>3, <3>1
    <3>3. \A i \in 1 .. n : au[i] = Unit * a[i]
      <4>1. \A k \in Int : k * Unit = Unit * k
        BY <2>0
      <4> QED BY <2>1, <2>3, <3>1, <4>1
    <3>4. Total(uu) = (Unit * Unit) * n
      BY <1>2, <2>0, <3>1, <3>2, ConstantTotal
    <3>5. Total(ua) = Unit * Total(a) /\ Total(au) = Unit * Total(a) /\ Total(ub) = Unit * Total(b)
      <4> HIDE DEF n
      <4>0. n \in Nat
        BY <1>2
      <4>1. Total(ua) = Unit * Total(a)
        <5>1. \A i \in 1 .. n : ua[i] = Unit * a[i]
          BY <3>2
        <5>2. ua \in [1 .. n -> Int]
          BY <3>1
        <5> QED BY <2>0, <2>1, <4>0, <5>1, <5>2, ScaledTotal
      <4>2. Total(au) = Unit * Total(a)
        BY <2>0, <2>1, <3>1, <3>3, <4>0, ScaledTotal
      <4>3. Total(ub) = Unit * Total(b)
        <5>1. \A i \in 1 .. n : ub[i] = Unit * b[i]
          BY <3>2
        <5>2. ub \in [1 .. n -> Int]
          BY <3>1
        <5> QED BY <2>0, <2>1, <4>0, <5>1, <5>2, ScaledTotal
      <4> QED BY <4>1, <4>2, <4>3
    <3> QED BY <3>1, <3>4, <3>5 DEF uu, ua, au, ub
  <2>5. /\ (Unit * Unit) * n \in Int /\ Unit * Total(a) \in Int /\ Unit * Total(b) \in Int
        /\ Total(Products(a, a)) \in Int /\ Total(Products(a, b)) \in Int
    <3>1. Total(a) \in Int /\ Total(b) \in Int /\ Total(Products(a, a)) \in Int /\ Total(Products(a, b)) \in Int
      BY <1>2, <2>1, <2>4, TotalSums
    <3> QED BY <1>2, <2>0, <3>1, ProductIsInt
  <2>6. /\ xtx = [c \in 1 .. 2 |-> [d \in 1 .. 2 |-> <<Total(Products(column(c), column(d))), 1>>]]
        /\ \A row : product(row) = Altogether([c \in 1 .. 2 |-> Times(row[c], <<xty[c], 1>>)])
        /\ xty[1] = Unit * Total(b) /\ xty[2] = Total(Products(a, b))
    <3>1. xty = [c \in 1 .. 2 |-> Total(Products(column(c), b))]
      BY <2>1
    <3>2. 1 \in 1 .. 2 /\ 2 \in 1 .. 2
      OBVIOUS
    <3>3. xty[1] = Unit * Total(b) /\ xty[2] = Total(Products(a, b))
      BY <2>2, <2>4, <3>1, <3>2
    <3>4. xtx = [c \in 1 .. 2 |-> [d \in 1 .. 2 |-> <<Total(Products(column(c), column(d))), 1>>]]
      BY <2>1 DEF xtx
    <3> HIDE DEF xty
    <3>5. \A row : product(row) = Altogether([c \in 1 .. 2 |-> Times(row[c], <<xty[c], 1>>)])
      BY <2>1 DEF product
    <3> QED BY <3>3, <3>4, <3>5
  <2> HIDE DEF xty
  <2>7. IsNormal(xtx, (Unit * Unit) * n, Unit * Total(a), Total(Products(a, a)))
    <3>1. 1 \in 1 .. 2 /\ 2 \in 1 .. 2 /\ \A c \in 1 .. 2 : c = 1 \/ c = 2
      OBVIOUS
    <3>2. \A c, d \in 1 .. 2 : Total(Products(column(c), column(d))) \in Int
      BY <1>2, <2>2, <2>4, <2>5, <3>1
    <3>3. xtx \in [1 .. 2 -> [1 .. 2 -> Whole]]
      BY <2>6, <3>2 DEF Whole
    <3>4. \A c, d \in 1 .. 2 : xtx[c][d] = <<Total(Products(column(c), column(d))), 1>>
      BY <2>6
    <3>5. /\ xtx[1][1] = <<(Unit * Unit) * n, 1>> /\ xtx[1][2] = <<Unit * Total(a), 1>>
          /\ xtx[2][1] = <<Unit * Total(a), 1>> /\ xtx[2][2] = <<Total(Products(a, a)), 1>>
      BY <2>2, <2>4, <2>5, <3>1, <3>4
    <3> QED BY <2>5, <3>3, <3>5 DEF IsNormal
  <2>8. Estimates(xtx, Unit * Total(b), Total(Products(a, b)), fit)
    <3>1. fit = IF invert(xtx) = Singular THEN NoFit("Singular")
                ELSE [error |-> "", coefficients |-> [c \in 1 .. 2 |-> product(invert(xtx)[c])]]
      <4>1. Len(rows) = Len(b) /\ check_finite(b) /\ bad = {} /\ ~(Len(rows) <= parameters)
        BY <1>2, <1>5, <1>7, <2>1 DEF Fitted, n
      <4> QED BY <1>1, <2>1, <4>1
    <3>2. ASSUME invert(xtx) # Singular, NEW k \in 1 .. 2
          PROVE  \E q : /\ fit.coefficients[k] = Altogether(q) /\ Len(q) = 2
                        /\ q[1] = Times(invert(xtx)[k][1], <<Unit * Total(b), 1>>)
                        /\ q[2] = Times(invert(xtx)[k][2], <<Total(Products(a, b)), 1>>)
      <4> DEFINE row == invert(xtx)[k]  q == [c \in 1 .. 2 |-> Times(row[c], <<xty[c], 1>>)]
                 T == {Times(row[c], <<xty[c], 1>>) : c \in 1 .. 2}
      <4>1. fit.coefficients[k] = product(row)
        BY <3>1, <3>2
      <4>2. product(row) = Altogether(q)
        BY <2>6
      <4>3. q \in [1 .. 2 -> T]
        OBVIOUS
      <4>4. q[1] = Times(row[1], <<xty[1], 1>>) /\ q[2] = Times(row[2], <<xty[2], 1>>)
        OBVIOUS
      <4> HIDE DEF q, T, row
      <4>5. Len(q) = 2
        BY <4>3, FunctionLen
      <4>6. /\ fit.coefficients[k] = Altogether(q) /\ Len(q) = 2
            /\ q[1] = Times(row[1], <<Unit * Total(b), 1>>) /\ q[2] = Times(row[2], <<Total(Products(a, b)), 1>>)
        BY <2>6, <4>1, <4>2, <4>4, <4>5
      <4> QED BY <4>6 DEF row
    <3>3. invert(xtx) # Singular => fit.error = ""
      BY <3>1
    <3> QED BY <3>1, <3>2, <3>3 DEF Estimates
  <2> QED BY <2>7, <2>8
<1> QED BY <1>6, <1>7 DEF fit, rows, n

LEMMA CoefficientIs ==
  ASSUME NEW a, NEW u, NEW b, NEW v, NEW d, Is(a, u, d), Is(b, v, d), NEW m1 \in Int, NEW m2 \in Int,
         NEW q, Len(q) = 2, q[1] = Times(a, <<m1, 1>>), q[2] = Times(b, <<m2, 1>>)
  PROVE  Is(Altogether(q), u * m1 + v * m2, d)
<1> DEFINE s == [k \in 1 .. 2 |-> IF k = 1 THEN u * m1 ELSE v * m2]
<1>1. u \in Int /\ v \in Int /\ d \in Int \ {0} /\ d * 1 = d
  BY QuotientParts
<1>2. u * m1 \in Int /\ v * m2 \in Int
  BY <1>1, ProductIsInt
<1>3. s \in [1 .. 2 -> Int] /\ s[1] = u * m1 /\ s[2] = v * m2
  BY <1>2
<1>4. Is(Times(a, <<m1, 1>>), u * m1, d * 1) /\ Is(Times(b, <<m2, 1>>), v * m2, d * 1)
  BY IsWhole, TimesIs
<1> HIDE DEF s
<1>5. \A k \in 1 .. 2 : Is(q[k], s[k], d)
  <2>1. Is(q[1], s[1], d) /\ Is(q[2], s[2], d)
    BY <1>1, <1>3, <1>4
  <2>2. \A k \in 1 .. 2 : k = 1 \/ k = 2
    OBVIOUS
  <2> QED BY <2>1, <2>2
<1>6. Is(Altogether(q), Total(s), d)
  <2>1. 2 \in Nat
    OBVIOUS
  <2> QED BY <1>1, <1>3, <1>5, <2>1, AltogetherIs
<1>7. Total(s) = u * m1 + v * m2
  <2>1. PICK t : /\ t \in [0 .. 2 -> Int] /\ t[0] = 0 /\ t[2] = Total(s)
                 /\ \A i \in 1 .. 2 : t[i] = t[i - 1] + s[i]
    BY <1>3, TotalSums
  <2>2. t[1] = t[0] + s[1] /\ t[2] = t[1] + s[2]
    BY <2>1
  <2> DEFINE e == u * m1  g == v * m2
  <2>3. e \in Int /\ g \in Int /\ s[1] = e /\ s[2] = g
    BY <1>2, <1>3
  <2> HIDE DEF e, g
  <2>4. t[2] = e + g
    BY <2>1, <2>2, <2>3
  <2> QED BY <2>1, <2>4 DEF e, g
<1> QED BY <1>6, <1>7

(* What a line leaves of an observation.                                   *)
LEMMA ResidualIs ==
  ASSUME NEW p1, NEW u, NEW p2, NEW v, NEW d, Is(p1, u, d), Is(p2, v, d), NEW a \in Int, NEW b \in Int
  PROVE  Is(Minus(<<b, 1>>, Plus(p1, Times(p2, <<a, 1>>))), d * b - v * a - u, d)
<1>1. u \in Int /\ v \in Int /\ d \in Int \ {0} /\ d * 1 = d
  BY QuotientParts
<1>2. v * a \in Int /\ d * b \in Int /\ b * d = d * b
  BY <1>1, ProductIsInt
<1> DEFINE r == Times(p2, <<a, 1>>)  w == v * a  e == d * b
<1>3. Is(r, w, d)
  <2>1. Is(r, w, d * 1)
    BY IsWhole, TimesIs
  <2> QED BY <1>1, <2>1
<1>4. w \in Int /\ e \in Int /\ b * d = e
  BY <1>2
<1> HIDE DEF r, w, e
<1>5. Is(Plus(p1, r), u + w, d)
  <2>1. Is(Plus(p1, r), u * d + w * d, d * d)
    BY <1>3, PlusIs
  <2>2. (u * d + w * d) * d = (u + w) * (d * d) /\ u + w \in Int
    BY <1>1, <1>4
  <2> QED BY <1>1, <2>1, <2>2, IsSame
<1> DEFINE z == Plus(p1, r)  m == u + w
<1>6. Is(z, m, d) /\ m \in Int
  BY <1>1, <1>4, <1>5
<1>7. e - m = e - w - u
  BY <1>1, <1>4
<1> HIDE DEF z, m
<1>8. Is(Minus(<<b, 1>>, z), b * d - m * 1, 1 * d)
  BY <1>6, IsWhole, PlusIs
<1>9. b * d - m * 1 = e - m /\ 1 * d = d
  BY <1>1, <1>4, <1>6
<1> QED BY <1>7, <1>8, <1>9 DEF e, w, z, r

LEMMA ZeroSum ==
  ASSUME NEW n \in Nat, NEW q, q = [i \in 1 .. n |-> q[i]], NEW s \in [1 .. n -> Int], NEW d \in Int \ {0},
         \A i \in 1 .. n : Is(q[i], s[i], d), Total(s) = 0
  PROVE  Altogether(q)[1] = 0
<1> DEFINE T == {q[i] : i \in 1 .. n}
<1>1. q \in [1 .. n -> T]
  OBVIOUS
<1> HIDE DEF T
<1>2. Len(q) = n
  BY <1>1, FunctionLen
<1>3. Is(Altogether(q), Total(s), d)
  BY <1>2, AltogetherIs
<1> QED BY <1>3, IsZero

(* The normal equations, solved.                                           *)
LEMMA NormalEquations ==
  ASSUME NEW n \in Int, NEW s \in Int, NEW w \in Int, NEW m1 \in Int, NEW m2 \in Int
  PROVE  LET d == n * w - s * s  u == w * m1 + (-s) * m2  v == (-s) * m1 + n * m2 IN
         /\ d * m1 + (0 - v) * s + (0 - u) * n = 0
         /\ d * m2 + (0 - v) * w + (0 - u) * s = 0
<1> DEFINE d == n * w - s * s  u == w * m1 + (-s) * m2  v == (-s) * m1 + n * m2
<1>1. d * m1 + (0 - v) * s + (0 - u) * n = 0
  OBVIOUS
<1>2. d * m2 + (0 - v) * w + (0 - u) * s = 0
  OBVIOUS
<1> QED BY <1>1, <1>2

Residuals(a, b, n, p1, p2) == [i \in 1 .. n |-> Minus(<<b[i], 1>>, Plus(p1, Times(p2, <<a[i], 1>>)))]
Weighted(q, a, n) == [i \in 1 .. n |-> Times(q[i], <<a[i], 1>>)]

LEMMA ResidualsVanish ==
  ASSUME NEW n \in Nat, NEW a \in [1 .. n -> Int], NEW b \in [1 .. n -> Int],
         NEW p1, NEW u, NEW p2, NEW v, NEW d, Is(p1, u, d), Is(p2, v, d),
         d * Total(b) + (0 - v) * Total(a) + (0 - u) * n = 0,
         d * Total(Products(a, b)) + (0 - v) * Total(Products(a, a)) + (0 - u) * Total(a) = 0,
         NEW q, q = Residuals(a, b, n, p1, p2)
  PROVE  Altogether(q)[1] = 0 /\ Altogether(Weighted(q, a, n))[1] = 0
<1> DEFINE s == [i \in 1 .. n |-> d * b[i] - v * a[i] - u]
           z == [i \in 1 .. n |-> s[i] * a[i]]
           aa == Products(a, a)  ab == Products(a, b)
           t == [i \in 1 .. n |-> Times(q[i], <<a[i], 1>>)]
<1>0. q = [i \in 1 .. n |-> Minus(<<b[i], 1>>, Plus(p1, Times(p2, <<a[i], 1>>)))]
  BY DEF Residuals
<1>1. u \in Int /\ v \in Int /\ d \in Int \ {0} /\ d \in Int
  BY QuotientParts
<1>2. /\ aa \in [1 .. n -> Int] /\ ab \in [1 .. n -> Int]
      /\ \A i \in 1 .. n : aa[i] = a[i] * a[i] /\ ab[i] = a[i] * b[i]
  BY SpreadOf
<1>3. /\ \A i \in 1 .. n : s[i] \in Int /\ s[i] = d * b[i] + (0 - v) * a[i] + 0 * a[i] + (0 - u)
      /\ \A i \in 1 .. n : z[i] \in Int /\ z[i] = d * ab[i] + (0 - v) * aa[i] + (0 - u) * a[i] + 0
  <2> SUFFICES ASSUME NEW i \in 1 .. n
               PROVE  /\ s[i] \in Int /\ s[i] = d * b[i] + (0 - v) * a[i] + 0 * a[i] + (0 - u)
                      /\ z[i] \in Int /\ z[i] = d * ab[i] + (0 - v) * aa[i] + (0 - u) * a[i] + 0
    OBVIOUS
  <2> DEFINE e == a[i]  f == b[i]
  <2>1. e \in Int /\ f \in Int /\ s[i] = d * f - v * e - u /\ z[i] = s[i] * e /\ aa[i] = e * e /\ ab[i] = e * f
    BY <1>2
  <2> HIDE DEF e, f, s, z, aa, ab
  <2>2. d * f \in Int /\ v * e \in Int
    BY <1>1, <2>1, ProductIsInt
  <2>3. d * f - v * e - u = d * f + (0 - v) * e + 0 * e + (0 - u) /\ d * f - v * e - u \in Int
    BY <1>1, <2>1, <2>2
  <2>4. s[i] * e \in Int
    BY <2>1, <2>3, ProductIsInt
  <2>5. (d * f - v * e - u) * e = d * (e * f) + (0 - v) * (e * e) + (0 - u) * e + 0
    BY <1>1, <2>1
  <2> QED BY <2>1, <2>3, <2>4, <2>5 DEF e, f
<1>4. s \in [1 .. n -> Int] /\ z \in [1 .. n -> Int]
  <2>1. s = [i \in 1 .. n |-> s[i]] /\ z = [i \in 1 .. n |-> z[i]]
    OBVIOUS
  <2> HIDE DEF s, z
  <2> QED BY <1>3, <2>1
<1>5. ASSUME NEW i \in 1 .. n PROVE Is(q[i], s[i], d)
  <2>1. q[i] = Minus(<<b[i], 1>>, Plus(p1, Times(p2, <<a[i], 1>>)))
    BY <1>0
  <2>2. a[i] \in Int /\ b[i] \in Int
    OBVIOUS
  <2>3. Is(Minus(<<b[i], 1>>, Plus(p1, Times(p2, <<a[i], 1>>))), d * b[i] - v * a[i] - u, d)
    BY <2>2, ResidualIs
  <2> QED BY <2>1, <2>3
<1>6. \A i \in 1 .. n : Is(t[i], z[i], d)
  <2> SUFFICES ASSUME NEW i \in 1 .. n PROVE Is(t[i], z[i], d)
    OBVIOUS
  <2>1. Is(q[i], s[i], d) /\ a[i] \in Int
    BY <1>5
  <2>2. Is(<<a[i], 1>>, a[i], 1)
    BY <2>1, IsWhole
  <2>3. Is(Times(q[i], <<a[i], 1>>), s[i] * a[i], d * 1)
    BY <2>1, <2>2, TimesIs
  <2> QED BY <1>1, <2>3
<1> HIDE DEF s, z, aa, ab
<1>7. Total(s) = 0 /\ Total(z) = 0
  <2>1. 0 \in Int /\ 0 - v \in Int /\ 0 - u \in Int
    BY <1>1
  <2>2. Combines(s, n, d, b, 0 - v, a, 0, a, 0 - u)
    BY <1>1, <1>3, <1>4, <2>1 DEF Combines
  <2>3. Combines(z, n, d, ab, 0 - v, aa, 0 - u, a, 0)
    BY <1>1, <1>2, <1>3, <1>4, <2>1 DEF Combines
  <2> DEFINE ta == Total(a)  tb == Total(b)  taa == Total(aa)  tab == Total(ab)  v1 == 0 - v  u1 == 0 - u
             ts == Total(s)  tz == Total(z)
  <2>4. ts = d * tb + v1 * ta + 0 * ta + u1 * n
    BY <2>2, LinearSum
  <2>5. tz = d * tab + v1 * taa + u1 * ta + 0 * n
    BY <2>3, LinearSum
  <2>6. ta \in Int /\ tb \in Int /\ taa \in Int /\ tab \in Int /\ v1 \in Int /\ u1 \in Int
    BY <1>2, <2>1, TotalSums
  <2>7. d * tb + v1 * ta + u1 * n = 0 /\ d * tab + v1 * taa + u1 * ta = 0
    BY DEF aa, ab
  <2> HIDE DEF ta, tb, taa, tab, v1, u1, ts, tz
  <2>8. d * tb \in Int /\ v1 * ta \in Int /\ u1 * n \in Int /\ d * tab \in Int /\ v1 * taa \in Int /\ u1 * ta \in Int
    <3>1. n \in Int
      OBVIOUS
    <3> QED BY <1>1, <2>6, <3>1, ProductIsInt
  <2>9. 0 * ta = 0 /\ 0 * n = 0
    BY <2>6
  <2>10. ts = 0 /\ tz = 0
    BY <2>4, <2>5, <2>7, <2>8, <2>9
  <2> QED BY <2>10 DEF ts, tz
<1>8. q = [i \in 1 .. n |-> q[i]] /\ t = [i \in 1 .. n |-> t[i]]
  BY <1>0
<1> HIDE DEF t
<1>9. Altogether(q)[1] = 0
  BY <1>1, <1>4, <1>5, <1>7, <1>8, ZeroSum
<1>10. Altogether(t)[1] = 0
  BY <1>1, <1>4, <1>6, <1>7, <1>8, ZeroSum
<1> QED BY <1>9, <1>10 DEF t, Weighted

LEMMA LargerOfTwo ==
  ASSUME NEW a \in Int, NEW b \in Int
  PROVE  Max({a, b}) = IF b < a THEN a ELSE b
<1> DEFINE c == IF b < a THEN a ELSE b
<1>1. c \in {a, b} /\ \A e \in {a, b} : c >= e
  OBVIOUS
<1>2. \A f \in {a, b} : (\A e \in {a, b} : f >= e) => f = c
  OBVIOUS
<1> HIDE DEF c
<1> QED BY <1>1, <1>2 DEF Max, c

LEMMA CancelledUnit ==
  ASSUME NEW k \in Nat \ {0}, NEW a \in Int, NEW b \in Int
  PROVE  k * a < k * b <=> a < b
<1>1. k * a = a * k /\ k * b = b * k
  OBVIOUS
<1> QED BY <1>1, LtTimes, TimesLt

(* The entries of the first column of the normal equations, and what is    *)
(* left to be the second pivot.                                            *)
LEMMA SecondPivot ==
  ASSUME NEW n \in Nat \ {0}, NEW s \in Int, NEW w \in Int, n * w - s * s \in Nat
  PROVE  LET first == (Unit * Unit) * n  other == Unit * s
             larger == Max({Unit * n, Magnitude(s)})
         IN /\ first # 0 /\ Tolerance[1] <= Magnitude(first) * Tolerance[2]
            /\ Negligible(first * w - other * other, Larger(first, other)) <=>
                 Less(<<Unit * (n * w - s * s), larger>>, Tolerance)
<1> DEFINE u == Unit  t1 == Tolerance[1]  t2 == Tolerance[2]  sp == n * w - s * s
           first == (u * u) * n  other == u * s  larger == Max({u * n, Magnitude(s)})
           det == first * w - other * other  h == Magnitude(s)  k == u * n
<1>1. u \in Nat \ {0} /\ t1 \in Nat \ {0} /\ t2 \in Nat \ {0} /\ t1 <= u * u * t2
  BY RegressionAssumption
<1>2. h \in Nat
  BY MagnitudeIs
<1>3. larger = IF h < k THEN k ELSE h
  <2>1. k \in Int
    BY <1>1, ProductIsInt
  <2> QED BY <1>2, <2>1, LargerOfTwo
<1>4. det = u * (u * sp) /\ sp \in Nat
  <2> HIDE DEF u
  <2>1. ((u * u) * n) * w - (u * s) * (u * s) = u * (u * (n * w - s * s))
    BY <1>1
  <2> QED BY <2>1
<1>5. Magnitude(other) = u * h
  <2> HIDE DEF u, h
  <2>1. u * s = s * u /\ u * h = h * u
    BY <1>1, <1>2
  <2> QED BY <1>1, <2>1, MagnitudeTimes DEF h
<1>6. first = u * k /\ k \in Nat \ {0} /\ first \in Nat \ {0} /\ Magnitude(first) = u * k
  <2> HIDE DEF u
  <2>1. k \in Nat \ {0}
    BY <1>1, ProductPositive
  <2>2. (u * u) * n = u * (u * n)
    BY <1>1
  <2> HIDE DEF k
  <2>3. u * k \in Nat \ {0}
    BY <1>1, <2>1, ProductPositive
  <2>4. first = u * k
    BY <2>2 DEF k
  <2> HIDE DEF first
  <2>5. Magnitude(first) = first
    BY <2>3, <2>4 DEF Magnitude
  <2> QED BY <2>1, <2>3, <2>4, <2>5
<1>7. t1 <= Magnitude(first) * t2
  <2> DEFINE q == u * u
  <2>1. q \in Nat \ {0} /\ first = q * n /\ t1 <= q * t2
    BY <1>1, ProductPositive
  <2>2. Magnitude(first) = first
    BY <1>6
  <2> HIDE DEF q, first, t1, t2
  <2>3. q <= q * n
    <3>1. 1 * q <= n * q /\ n * q = q * n /\ 1 * q = q
      BY <2>1, LeTimes
    <3> QED BY <3>1
  <2>4. q * t2 <= first * t2 /\ q * t2 \in Int /\ first * t2 \in Int
    BY <1>1, <1>6, <2>1, <2>3, LeTimes, ProductIsInt
  <2> QED BY <1>1, <2>1, <2>2, <2>4
<1>8. Magnitude(Larger(first, other)) = u * larger /\ larger \in Nat
  <2> HIDE DEF u, k, h, larger, first, other
  <2>1. u * h < u * k <=> h < k
    BY <1>1, <1>2, <1>6, CancelledUnit
  <2>2. CASE h < k
    BY <1>3, <1>5, <1>6, <2>1, <2>2 DEF Larger
  <2>3. CASE ~(h < k)
    BY <1>2, <1>3, <1>5, <1>6, <2>1, <2>3 DEF Larger
  <2> QED BY <2>2, <2>3
<1>9. Magnitude(det) = u * (u * sp)
  <2> HIDE DEF u, sp
  <2>1. u * (u * sp) \in Nat
    <3>1. u * sp \in Nat
      BY <1>1, <1>4
    <3> DEFINE e == u * sp
    <3> HIDE DEF e
    <3>2. u * e \in Nat
      BY <1>1, <3>1 DEF e
    <3> QED BY <3>2 DEF e
  <2> HIDE DEF det
  <2> QED BY <1>4, <2>1 DEF Magnitude
<1>10. Negligible(det, Larger(first, other)) <=> (u * sp) * t2 < t1 * larger
  <2>1. Negligible(det, Larger(first, other)) <=> (u * (u * sp)) * t2 < t1 * (u * larger)
    <3> HIDE DEF u, sp, larger, first, other, det
    <3> QED BY <1>8, <1>9 DEF Negligible
  <2> HIDE DEF u, sp, larger, first, other, det, t1, t2
  <2> DEFINE e == u * sp
  <2>2. e \in Int
    BY <1>1, <1>4, ProductIsInt
  <2> HIDE DEF e
  <2>3. (u * e) * t2 = u * (e * t2) /\ t1 * (u * larger) = u * (t1 * larger)
    BY <1>1, <1>8, <2>2
  <2>4. e * t2 \in Int /\ t1 * larger \in Int
    BY <1>1, <1>8, <2>2, ProductIsInt
  <2>5. u * (e * t2) < u * (t1 * larger) <=> e * t2 < t1 * larger
    BY <1>1, <2>4, CancelledUnit
  <2> QED BY <2>1, <2>3, <2>5 DEF e
<1>11. Less(<<u * sp, larger>>, Tolerance) <=> (u * sp) * t2 < t1 * larger
  <2> HIDE DEF u, sp, larger
  <2> DEFINE e == u * sp
  <2>1. Less(<<e, larger>>, Tolerance) <=> e * t2 < t1 * larger
    <3> HIDE DEF e
    <3> QED BY DEF Less
  <2> QED BY <2>1
<1> HIDE DEF larger, det
<1> QED BY <1>6, <1>7, <1>10, <1>11 DEF larger, det

(* The normal equations, freed of the unit.                                *)
LEMMA UnitEquations ==
  ASSUME NEW k \in Nat \ {0}, NEW d \in Int, NEW u \in Int, NEW v \in Int, NEW n \in Int, NEW s \in Int,
         NEW w \in Int, NEW m1 \in Int, NEW m2 \in Int,
         d * (k * m1) + (0 - v) * (k * s) + (0 - u) * ((k * k) * n) = 0,
         d * m2 + (0 - v) * w + (0 - u) * (k * s) = 0
  PROVE  /\ d * m1 + (0 - v) * s + (0 - u * k) * n = 0
         /\ d * m2 + (0 - v) * w + (0 - u * k) * s = 0
<1> DEFINE e == d * m1 + (0 - v) * s + (0 - u * k) * n
<1>1. e \in Int
  <2>1. u * k \in Int
    BY ProductIsInt
  <2>2. d * m1 \in Int /\ (0 - v) * s \in Int /\ (0 - u * k) * n \in Int
    BY <2>1, ProductIsInt
  <2> QED BY <2>2
<1>2. k * e = d * (k * m1) + (0 - v) * (k * s) + (0 - u) * ((k * k) * n)
  OBVIOUS
<1> HIDE DEF e
<1>3. k * e = k * 0
  BY <1>2
<1>4. e = 0
  <2>1. k \in Int \ {0} /\ 0 \in Int
    OBVIOUS
  <2> QED BY <1>1, <1>3, <2>1, CancelledInt
<1>5. (0 - u) * (k * s) = (0 - u * k) * s
  OBVIOUS
<1> QED BY <1>4, <1>5 DEF e

(* The fit of one predictor solves the normal equations exactly, so that   *)
(* its residuals are orthogonal to both columns of the design, and is      *)
(* refused as singular exactly when what the predictor varies by is below  *)
(* the tolerance, for series of any length, and any unit and tolerance     *)
(* (regression.rs 214-281, 332-376).                                       *)
THEOREM FitsAreLeastSquares == SeriesSpec => []FitIsLeastSquares
<1>1. SeriesInit => SeriesTyped
  BY EmptySeq DEF SeriesInit, SeriesTyped
<1>2. SeriesTyped /\ [SeriesNext]_series => SeriesTyped'
  BY SeriesStep
<1>3. ASSUME SeriesTyped PROVE FitIsLeastSquares
  <2> DEFINE fit == ols(Singles(x), y)
             n == Len(x)  s == Total(x)  w == Total(Products(x, x))
             m1 == Total(y)  m2 == Total(Products(x, y))
             first == (Unit * Unit) * n  other == Unit * s  right == Unit * m1
             d == first * w - other * other
             predicted(i) == Plus(Times(fit.coefficients[1], <<Unit, 1>>), Times(fit.coefficients[2], <<x[i], 1>>))
             residual == [i \in DOMAIN x |-> Minus(<<y[i], 1>>, predicted(i))]
             weighted == [i \in DOMAIN x |-> Times(residual[i], <<x[i], 1>>)]
             larger == Max({Unit * Len(x), Magnitude(Total(x))})
             small == Less(<<Unit * Spread(x, x), larger>>, Tolerance)
             Solved(matrix) == IsNormal(matrix, first, other, w) /\ Estimates(matrix, right, m2, fit)
  <2>1. /\ fit.error \in {"", "Singular"} => Fitted(x, y)
        /\ Fitted(x, y) => \E matrix : Solved(matrix)
    BY <1>3, OlsIs DEF SeriesTyped
  <2>2. ASSUME fit.error \in {"", "Singular"}
        PROVE  /\ n \in Nat \ {0} /\ x \in [1 .. n -> Int] /\ y \in [1 .. n -> Int] /\ DOMAIN x = 1 .. n
               /\ m1 \in Int /\ m2 \in Int /\ s \in Int /\ w \in Int
               /\ first # 0 /\ Tolerance[1] <= Magnitude(first) * Tolerance[2]
               /\ Negligible(d, Larger(first, other)) <=> small
               /\ \E matrix : Solved(matrix)
    <3>1. Fitted(x, y)
      BY <2>1, <2>2
    <3>2. /\ n \in Nat /\ n # 0 /\ x \in [1 .. n -> Int] /\ y \in [1 .. n -> Int] /\ DOMAIN x = 1 .. n
      <4>1. n > 2 /\ n \in Nat /\ n = Len(y)
        BY <1>3, <3>1, FiniteIsInt DEF Fitted, SeriesTyped
      <4>2. x \in [1 .. n -> Int] /\ y \in [1 .. n -> Int]
        BY <1>3, <3>1, <4>1, FiniteIsInt DEF Fitted, SeriesTyped
      <4> QED BY <4>1, <4>2
    <3> HIDE DEF n
    <3>3. m1 \in Int /\ m2 \in Int /\ s \in Int /\ w \in Int
      <4>1. Products(x, x) \in [1 .. n -> Int] /\ Products(x, y) \in [1 .. n -> Int]
        BY <3>2, SpreadOf
      <4> QED BY <3>2, <4>1, TotalSums
    <3>4. Spread(x, x) = n * w - s * s /\ Spread(x, x) \in Nat
      BY <3>2, SpreadOf, SpreadPositive
    <3> HIDE DEF s, w
    <3>5. n * w - s * s \in Nat
      BY <3>4
    <3>6. /\ first # 0 /\ Tolerance[1] <= Magnitude(first) * Tolerance[2]
          /\ Negligible(d, Larger(first, other)) <=>
               Less(<<Unit * (n * w - s * s), Max({Unit * n, Magnitude(s)})>>, Tolerance)
      BY <3>2, <3>3, <3>5, SecondPivot
    <3>7. larger = Max({Unit * n, Magnitude(s)})
      BY DEF n, s
    <3> HIDE DEF larger, first, other, d
    <3>8. small <=> Less(<<Unit * (n * w - s * s), Max({Unit * n, Magnitude(s)})>>, Tolerance)
      BY <3>4, <3>7, Zenon
    <3> HIDE DEF small, Solved
    <3> QED BY <2>1, <3>1, <3>2, <3>3, <3>6, <3>8
  <2>3. ASSUME fit.error = ""
        PROVE  Altogether(residual)[1] = 0 /\ Altogether(weighted)[1] = 0
    <3>1. /\ n \in Nat \ {0} /\ x \in [1 .. n -> Int] /\ y \in [1 .. n -> Int] /\ DOMAIN x = 1 .. n
          /\ m1 \in Int /\ m2 \in Int /\ s \in Int /\ w \in Int
          /\ first # 0 /\ Tolerance[1] <= Magnitude(first) * Tolerance[2]
      BY <2>2, <2>3
    <3>2. PICK matrix : IsNormal(matrix, first, other, w) /\ Estimates(matrix, right, m2, fit)
      BY <2>2, <2>3
    <3>3. invert(matrix) # Singular
      <4>1. NoFit("Singular").error = "Singular"
        BY DEF NoFit
      <4> QED BY <2>3, <3>2, <4>1 DEF Estimates
    <3> DEFINE c1 == fit.coefficients[1]  c2 == fit.coefficients[2]
               u == w * right + (-other) * m2  v == (-other) * right + first * m2
               p1 == Times(c1, <<Unit, 1>>)
    <3>4. Unit \in Int /\ Unit \in Nat \ {0} /\ first \in Int /\ other \in Int /\ right \in Int
      <4>1. Unit \in Int /\ Unit \in Nat \ {0} /\ Unit * Unit \in Int
        BY RegressionAssumption, ProductIsInt
      <4>2. n \in Int
        BY <3>1
      <4> HIDE DEF n, s, m1
      <4> QED BY <3>1, <4>1, <4>2, ProductIsInt
    <3> HIDE DEF n, s, w, m1, m2, fit
    <3>5. Is(c1, u, d) /\ Is(c2, v, d)
      <4> HIDE DEF first, other, right
      <4>1. /\ Is(invert(matrix)[1][1], w, d) /\ Is(invert(matrix)[1][2], -other, d)
            /\ Is(invert(matrix)[2][1], -other, d) /\ Is(invert(matrix)[2][2], first, d)
        BY <3>1, <3>2, <3>3, InverseIs
      <4>2. \A k \in 1 .. 2 : \E q : /\ fit.coefficients[k] = Altogether(q) /\ Len(q) = 2
                                     /\ q[1] = Times(invert(matrix)[k][1], <<right, 1>>)
                                     /\ q[2] = Times(invert(matrix)[k][2], <<m2, 1>>)
        BY <3>2, <3>3 DEF Estimates
      <4> HIDE DEF c1, c2
      <4>8. c1 = fit.coefficients[1] /\ c2 = fit.coefficients[2]
        BY DEF c1, c2
      <4>9. 1 \in 1 .. 2 /\ 2 \in 1 .. 2
        OBVIOUS
      <4>3. PICK q1 : /\ c1 = Altogether(q1) /\ Len(q1) = 2
                      /\ q1[1] = Times(invert(matrix)[1][1], <<right, 1>>)
                      /\ q1[2] = Times(invert(matrix)[1][2], <<m2, 1>>)
        BY <4>2, <4>8, <4>9
      <4>4. PICK q2 : /\ c2 = Altogether(q2) /\ Len(q2) = 2
                      /\ q2[1] = Times(invert(matrix)[2][1], <<right, 1>>)
                      /\ q2[2] = Times(invert(matrix)[2][2], <<m2, 1>>)
        BY <4>2, <4>8, <4>9
      <4> HIDE DEF d
      <4>5. Is(Altogether(q1), w * right + (-other) * m2, d)
        BY <3>1, <3>4, <4>1, <4>3, CoefficientIs
      <4>6. Is(Altogether(q2), (-other) * right + first * m2, d)
        BY <3>1, <3>4, <4>1, <4>4, CoefficientIs
      <4> QED BY <4>3, <4>4, <4>5, <4>6
    <3>6. d * right + (0 - v) * other + (0 - u) * first = 0 /\ d * m2 + (0 - v) * w + (0 - u) * other = 0
      <4> HIDE DEF first, other, right
      <4> QED BY <3>1, <3>4, NormalEquations
    <3>7. d \in Int /\ u \in Int /\ v \in Int /\ n \in Int
      <4> HIDE DEF first, other, right, c1, c2, u, v, d
      <4> QED BY <3>1, <3>5, QuotientParts
    <3>8. d * m1 + (0 - v) * s + (0 - u * Unit) * n = 0 /\ d * m2 + (0 - v) * w + (0 - u * Unit) * s = 0
      <4> HIDE DEF u, v, d
      <4> QED BY <3>1, <3>4, <3>6, <3>7, UnitEquations
    <3>9. Is(p1, u * Unit, d)
      <4> HIDE DEF u, v, d, c1, c2
      <4>1. Is(p1, u * Unit, d * 1)
        BY <3>4, <3>5, IsWhole, TimesIs
      <4>2. d * 1 = d
        BY <3>7
      <4> QED BY <4>1, <4>2
    <3> HIDE DEF u, v, d
    <3>10. residual = Residuals(x, y, n, p1, c2)
      BY <3>1 DEF Residuals
    <3>11. weighted = Weighted(residual, x, n)
      BY <3>1 DEF Weighted
    <3> HIDE DEF residual, weighted, c1, c2, p1
    <3>12. /\ d * Total(y) + (0 - v) * Total(x) + (0 - u * Unit) * n = 0
           /\ d * Total(Products(x, y)) + (0 - v) * Total(Products(x, x)) + (0 - u * Unit) * Total(x) = 0
      BY <3>8 DEF s, w, m1, m2
    <3>13. n \in Nat /\ x \in [1 .. n -> Int] /\ y \in [1 .. n -> Int]
      BY <3>1
    <3>14. Altogether(residual)[1] = 0 /\ Altogether(Weighted(residual, x, n))[1] = 0
      <4> DEFINE uu == u * Unit
      <4> HIDE DEF uu
      <4>1. Is(p1, uu, d) /\ Is(c2, v, d)
        BY <3>5, <3>9 DEF uu
      <4>2. /\ d * Total(y) + (0 - v) * Total(x) + (0 - uu) * n = 0
            /\ d * Total(Products(x, y)) + (0 - v) * Total(Products(x, x)) + (0 - uu) * Total(x) = 0
        BY <3>12 DEF uu
      <4> QED BY <3>10, <3>13, <4>1, <4>2, ResidualsVanish
    <3> QED BY <3>11, <3>14
  <2>4. ASSUME fit.error \in {"", "Singular"} PROVE fit.error = "Singular" <=> small
    <3>1. PICK matrix : IsNormal(matrix, first, other, w) /\ Estimates(matrix, right, m2, fit)
      BY <2>2, <2>4
    <3>2. /\ first # 0 /\ Tolerance[1] <= Magnitude(first) * Tolerance[2]
          /\ Negligible(d, Larger(first, other)) <=> small
      BY <2>2, <2>4
    <3> HIDE DEF small, first, other, right, w, m2, fit
    <3>3. invert(matrix) = Singular <=> Negligible(d, Larger(first, other))
      BY <3>1, <3>2, InverseIs
    <3>4. NoFit("Singular").error = "Singular"
      BY DEF NoFit
    <3> HIDE DEF d
    <3>5. fit.error = "Singular" <=> invert(matrix) = Singular
      BY <3>1, <3>4 DEF Estimates
    <3> QED BY <3>2, <3>3, <3>5
  <2>5. fit = ols([i \in DOMAIN x |-> <<x[i]>>], y)
    BY DEF Singles
  <2> QED BY <2>3, <2>4, <2>5 DEF FitIsLeastSquares
<1> QED BY <1>1, <1>2, <1>3, PTL DEF SeriesSpec

---------------------------------------------------------------------------
(* The sums of Embedding, as those of Statistics.                          *)
LEMMA SumOverIsSum ==
  ASSUME NEW s \in Seq(Int)
  PROVE  \E t : PartialSums(t, s) /\ SumOver(s) = t[Len(s)]
<1> DEFINE t == CHOOSE t : t = [i \in 0 .. Len(s) |-> IF i = 0 THEN 0 ELSE t[i - 1] + s[i]]
<1>1. IsSum(t, s, Len(s))
  <2>1. Len(s) \in Nat
    OBVIOUS
  <2> QED BY <2>1, SumExists DEF IsSum
<1>2. SumOver(s) = t[Len(s)]
  BY DEF SumOver
<1> HIDE DEF t
<1> QED BY <1>1, <1>2, SumsAreInts

(* Zeros at the end add nothing.                                           *)
LEMMA ZerosAddNothing ==
  ASSUME NEW s \in Seq(Int), NEW r \in Seq(Int), Len(s) <= Len(r),
         \A i \in 1 .. Len(s) : r[i] = s[i],
         \A i \in Len(s) + 1 .. Len(r) : r[i] = 0
  PROVE  SumOver(r) = SumOver(s)
<1> DEFINE n == Len(s)  k == Len(r)
<1>1. PICK t : PartialSums(t, s) /\ SumOver(s) = t[n]
  BY SumOverIsSum
<1>2. PICK u : PartialSums(u, r) /\ SumOver(r) = u[k]
  BY SumOverIsSum
<1>3. n \in Nat /\ k \in Nat /\ n <= k
  OBVIOUS
<1>4. /\ t[0] = 0 /\ \A i \in 1 .. n : t[i] = t[i - 1] + s[i]
      /\ u[0] = 0 /\ \A i \in 1 .. k : u[i] = u[i - 1] + r[i]
      /\ \A i \in 0 .. n : t[i] \in Int
      /\ \A i \in 1 .. n : r[i] = s[i]
      /\ \A i \in n + 1 .. k : r[i] = 0
  BY <1>1, <1>2 DEF PartialSums
<1> HIDE DEF n, k
<1> DEFINE T == {i \in Nat : i <= k => u[i] = t[IF i <= n THEN i ELSE n]}
<1>5. 0 \in T
  BY <1>3, <1>4
<1>6. ASSUME NEW i \in Nat, i \in T PROVE i + 1 \in T
  <2> SUFFICES ASSUME i + 1 <= k PROVE u[i + 1] = t[IF i + 1 <= n THEN i + 1 ELSE n]
    OBVIOUS
  <2>1. i + 1 \in 1 .. k /\ i + 1 - 1 = i /\ u[i] = t[IF i <= n THEN i ELSE n]
    BY <1>3, <1>6
  <2>2. CASE i + 1 <= n
    <3>1. i + 1 \in 1 .. n /\ i <= n
      BY <1>3, <2>2
    <3>2. u[i] = t[i] /\ u[i + 1] = u[i] + r[i + 1] /\ t[i + 1] = t[i] + s[i + 1] /\ r[i + 1] = s[i + 1]
      <4>1. u[i + 1] = u[i + 1 - 1] + r[i + 1] /\ t[i + 1] = t[i + 1 - 1] + s[i + 1] /\ r[i + 1] = s[i + 1]
        <5>1. u[i + 1] = u[i + 1 - 1] + r[i + 1]
          BY <1>4, <2>1
        <5>2. t[i + 1] = t[i + 1 - 1] + s[i + 1] /\ r[i + 1] = s[i + 1]
          BY <1>4, <3>1
        <5> QED BY <5>1, <5>2
      <4>2. u[i] = t[i]
        BY <2>1, <3>1
      <4> QED BY <2>1, <4>1, <4>2
    <3> QED BY <2>2, <3>2
  <2>3. CASE i + 1 > n
    <3>1. i + 1 \in n + 1 .. k /\ (IF i <= n THEN i ELSE n) = n /\ ~(i + 1 <= n) /\ n \in 0 .. n
      BY <1>3, <2>1, <2>3
    <3>2. u[i + 1] = u[i + 1 - 1] + r[i + 1]
      BY <1>4, <2>1
    <3>3. r[i + 1] = 0 /\ t[n] \in Int
      BY <1>4, <3>1
    <3>4. u[i] = t[n]
      BY <2>1, <3>1
    <3>5. u[i + 1] = t[n] + 0
      BY <2>1, <3>2, <3>3, <3>4
    <3> QED BY <3>1, <3>3, <3>5
  <2> QED BY <1>3, <2>2, <2>3
<1> HIDE DEF T
<1>7. k \in T
  BY <1>3, <1>5, <1>6, SetInduction
<1>8. u[k] = t[n]
  BY <1>3, <1>7 DEF T
<1> QED BY <1>1, <1>2, <1>8

---------------------------------------------------------------------------
(* Padding.                                                                *)
Padded(long, v, n) ==
  /\ long \in Seq(Int) /\ Len(long) = STORAGE_SLOTS
  /\ \A i \in 1 .. n : long[i] = v[i]
  /\ \A i \in n + 1 .. STORAGE_SLOTS : long[i] = 0

Accepted(v, space) == pad_for_storage(v, space).error = ""
Answered(a, left, b, right, enabled) == similarity(a, left, b, right, enabled).error = ""

(* A vector that pad_for_storage accepts has the width of its space; its   *)
(* row is the vector and then zeros, and unpad gives the vector back.      *)
LEMMA Stored ==
  ASSUME NEW n \in Nat \ {0}, NEW v \in [1 .. n -> Int], NEW space,
         Accepted(v, space)
  PROVE  /\ n <= STORAGE_SLOTS /\ Width(space) = n
         /\ Padded(pad_for_storage(v, space).vector, v, n)
         /\ unpad(pad_for_storage(v, space).vector, space) = v
<1> DEFINE zeros == [i \in 1 .. STORAGE_SLOTS - Len(v) |-> 0]
           long == v \o zeros
<1>0. STORAGE_SLOTS \in Nat
  BY EmbeddingAssumption
<1>1. v \in Seq(Int) /\ Len(v) = n
  BY FunctionLen
<1>2. n <= STORAGE_SLOTS /\ Width(space) = n /\ pad_for_storage(v, space).vector = long
  BY <1>0, <1>1 DEF pad_for_storage, Refusal, Accepted
<1> DEFINE k == STORAGE_SLOTS - n
<1>3. k \in Nat /\ n + k = STORAGE_SLOTS
  BY <1>0, <1>2
<1>4. zeros = [i \in 1 .. k |-> 0]
  BY <1>1
<1> HIDE DEF k, zeros
<1>5. zeros \in Seq(Int) /\ Len(zeros) = k /\ \A i \in 1 .. k : zeros[i] = 0
  <2>1. zeros \in [1 .. k -> Int]
    BY <1>4
  <2>2. \A i \in 1 .. k : zeros[i] = 0
    BY <1>4
  <2> QED BY <1>3, <2>1, <2>2, FunctionLen
<1>6. /\ long \in Seq(Int) /\ Len(long) = n + k
      /\ \A i \in 1 .. n + k : long[i] = IF i <= n THEN v[i] ELSE zeros[i - n]
  <2>1. /\ v \o zeros \in Seq(Int) /\ Len(v \o zeros) = Len(v) + Len(zeros)
        /\ \A i \in 1 .. Len(v) + Len(zeros) :
             (v \o zeros)[i] = IF i <= Len(v) THEN v[i] ELSE zeros[i - Len(v)]
    BY <1>1, <1>5, ConcatProperties, ZenonT(40)
  <2> QED BY <1>1, <1>5, <2>1
<1>7. SubSeq(long, 1, n) = v
  <2>1. 1 \in 1 .. Len(v) /\ n \in 1 .. Len(v)
    BY <1>1
  <2>2. SubSeq(long, 1, n) = SubSeq(v, 1, n)
    BY <1>1, <1>5, <2>1, SubSeqOfConcat1
  <2> QED BY <1>1, <2>2, SubSeqFull
<1> HIDE DEF long
<1>8. Padded(long, v, n)
  <2>1. Len(long) = STORAGE_SLOTS
    BY <1>3, <1>6
  <2>2. \A i \in 1 .. n : long[i] = v[i]
    BY <1>3, <1>6
  <2>3. ASSUME NEW i \in n + 1 .. STORAGE_SLOTS PROVE long[i] = 0
    <3>1. i \in 1 .. n + k /\ ~(i <= n) /\ i - n \in 1 .. k
      BY <1>0, <1>3
    <3> QED BY <1>5, <1>6, <3>1
  <2> QED BY <1>6, <2>1, <2>2, <2>3 DEF Padded
<1>9. unpad(long, space) = v
  <2>1. Min({n, STORAGE_SLOTS}) = n
    <3>1. \A z \in {n, STORAGE_SLOTS} : (\A o \in {n, STORAGE_SLOTS} : z <= o) <=> z = n
      BY <1>0, <1>2
    <3> QED BY <3>1 DEF Min
  <2>2. StoredWidth(long, space) = n
    BY <1>2, <1>8, <2>1 DEF StoredWidth, Padded
  <2> QED BY <1>7, <2>2 DEF unpad
<1> QED BY <1>2, <1>8, <1>9

(* Sums of products of two rows are those of the vectors in them.          *)
LEMMA SameProducts ==
  ASSUME NEW n \in Nat, n <= STORAGE_SLOTS,
         NEW v \in [1 .. n -> Int], NEW w \in [1 .. n -> Int],
         NEW a, NEW b, Padded(a, v, n), Padded(b, w, n)
  PROVE  dot(a, b) = dot(v, w) /\ distance(a, b) = distance(v, w)
<1>0. STORAGE_SLOTS \in Nat
  BY EmbeddingAssumption
<1>1. DOMAIN a = 1 .. STORAGE_SLOTS /\ DOMAIN v = 1 .. n
  BY LenProperties DEF Padded
<1>2. /\ \A i \in 1 .. STORAGE_SLOTS : a[i] \in Int /\ b[i] \in Int
      /\ \A i \in 1 .. n : v[i] \in Int /\ w[i] \in Int /\ i \in 1 .. STORAGE_SLOTS
      /\ \A i \in 1 .. n : a[i] = v[i] /\ b[i] = w[i]
      /\ \A i \in n + 1 .. STORAGE_SLOTS : a[i] = 0 /\ b[i] = 0
  BY <1>0, ElementOfSeq DEF Padded
<1>3. ASSUME NEW s \in [1 .. n -> Int], NEW r \in [1 .. STORAGE_SLOTS -> Int],
             \A i \in 1 .. n : r[i] = s[i], \A i \in n + 1 .. STORAGE_SLOTS : r[i] = 0
      PROVE  SumOver(r) = SumOver(s)
  <2>1. s \in Seq(Int) /\ r \in Seq(Int) /\ Len(s) = n /\ Len(r) = STORAGE_SLOTS
    BY <1>0, FunctionLen
  <2> QED BY <1>3, <2>1, ZerosAddNothing
<1>4. dot(a, b) = dot(v, w)
  <2> DEFINE s == [i \in 1 .. n |-> v[i] * w[i]]  r == [i \in 1 .. STORAGE_SLOTS |-> a[i] * b[i]]
  <2>1. s \in [1 .. n -> Int] /\ r \in [1 .. STORAGE_SLOTS -> Int]
    BY <1>2
  <2>2. \A i \in 1 .. n : r[i] = s[i]
    BY <1>2
  <2>3. \A i \in n + 1 .. STORAGE_SLOTS : r[i] = 0
    BY <1>0, <1>2
  <2>4. dot(a, b) = SumOver(r) /\ dot(v, w) = SumOver(s)
    BY <1>1 DEF dot
  <2> HIDE DEF s, r
  <2> QED BY <1>3, <2>1, <2>2, <2>3, <2>4
<1>5. distance(a, b) = distance(v, w)
  <2> DEFINE s == [i \in 1 .. n |-> (v[i] - w[i]) * (v[i] - w[i])]
             r == [i \in 1 .. STORAGE_SLOTS |-> (a[i] - b[i]) * (a[i] - b[i])]
  <2>1. s \in [1 .. n -> Int] /\ r \in [1 .. STORAGE_SLOTS -> Int]
    BY <1>2
  <2>2. \A i \in 1 .. n : r[i] = s[i]
    BY <1>2
  <2>3. \A i \in n + 1 .. STORAGE_SLOTS : r[i] = 0
    BY <1>0, <1>2
  <2>4. distance(a, b) = SumOver(r) /\ distance(v, w) = SumOver(s)
    BY <1>1 DEF distance
  <2> HIDE DEF s, r
  <2> QED BY <1>3, <2>1, <2>2, <2>3, <2>4
<1> QED BY <1>4, <1>5

(* So every metric measures the same on the rows as on the vectors.        *)
LEMMA SameMeasure ==
  ASSUME NEW n \in Nat, n <= STORAGE_SLOTS,
         NEW v \in [1 .. n -> Int], NEW w \in [1 .. n -> Int],
         NEW a, NEW b, Padded(a, v, n), Padded(b, w, n), NEW metric
  PROVE  Measured(metric, a, b) = Measured(metric, v, w)
<1>1. /\ dot(a, b) = dot(v, w) /\ dot(a, a) = dot(v, v) /\ dot(b, b) = dot(w, w)
      /\ distance(a, b) = distance(v, w)
  BY SameProducts
<1> QED BY <1>1 DEF Measured

---------------------------------------------------------------------------
(* A registration that serves has every gate its strategy asks for.        *)
AnnApproved ==
  registration.enabled =>
    /\ BaseEvidence \subseteq registration.evidence
    /\ registration.ann_strategy # "halfvec-exact" => EvidenceNames \subseteq registration.evidence

RegistrationType ==
  registration \in [ann_strategy : AnnStrategies, enabled : BOOLEAN, evidence : SUBSET EvidenceNames]

EmbeddingInvariant == RegistrationType /\ AnnApproved

(* A new registration is disabled.                                         *)
LEMMA EmbeddingStart == EmbeddingInit => EmbeddingInvariant
<1> SUFFICES ASSUME EmbeddingInit PROVE EmbeddingInvariant
  OBVIOUS
<1>1. registration = [ann_strategy |-> "halfvec-exact", enabled |-> FALSE, evidence |-> {}]
  BY DEF EmbeddingInit, NewRegistration
<1>2. "halfvec-exact" \in AnnStrategies /\ {} \in SUBSET EvidenceNames /\ FALSE \in BOOLEAN
  BY DEF AnnStrategies
<1>3. RegistrationType
  BY <1>1, <1>2 DEF RegistrationType
<1>4. ~registration.enabled
  BY <1>1
<1> QED BY <1>3, <1>4 DEF EmbeddingInvariant, AnnApproved

(* enable is the only way to serve, and nobody edits what serves.          *)
LEMMA EmbeddingStep ==
  EmbeddingInvariant /\ [EmbeddingNext]_registration => EmbeddingInvariant'
<1> SUFFICES ASSUME EmbeddingInvariant, [EmbeddingNext]_registration PROVE EmbeddingInvariant'
  OBVIOUS
<1> USE DEF EmbeddingInvariant
<1>1. CASE enable
  <2>1. /\ BaseEvidence \subseteq registration.evidence
        /\ registration.ann_strategy # "halfvec-exact" => EvidenceNames \subseteq registration.evidence
    BY <1>1 DEF enable, complete_for, is_approximate, EvidenceNames
  <2>2. registration' = [registration EXCEPT !.enabled = TRUE]
    BY <1>1 DEF enable
  <2>3. /\ registration'.evidence = registration.evidence
        /\ registration'.ann_strategy = registration.ann_strategy
        /\ RegistrationType'
    BY <2>2 DEF RegistrationType
  <2> QED BY <2>1, <2>3 DEF AnnApproved
<1>2. CASE Edit
  <2>1. ~registration.enabled
    BY <1>2 DEF Edit
  <2>2. \/ \E a \in AnnStrategies : registration' = [registration EXCEPT !.ann_strategy = a]
        \/ \E e \in SUBSET EvidenceNames : registration' = [registration EXCEPT !.evidence = e]
    <3>1. registration.evidence \in SUBSET EvidenceNames
      BY DEF RegistrationType
    <3>2. ASSUME NEW e \in EvidenceNames
          PROVE  /\ registration.evidence \cup {e} \in SUBSET EvidenceNames
                 /\ registration.evidence \ {e} \in SUBSET EvidenceNames
      BY <3>1
    <3> QED BY <1>2, <3>2 DEF Edit
  <2>3. RegistrationType' /\ ~registration'.enabled
    BY <2>1, <2>2 DEF RegistrationType
  <2> QED BY <2>3 DEF AnnApproved
<1>3. CASE Disable
  <2>1. RegistrationType' /\ ~registration'.enabled
    BY <1>3 DEF Disable, RegistrationType
  <2> QED BY <2>1 DEF AnnApproved
<1>4. CASE UNCHANGED registration
  BY <1>4 DEF RegistrationType, AnnApproved
<1> QED BY <1>1, <1>2, <1>3, <1>4 DEF EmbeddingNext

(* What is stored compares as what was given: the second half of           *)
(* ServedAsReviewed, in any state.                                         *)
LEMMA PaddingIsInvisible ==
  ASSUME NEW s \in EmbeddingSpaces, NEW t \in EmbeddingSpaces, NEW enabled,
         NEW n \in Nat \ {0}, NEW v \in [1 .. n -> Components], NEW w \in [1 .. n -> Components],
         Accepted(v, s), Accepted(w, t),
         Answered(pad_for_storage(v, s).vector, s, pad_for_storage(w, t).vector, t, enabled)
  PROVE  LET a == pad_for_storage(v, s).vector  b == pad_for_storage(w, t).vector
         IN /\ <<t.identity, t.metric, Width(t)>> = <<s.identity, s.metric, Width(s)>>
            /\ unpad(a, s) = v /\ unpad(b, t) = w
            /\ similarity(a, s, b, t, enabled).value = Measured(s.metric, v, w)
<1> DEFINE a == pad_for_storage(v, s).vector  b == pad_for_storage(w, t).vector
<1>0. STORAGE_SLOTS \in Nat /\ v \in [1 .. n -> Int] /\ w \in [1 .. n -> Int]
  BY EmbeddingAssumption
<1>1. /\ n <= STORAGE_SLOTS /\ Width(s) = n /\ Width(t) = n
      /\ Padded(a, v, n) /\ Padded(b, w, n) /\ unpad(a, s) = v /\ unpad(b, t) = w
  BY <1>0, Stored
<1> HIDE DEF a, b
<1>2. Answered(a, s, b, t, enabled)
  BY DEF a, b
<1>3. comparable_with(s, t)
  BY <1>2 DEF similarity, Answered
<1>4. t.identity = s.identity /\ t.metric = s.metric
  <2>1. s = [identity |-> s.identity, dimensions |-> s.dimensions, truncated_to |-> s.truncated_to,
             metric |-> s.metric, role |-> s.role]
    BY EmbeddingAssumption
  <2>2. [s EXCEPT !.role = t.role] = t
    BY <1>3 DEF comparable_with
  <2>3. [s EXCEPT !.role = t.role].identity = s.identity /\ [s EXCEPT !.role = t.role].metric = s.metric
    BY <2>1
  <2> QED BY <2>2, <2>3
<1>5. similarity(a, s, b, t, enabled).value = Measured(s.metric, a, b)
  <2>1. Len(a) = STORAGE_SLOTS /\ Len(b) = STORAGE_SLOTS /\ a \in Seq(Int) /\ b \in Seq(Int)
    BY <1>1 DEF Padded
  <2>2. Min({Len(a), Len(b)}) = STORAGE_SLOTS
    <3>1. \A z \in {STORAGE_SLOTS} : \A o \in {STORAGE_SLOTS} : z <= o
      BY <1>0
    <3>2. {Len(a), Len(b)} = {STORAGE_SLOTS}
      BY <2>1
    <3> QED BY <3>1, <3>2 DEF Min
  <2>3. SubSeq(a, 1, STORAGE_SLOTS) = a /\ SubSeq(b, 1, STORAGE_SLOTS) = b
    BY <2>1, SubSeqFull
  <2> QED BY <1>2, <1>3, <2>2, <2>3 DEF similarity, Answered
<1>6. Measured(s.metric, a, b) = Measured(s.metric, v, w)
  <2>1. n \in Nat /\ n <= STORAGE_SLOTS /\ Padded(a, v, n) /\ Padded(b, w, n)
    BY <1>1
  <2>2. v \in [1 .. n -> Int] /\ w \in [1 .. n -> Int]
    BY <1>0
  <2> DEFINE metric == s.metric
  <2> HIDE DEF metric
  <2>3. Measured(metric, a, b) = Measured(metric, v, w)
    BY <2>1, <2>2, SameMeasure
  <2> QED BY <2>3 DEF metric
<1> QED BY <1>1, <1>4, <1>5, <1>6 DEF a, b

(* The registration has its type, and one that serves has passed its       *)
(* gates.                                                                  *)
THEOREM EmbeddingIsInvariant == EmbeddingSpec => []EmbeddingInvariant
BY EmbeddingStart, EmbeddingStep, PTL DEF EmbeddingSpec

(* A space that serves has its evidence, and comparing stored rows of it   *)
(* is comparing the native vectors, whatever STORAGE_SLOTS, the dimensions *)
(* and the components.                                                     *)
THEOREM OnlyReviewedServe == EmbeddingSpec => []ServedAsReviewed
<1>1. EmbeddingInvariant => ServedAsReviewed
  <2> SUFFICES ASSUME EmbeddingInvariant PROVE ServedAsReviewed
    OBVIOUS
  <2>1. ASSUME NEW s \in EmbeddingSpaces, NEW t \in EmbeddingSpaces,
               NEW n \in 1 .. MaxDimensions,
               NEW v \in [1 .. n -> Components], NEW w \in [1 .. n -> Components]
        PROVE  LET a == pad_for_storage(v, s)  b == pad_for_storage(w, t)
                   answer == similarity(a.vector, s, b.vector, t, registration.enabled)
               IN a.error = "" /\ b.error = "" /\ answer.error = "" =>
                    /\ <<t.identity, t.metric, Width(t)>> = <<s.identity, s.metric, Width(s)>>
                    /\ unpad(a.vector, s) = v /\ unpad(b.vector, t) = w
                    /\ answer.value = Measured(s.metric, v, w)
    <3>1. n \in Nat \ {0}
      BY EmbeddingAssumption
    <3> QED BY <3>1, PaddingIsInvisible, ZenonT(40) DEF Accepted, Answered
  <2> QED BY <2>1 DEF EmbeddingInvariant, AnnApproved, ServedAsReviewed
<1> QED BY <1>1, EmbeddingIsInvariant, PTL

---------------------------------------------------------------------------
(* The rows of the two tables, whatever the machine: no station and no     *)
(* step occurs twice, and only the last step is known to a parked subject. *)
LEMMA Route ==
  ASSUME machine \in {"org", "user"}
  PROVE  /\ Steps \in Seq(Events)
         /\ Len(Steps) \in Nat \ {0} /\ Len(Stations) = Len(Steps) + 1
         /\ Stations[1] = "Created" /\ Stations[Len(Steps) + 1] = "Active"
         /\ \A i, j \in 1 .. Len(Stations) : Stations[i] = Stations[j] => i = j
         /\ \A i, j \in 1 .. Len(Steps) : Steps[i] = Steps[j] => i = j
         /\ \A i \in 1 .. Len(Stations) : Stations[i] # Parked
         /\ \A i \in 1 .. Len(Steps) : Steps[i] # Park /\ (Steps[i] = Unpark => i = Len(Steps))
         /\ Unpark # Park
<1>1. CASE machine = "org"
  <2>1. /\ Stations = <<"Created", "OrgProfile", "BillingLinked", "GithubAppInstalled",
                        "FirstWorkflowPlanned", "Active">>
        /\ Steps = <<"ProfileCompleted", "BillingLinked", "GithubAppInstalled",
                     "FirstWorkflowPlanned", "Activated">>
        /\ Parked = "Suspended" /\ Park = "Suspended" /\ Unpark = "Activated"
    BY <1>1 DEF Stations, Steps, Parked, Park, Unpark
  <2>2. Len(Stations) = 6 /\ Len(Steps) = 5
    BY <2>1
  <2>9. Steps \in Seq(Events)
    <3>1. Steps = [i \in 1 .. 5 |-> Steps[i]]
      BY <2>1
    <3>2. Steps \in [1 .. 5 -> Events]
      BY <2>2, <3>1 DEF Events
    <3>3. 5 \in Nat
      OBVIOUS
    <3> QED BY <3>2, <3>3, FunctionIsSeq
  <2>3. /\ Stations[1] = "Created" /\ Stations[2] = "OrgProfile"
        /\ Stations[3] = "BillingLinked" /\ Stations[4] = "GithubAppInstalled"
        /\ Stations[5] = "FirstWorkflowPlanned" /\ Stations[6] = "Active"
    BY <2>1
  <2>4. /\ Steps[1] = "ProfileCompleted" /\ Steps[2] = "BillingLinked"
        /\ Steps[3] = "GithubAppInstalled" /\ Steps[4] = "FirstWorkflowPlanned"
        /\ Steps[5] = "Activated"
    BY <2>1
  <2>5. \A i, j \in 1 .. Len(Stations) : Stations[i] = Stations[j] => i = j
    BY <2>2, <2>3
  <2>6. \A i, j \in 1 .. Len(Steps) : Steps[i] = Steps[j] => i = j
    BY <2>2, <2>4
  <2>7. \A i \in 1 .. Len(Stations) : Stations[i] # Parked
    BY <2>1, <2>2, <2>3
  <2>8. \A i \in 1 .. Len(Steps) : Steps[i] # Park /\ (Steps[i] = Unpark => i = Len(Steps))
    BY <2>1, <2>2, <2>4
  <2> QED BY <2>1, <2>2, <2>3, <2>5, <2>6, <2>7, <2>8, <2>9
<1>2. CASE machine = "user"
  <2>1. /\ Stations = <<"Created", "EmailVerified", "ProfileComplete", "OrgJoined", "Active">>
        /\ Steps = <<"EmailVerified", "ProfileCompleted", "OrgJoined", "Activated">>
        /\ Parked = "Dormant" /\ Park = "WentDormant" /\ Unpark = "Resumed"
    BY <1>2 DEF Stations, Steps, Parked, Park, Unpark
  <2>2. Len(Stations) = 5 /\ Len(Steps) = 4
    BY <2>1
  <2>9. Steps \in Seq(Events)
    <3>1. Steps = [i \in 1 .. 4 |-> Steps[i]]
      BY <2>1
    <3>2. Steps \in [1 .. 4 -> Events]
      BY <2>2, <3>1 DEF Events
    <3>3. 4 \in Nat
      OBVIOUS
    <3> QED BY <3>2, <3>3, FunctionIsSeq
  <2>3. /\ Stations[1] = "Created" /\ Stations[2] = "EmailVerified"
        /\ Stations[3] = "ProfileComplete" /\ Stations[4] = "OrgJoined"
        /\ Stations[5] = "Active"
    BY <2>1
  <2>4. /\ Steps[1] = "EmailVerified" /\ Steps[2] = "ProfileCompleted"
        /\ Steps[3] = "OrgJoined" /\ Steps[4] = "Activated"
    BY <2>1
  <2>5. \A i, j \in 1 .. Len(Stations) : Stations[i] = Stations[j] => i = j
    BY <2>2, <2>3
  <2>6. \A i, j \in 1 .. Len(Steps) : Steps[i] = Steps[j] => i = j
    BY <2>2, <2>4
  <2>7. \A i \in 1 .. Len(Stations) : Stations[i] # Parked
    BY <2>1, <2>2, <2>3
  <2>8. \A i \in 1 .. Len(Steps) : Steps[i] # Park /\ (Steps[i] = Unpark => i = Len(Steps))
    BY <2>1, <2>2, <2>4
  <2> QED BY <2>1, <2>2, <2>3, <2>5, <2>6, <2>7, <2>8, <2>9
<1> QED BY <1>1, <1>2

(* Where a subject nobody parks is, how it came there, and which requests  *)
(* cannot have been settled yet.                                           *)
Standing(n) ==
  /\ state = Stations[n + 1]
  /\ path = SubSeq(Steps, 1, n)
  /\ \A i \in n + 1 .. Len(Steps) : Steps[i] \notin settled

OnboardingInvariant ==
  /\ TypeOK
  /\ Park \notin asked => \E n \in 0 .. Len(Steps) : Standing(n)

(* A new subject is at the first station.                                  *)
LEMMA OnboardingStart == OnboardingInit => OnboardingInvariant
<1> SUFFICES ASSUME OnboardingInit PROVE OnboardingInvariant
  OBVIOUS
<1>1. machine \in {"org", "user"}
  BY OnboardingAssumption DEF OnboardingInit
<1>2. state = Stations[1] /\ 1 \in 1 .. Len(Stations)
  BY <1>1, Route DEF OnboardingInit
<1>3. TypeOK
  BY <1>2 DEF OnboardingInit, TypeOK, States
<1>4. 0 \in 0 .. Len(Steps) /\ SubSeq(Steps, 1, 0) = <<>>
  BY <1>1, Route
<1>5. Standing(0)
  BY <1>2, <1>4 DEF OnboardingInit, Standing
<1> QED BY <1>3, <1>4, <1>5 DEF OnboardingInvariant

(* The tables themselves do not change. *)
LEMMA SameMachine ==
  ASSUME machine' = machine
  PROVE  /\ Stations' = Stations /\ Steps' = Steps /\ Park' = Park /\ Parked' = Parked
         /\ States' = States /\ Events' = Events
BY DEF Stations, Steps, Park, Parked, Unpark, States, Events

(* Asking moves nobody.                                                    *)
LEMMA AskKeeps ==
  ASSUME OnboardingInvariant, NEW event \in Events, Ask(event)
  PROVE  OnboardingInvariant'
<1> USE SameMachine DEF Ask, OnboardingInvariant
<1>1. TypeOK'
  BY DEF TypeOK
<1>2. Park \notin asked' => \E n \in 0 .. Len(Steps) : Standing(n)'
  BY DEF Standing
<1> QED BY <1>1, <1>2

(* From a station there is one way on, and it leads to the next.           *)
LEMMA OneEdge ==
  ASSUME machine \in {"org", "user"}, NEW n \in 0 .. Len(Steps), state = Stations[n + 1],
         NEW event, event # Park, NEW e \in EdgesOut(event)
  PROVE  n < Len(Steps) /\ event = Steps[n + 1] /\ e.to = Stations[n + 2]
<1>1. e \in transitions /\ e.from = state /\ e.event = event
  BY DEF EdgesOut
<1>2. n + 1 \in 1 .. Len(Stations) /\ Len(Steps) \in Nat
  BY Route
<1>3. state # Parked
  BY <1>2, Route
<1>4. e \in StepEdges
  BY <1>1, <1>3 DEF transitions, ParkEdges, Edge
<1>5. PICK i \in 1 .. Len(Steps) : e = Edge(Stations[i], Steps[i], Stations[i + 1])
  BY <1>4 DEF StepEdges
<1>6. e.from = Stations[i] /\ e.event = Steps[i] /\ e.to = Stations[i + 1] /\ i \in 1 .. Len(Stations)
  BY <1>2, <1>5, Route DEF Edge
<1>7. i = n + 1
  BY <1>1, <1>2, <1>6, Route
<1> QED BY <1>1, <1>2, <1>6, <1>7

(* And while the subject is not at the last station there is that way on.  *)
LEMMA NextEdge ==
  ASSUME machine \in {"org", "user"}, NEW n \in 0 .. Len(Steps), n < Len(Steps),
         state = Stations[n + 1]
  PROVE  EdgesOut(Steps[n + 1]) # {}
<1> DEFINE e == Edge(Stations[n + 1], Steps[n + 1], Stations[n + 1 + 1])
<1>1. n + 1 \in 1 .. Len(Steps)
  BY Route
<1>2. e \in StepEdges
  BY <1>1 DEF StepEdges
<1>3. e.from = state /\ e.event = Steps[n + 1]
  BY DEF Edge
<1> HIDE DEF e
<1> QED BY <1>2, <1>3 DEF EdgesOut, transitions

(* A delivery moves the subject to the next station or leaves it; what is  *)
(* settled without a move is behind it.                                    *)
LEMMA DeliverKeeps ==
  ASSUME OnboardingInvariant, NEW event \in Events, Deliver(event)
  PROVE  OnboardingInvariant'
<1>0. machine \in {"org", "user"} /\ TypeOK /\ event \in asked /\ UNCHANGED <<machine, asked>>
  BY OnboardingAssumption DEF OnboardingInvariant, TypeOK, Deliver
<1> USE <1>0, SameMachine
<1>1. TypeOK'
  <2>1. CASE Advanced(event)
    <3>1. PICK e \in EdgesOut(event) : state' = e.to
      BY <2>1 DEF Advanced
    <3>2. e.to \in States /\ e.to # "Created"
      <4>1. CASE e \in StepEdges
        <5>1. PICK i \in 1 .. Len(Steps) : e.to = Stations[i + 1]
          BY <4>1 DEF StepEdges, Edge
        <5>2. i + 1 \in 1 .. Len(Stations) /\ 1 \in 1 .. Len(Stations) /\ i + 1 # 1
          BY Route
        <5> QED BY <5>1, <5>2, Route DEF States
      <4>2. CASE e.to = Parked
        BY <4>2, Route DEF States
      <4>3. CASE e.to = "Active"
        <5>1. Len(Steps) + 1 \in 1 .. Len(Stations)
          BY Route
        <5> QED BY <4>3, <5>1, Route DEF States
      <4> QED BY <4>1, <4>2, <4>3 DEF EdgesOut, transitions, ParkEdges, Edge
    <3>3. settled' = settled \cup {event} /\ path' = Append(path, event)
      BY <2>1 DEF Advanced
    <3>4. path \in Seq(settled') /\ event \in settled'
      BY <3>3 DEF TypeOK
    <3>5. path' \in Seq(settled') /\ path' # <<>>
      BY <3>3, <3>4, AppendProperties
    <3> QED BY <3>1, <3>2, <3>3, <3>5 DEF TypeOK
  <2>2. CASE AlreadyThere(event)
    BY <2>2 DEF AlreadyThere, TypeOK
  <2>3. CASE Rejected(event)
    BY <2>3 DEF Rejected, TypeOK
  <2> QED BY <2>1, <2>2, <2>3 DEF Deliver
<1>2. ASSUME Park \notin asked PROVE \E n \in 0 .. Len(Steps) : Standing(n)'
  <2>0. event # Park
    BY <1>2
  <2>1. PICK n \in 0 .. Len(Steps) : Standing(n)
    BY <1>2 DEF OnboardingInvariant
  <2>2. n + 1 \in 1 .. Len(Stations) /\ Len(Steps) \in Nat /\ Steps \in Seq(Events)
    BY Route
  <2>3. CASE Advanced(event)
    <3>1. PICK e \in EdgesOut(event) : state' = e.to
      BY <2>3 DEF Advanced
    <3>2. n < Len(Steps) /\ event = Steps[n + 1] /\ e.to = Stations[n + 2]
      BY <2>0, <2>1, OneEdge DEF Standing
    <3>3. n + 1 \in 0 .. Len(Steps) /\ n + 1 \in 1 .. Len(Steps) /\ n + 1 + 1 = n + 2
      BY <2>2, <3>2
    <3>4. path' = SubSeq(Steps, 1, n + 1)
      <4>1. path' = Append(SubSeq(Steps, 1, n), Steps[n + 1])
        BY <2>1, <2>3, <3>2 DEF Standing, Advanced
      <4> DEFINE a == SubSeq(Steps, 1, n)  b == SubSeq(Steps, 1, n + 1)
      <4>2. /\ a \in Seq(Events) /\ Len(a) = n /\ \A i \in 1 .. n : a[i] = Steps[i]
            /\ b \in Seq(Events) /\ Len(b) = n + 1 /\ \A i \in 1 .. n + 1 : b[i] = Steps[i]
        BY <2>2, <3>3, SubSeqProperties
      <4>3. Steps[n + 1] \in Events
        BY <2>2, <3>3
      <4> HIDE DEF a, b
      <4>4. Append(a, Steps[n + 1]) = b
        <5>1. /\ Append(a, Steps[n + 1]) \in Seq(Events) /\ Len(Append(a, Steps[n + 1])) = n + 1
              /\ \A i \in 1 .. n : Append(a, Steps[n + 1])[i] = a[i]
              /\ Append(a, Steps[n + 1])[n + 1] = Steps[n + 1]
          BY <4>2, <4>3, AppendProperties
        <5>2. \A i \in 1 .. n + 1 : Append(a, Steps[n + 1])[i] = b[i]
          <6> SUFFICES ASSUME NEW i \in 1 .. n + 1 PROVE Append(a, Steps[n + 1])[i] = b[i]
            OBVIOUS
          <6>1. CASE i = n + 1
            BY <4>2, <5>1, <6>1
          <6>2. CASE i # n + 1
            <7>1. i \in 1 .. n
              BY <2>2, <6>2
            <7> QED BY <4>2, <5>1, <7>1
          <6> QED BY <6>1, <6>2
        <5> QED BY <4>2, <5>1, <5>2, SeqEqual
      <4> QED BY <4>1, <4>4 DEF a, b
    <3>5. \A i \in n + 1 + 1 .. Len(Steps) : Steps[i] \notin settled'
      <4>1. settled' = settled \cup {Steps[n + 1]}
        BY <2>3, <3>2 DEF Advanced
      <4> SUFFICES ASSUME NEW i \in n + 1 + 1 .. Len(Steps) PROVE Steps[i] \notin settled'
        OBVIOUS
      <4>2. i \in n + 1 .. Len(Steps) /\ i \in 1 .. Len(Steps) /\ i # n + 1
        BY <2>2
      <4>3. Steps[i] # Steps[n + 1]
        BY <3>3, <4>2, Route
      <4> QED BY <2>1, <4>1, <4>2, <4>3 DEF Standing
    <3>6. Standing(n + 1)'
      BY <3>1, <3>2, <3>3, <3>4, <3>5 DEF Standing
    <3> QED BY <3>3, <3>6
  <2>4. CASE AlreadyThere(event)
    <3>1. PICK e \in transitions : e.event = event /\ e.to = state
      BY <2>4 DEF AlreadyThere, IsThere
    <3>2. state # Parked
      BY <2>1, <2>2, Route DEF Standing
    <3>3. \A i \in n + 1 .. Len(Steps) : Steps[i] # event
      <4> SUFFICES ASSUME NEW i \in n + 1 .. Len(Steps), Steps[i] = event PROVE FALSE
        OBVIOUS
      <4>0. i \in 1 .. Len(Steps) /\ i + 1 \in 1 .. Len(Stations) /\ i # n
        BY <2>2, Route
      <4>1. CASE e \in StepEdges
        <5>1. PICK j \in 1 .. Len(Steps) : e.event = Steps[j] /\ e.to = Stations[j + 1]
          BY <4>1 DEF StepEdges, Edge
        <5>2. j = i /\ j + 1 \in 1 .. Len(Stations)
          BY <3>1, <4>0, <5>1, Route
        <5>3. Stations[i + 1] = Stations[n + 1]
          BY <2>1, <3>1, <5>1, <5>2 DEF Standing
        <5>4. i + 1 = n + 1
          BY <2>2, <4>0, <5>3, Route
        <5> QED BY <2>2, <4>0, <5>4
      <4>2. CASE e = Edge(Parked, Unpark, "Active")
        <5>1. event = Unpark /\ state = "Active"
          BY <3>1, <4>2 DEF Edge
        <5>2. i = Len(Steps)
          BY <4>0, <5>1, Route
        <5>3. Len(Steps) + 1 \in 1 .. Len(Stations) /\ Stations[n + 1] = Stations[Len(Steps) + 1]
          BY <2>1, <2>2, <5>1, Route DEF Standing
        <5>4. n + 1 = Len(Steps) + 1
          BY <2>2, <5>3, Route
        <5> QED BY <2>2, <4>0, <5>2, <5>4
      <4> QED BY <3>1, <3>2, <4>1, <4>2 DEF transitions, ParkEdges, Edge
    <3>4. Standing(n)'
      BY <2>1, <2>4, <3>3 DEF Standing, AlreadyThere
    <3> QED BY <3>4
  <2>5. CASE Rejected(event)
    BY <2>1, <2>5 DEF Standing, Rejected
  <2> QED BY <2>3, <2>4, <2>5 DEF Deliver
<1> QED BY <1>1, <1>2 DEF OnboardingInvariant

(* No step leaves the invariant.                                           *)
LEMMA OnboardingStep == OnboardingInvariant /\ [OnboardingNext]_onboarding => OnboardingInvariant'
<1> SUFFICES ASSUME OnboardingInvariant, [OnboardingNext]_onboarding PROVE OnboardingInvariant'
  OBVIOUS
<1>1. CASE UNCHANGED onboarding
  <2>1. machine' = machine
    BY <1>1 DEF onboarding
  <2> QED BY <1>1, <2>1, SameMachine DEF onboarding, OnboardingInvariant, TypeOK, Standing
<1>2. CASE OnboardingNext
  BY <1>2, AskKeeps, DeliverKeeps DEF OnboardingNext
<1> QED BY <1>1, <1>2

(* The invariant holds whatever the order and the repetitions of requests. *)
THEOREM OnboardingIsInvariant == OnboardingSpec => []OnboardingInvariant
BY OnboardingStart, OnboardingStep, PTL DEF OnboardingSpec

(* What is remembered of a subject has its type; settled requests were     *)
(* asked for, and nothing leads back to Created.                           *)
THEOREM OnboardingTypeCorrect == OnboardingSpec => []TypeOK
BY OnboardingIsInvariant, PTL DEF OnboardingInvariant

(* Nobody skips a station, however requests are reordered and repeated.    *)
THEOREM NoStationSkipped == OnboardingSpec => []StationsInOrder
<1>1. OnboardingInvariant => StationsInOrder
  BY DEF OnboardingInvariant, StationsInOrder, Standing
<1> QED BY <1>1, OnboardingIsInvariant, PTL

(* Repeating what is not settled is enough: the request that moves the     *)
(* subject on is always among them.                                        *)
THEOREM RepeatingSuffices == OnboardingSpec => []RepeatsSuffice
<1>1. OnboardingInvariant => RepeatsSuffice
  <2> SUFFICES ASSUME OnboardingInvariant, {Steps[i] : i \in 1 .. Len(Steps)} \subseteq asked,
                      Park \notin asked, state # "Active"
               PROVE  \E event \in asked \ settled : EdgesOut(event) # {}
    BY DEF RepeatsSuffice
  <2>0. machine \in {"org", "user"}
    BY OnboardingAssumption DEF OnboardingInvariant, TypeOK
  <2>1. PICK n \in 0 .. Len(Steps) : Standing(n)
    BY DEF OnboardingInvariant
  <2>2. Len(Steps) \in Nat /\ n < Len(Steps)
    BY <2>0, <2>1, Route DEF Standing
  <2>3. n + 1 \in 1 .. Len(Steps) /\ n + 1 \in n + 1 .. Len(Steps)
    BY <2>2
  <2>4. Steps[n + 1] \in asked \ settled
    BY <2>1, <2>3 DEF Standing
  <2>5. EdgesOut(Steps[n + 1]) # {}
    BY <2>0, <2>1, <2>2, NextEdge DEF Standing
  <2> QED BY <2>4, <2>5
<1> QED BY <1>1, OnboardingIsInvariant, PTL

---------------------------------------------------------------------------
(* Downwards, between two numbers.                                         *)
LEMMA DownInduction ==
  ASSUME NEW lo \in Nat, NEW hi \in Nat, NEW T, hi \in T,
         \A k \in lo .. hi - 1 : k + 1 \in T => k \in T
  PROVE  lo .. hi \subseteq T
<1> DEFINE S == {n \in Nat : lo <= hi - n => hi - n \in T}
<1>1. 0 \in S
  BY Zenon, SMT
<1>2. ASSUME NEW n \in Nat, n \in S PROVE n + 1 \in S
  <2> SUFFICES ASSUME lo <= hi - (n + 1) PROVE hi - (n + 1) \in T
    OBVIOUS
  <2>1. hi - n \in T /\ hi - (n + 1) \in lo .. hi - 1 /\ hi - (n + 1) + 1 = hi - n
    BY <1>2
  <2> QED BY <2>1
<1>3. Nat \subseteq S
  <2> HIDE DEF S
  <2> QED BY <1>1, <1>2, SetInduction
<1>4. ASSUME NEW k \in lo .. hi PROVE k \in T
  <2>1. hi - k \in Nat /\ hi - (hi - k) = k /\ lo <= k
    OBVIOUS
  <2>2. hi - k \in S
    BY <1>3, <2>1
  <2> QED BY <2>1, <2>2
<1> QED BY <1>4

---------------------------------------------------------------------------
(* Matching.  What atoms from a on match of a text is one of the recursive *)
(* function's values (match_from, pattern.rs:184-208).                     *)
Atoms == [item : SUBSET Charset, min : Nat, max : Nat]
IsAtoms(line) == line \in Seq(Atoms)
IsText(t) == t \in Seq(Charset)

LEMMA AtomsAre ==
  ASSUME NEW line, IsAtoms(line)
  PROVE  /\ Len(line) \in Nat
         /\ \A b \in 1 .. Len(line) : line[b] \in Atoms /\ line[b].min \in Nat /\ line[b].max \in Nat
<1>1. line \in Seq(Atoms)
  BY DEF IsAtoms
<1>2. Len(line) \in Nat /\ \A b \in 1 .. Len(line) : line[b] \in Atoms
  BY <1>1, LenProperties, ElementOfSeq
<1> QED BY <1>2 DEF Atoms

LEMMA NextInterval ==
  ASSUME NEW k \in Nat
  PROVE  1 .. k + 1 = (1 .. k) \cup {k + 1}
OBVIOUS

LEMMA TextIs ==
  ASSUME NEW t, IsText(t)
  PROVE  Len(t) \in Nat
BY LenProperties DEF IsText

MatchAt(f, pt, t, a) ==
  IF a > Len(pt.atoms) THEN {pos \in 1 .. Len(t) + 1 : pt.end => pos = Len(t) + 1}
  ELSE {pos \in 1 .. Len(t) + 1 : Ends(pt.atoms[a], t, pos) \cap f[a + 1] # {}}
IsMatcher(f, pt, t, lo) == f = [a \in lo .. Len(pt.atoms) + 1 |-> MatchAt(f, pt, t, a)]

LEMMA MatcherExists ==
  ASSUME NEW pt, NEW t, IsAtoms(pt.atoms)
  PROVE  \E f : IsMatcher(f, pt, t, 1)
<1> DEFINE n == Len(pt.atoms)
           T == {k \in Nat : \E f : IsMatcher(f, pt, t, k)}
<1>1. n \in Nat
  BY AtomsAre
<1>2. n + 1 \in T
  <2> DEFINE f == [a \in n + 1 .. n + 1 |-> {pos \in 1 .. Len(t) + 1 : pt.end => pos = Len(t) + 1}]
  <2> HIDE DEF n
  <2>1. \A a \in n + 1 .. n + 1 : a > n /\ f[a] = MatchAt(f, pt, t, a)
    BY <1>1 DEF MatchAt, n
  <2>2. f = [a \in n + 1 .. n + 1 |-> MatchAt(f, pt, t, a)]
    BY <2>1
  <2> HIDE DEF f
  <2>3. IsMatcher(f, pt, t, n + 1)
    BY <2>2 DEF IsMatcher, n
  <2> QED BY <1>1, <2>3
<1>3. ASSUME NEW k \in 1 .. n + 1 - 1, k + 1 \in T PROVE k \in T
  <2>1. PICK f : IsMatcher(f, pt, t, k + 1)
    BY <1>3
  <2> DEFINE g == [a \in k .. n + 1 |-> IF a = k THEN MatchAt(f, pt, t, k) ELSE f[a]]
  <2>2. /\ k \in Nat /\ \A a \in k .. n + 1 : a = k \/ a \in k + 1 .. n + 1
        /\ \A a \in k .. n + 1 : a <= n => a + 1 # k /\ a + 1 \in k .. n + 1
        /\ \A a \in k .. n + 1 : ~(a > n) <=> a <= n
    BY <1>1
  <2>3. \A a \in k + 1 .. n + 1 : f[a] = MatchAt(f, pt, t, a)
    BY <2>1 DEF IsMatcher
  <2>4. ASSUME NEW a \in k .. n + 1 PROVE MatchAt(f, pt, t, a) = MatchAt(g, pt, t, a)
    <3>1. a <= n => g[a + 1] = f[a + 1]
      BY <2>2
    <3> HIDE DEF g
    <3> QED BY <2>2, <3>1 DEF MatchAt
  <2>5. \A a \in k .. n + 1 : g[a] = MatchAt(g, pt, t, a)
    <3>1. \A a \in k .. n + 1 : g[a] = MatchAt(f, pt, t, a)
      BY <2>2, <2>3
    <3> HIDE DEF g
    <3> QED BY <2>4, <3>1
  <2>6. g = [a \in k .. n + 1 |-> MatchAt(g, pt, t, a)]
    BY <2>5
  <2> QED BY <2>2, <2>6 DEF IsMatcher
<1>4. 1 .. n + 1 \subseteq T
  <2> DEFINE hi == n + 1
  <2>1. 1 \in Nat /\ hi \in Nat /\ hi \in T /\ \A k \in 1 .. hi - 1 : k + 1 \in T => k \in T
    BY <1>1, <1>2, <1>3
  <2> HIDE DEF T, hi
  <2>2. 1 .. hi \subseteq T
    BY <2>1, DownInduction
  <2> QED BY <2>2 DEF hi
<1>5. 1 \in T
  <2>1. 1 \in 1 .. n + 1
    BY <1>1
  <2> HIDE DEF T
  <2> QED BY <1>4, <2>1
<1> QED BY <1>5

(* Where a text is cut, if the atoms behind the a-th are to match it.      *)
Piece(atom, t, from, to) ==
  /\ from + atom.min <= to /\ to - from <= atom.max
  /\ \A i \in from + 1 .. to : t[i] \in atom.item
Cuts(line, a, t, cut) ==
  /\ cut \in [a .. Len(line) -> 0 .. Len(t)]
  /\ \A b \in a + 1 .. Len(line) : Piece(line[b], t, cut[b - 1], cut[b])
CutFrom(line, end, a, t, from) ==
  \E cut : Cuts(line, a, t, cut) /\ cut[a] = from /\ (end => cut[Len(line)] = Len(t))

LEMMA ReachedIsPiece ==
  ASSUME NEW atom \in Atoms, NEW t, IsText(t), NEW from \in 0 .. Len(t), NEW to \in Nat
  PROVE  to + 1 \in Reached(atom, t, from + 1) <=> to \in 0 .. Len(t) /\ Piece(atom, t, from, to)
<1>1. Len(t) \in Nat /\ atom.min \in Nat /\ atom.max \in Nat /\ from \in Nat
  <2>1. Len(t) \in Nat
    BY TextIs
  <2> QED BY <2>1 DEF Atoms
<1> DEFINE min == atom.min  max == atom.max  len == Len(t)
<1>2. /\ to + 1 - 1 = to /\ to + 1 - (from + 1) = to - from
      /\ min <= to - from <=> from + min <= to
      /\ from + min <= to /\ to <= len => to + 1 \in from + 1 .. len + 1
      /\ to + 1 \in from + 1 .. len + 1 => to \in 0 .. len
      /\ to \in 0 .. len => to <= len
  BY <1>1
<1> HIDE DEF min, max, len
<1>3. to + 1 \in Reached(atom, t, from + 1) <=>
        /\ to + 1 \in from + 1 .. len + 1 /\ min <= to - from /\ to - from <= max
        /\ \A i \in from + 1 .. to : t[i] \in atom.item
  BY <1>2 DEF Reached, min, max, len
<1>4. Piece(atom, t, from, to) <=>
        /\ from + min <= to /\ to - from <= max
        /\ \A i \in from + 1 .. to : t[i] \in atom.item
  BY DEF Piece, min, max
<1> QED BY <1>2, <1>3, <1>4 DEF len

(* A way to cut the rest, behind one more piece.                           *)
LEMMA CutOneMore ==
  ASSUME NEW line, IsAtoms(line), NEW end, NEW t, IsText(t),
         NEW a \in 0 .. Len(line) - 1, NEW from \in 0 .. Len(t)
  PROVE  CutFrom(line, end, a, t, from) <=>
           \E to \in 0 .. Len(t) : Piece(line[a + 1], t, from, to) /\ CutFrom(line, end, a + 1, t, to)
<1> DEFINE n == Len(line)  c == a + 1
<1>1. /\ n \in Nat /\ a \in Nat /\ c \in Nat /\ a < n /\ c <= n /\ c - 1 = a
      /\ \A b \in c .. n : b = c \/ b \in c + 1 .. n
      /\ \A b \in a .. n : b = a \/ b \in c .. n
      /\ \A b \in c + 1 .. n : b \in c .. n /\ b - 1 # a /\ b - 1 \in c .. n
      /\ \A b \in c .. n : b \in a .. n /\ b # a
      /\ c \in c .. n /\ n \in c .. n /\ a \in a .. n
  <2>1. n \in Nat /\ a \in Nat /\ c \in Nat /\ a < n /\ c = a + 1
    BY AtomsAre
  <2> HIDE DEF n, c
  <2> QED BY <2>1
<1> HIDE DEF n, c
<1>2. ASSUME CutFrom(line, end, a, t, from)
      PROVE  \E to \in 0 .. Len(t) : Piece(line[c], t, from, to) /\ CutFrom(line, end, c, t, to)
  <2>1. PICK cut : Cuts(line, a, t, cut) /\ cut[a] = from /\ (end => cut[n] = Len(t))
    BY <1>2 DEF CutFrom, n
  <2>2. cut \in [a .. n -> 0 .. Len(t)] /\ \A b \in c .. n : Piece(line[b], t, cut[b - 1], cut[b])
    BY <2>1 DEF Cuts, n, c
  <2> DEFINE rest == [b \in c .. n |-> cut[b]]
  <2>3. cut[c] \in 0 .. Len(t) /\ Piece(line[c], t, from, cut[c])
    BY <1>1, <2>1, <2>2
  <2>4. rest \in [c .. n -> 0 .. Len(t)] /\ \A b \in c .. n : rest[b] = cut[b]
    BY <1>1, <2>2
  <2> HIDE DEF rest
  <2>5. \A b \in c + 1 .. n : Piece(line[b], t, rest[b - 1], rest[b])
    BY <1>1, <2>2, <2>4
  <2>6. Cuts(line, c, t, rest)
    BY <2>4, <2>5 DEF Cuts, n
  <2>7. CutFrom(line, end, c, t, cut[c])
    BY <1>1, <2>1, <2>4, <2>6 DEF CutFrom, n
  <2> QED BY <2>3, <2>7
<1>3. ASSUME NEW to \in 0 .. Len(t), Piece(line[c], t, from, to), CutFrom(line, end, c, t, to)
      PROVE  CutFrom(line, end, a, t, from)
  <2>1. PICK rest : Cuts(line, c, t, rest) /\ rest[c] = to /\ (end => rest[n] = Len(t))
    BY <1>3 DEF CutFrom, n
  <2>2. rest \in [c .. n -> 0 .. Len(t)] /\ \A b \in c + 1 .. n : Piece(line[b], t, rest[b - 1], rest[b])
    BY <2>1 DEF Cuts, n
  <2> DEFINE cut == [b \in a .. n |-> IF b = a THEN from ELSE rest[b]]
  <2>3. cut \in [a .. n -> 0 .. Len(t)] /\ cut[a] = from /\ \A b \in c .. n : cut[b] = rest[b]
    BY <1>1, <2>2
  <2> HIDE DEF cut
  <2>4. \A b \in c + 1 .. n : Piece(line[b], t, cut[b - 1], cut[b])
    BY <1>1, <2>2, <2>3
  <2>5. Piece(line[c], t, cut[c - 1], cut[c])
    BY <1>1, <1>3, <2>1, <2>3
  <2>6. \A b \in c .. n : Piece(line[b], t, cut[b - 1], cut[b])
    BY <1>1, <2>4, <2>5
  <2>7. Cuts(line, a, t, cut)
    BY <2>3, <2>6 DEF Cuts, n, c
  <2>8. end => cut[n] = Len(t)
    BY <1>1, <2>1, <2>3
  <2> QED BY <2>3, <2>7, <2>8 DEF CutFrom, n
<1> QED BY <1>2, <1>3 DEF c

(* The positions the matcher answers are those from where the rest can be  *)
(* cut, by induction from the last atom to the first.                      *)
LEMMA MatcherCuts ==
  ASSUME NEW pt, IsAtoms(pt.atoms), NEW t, IsText(t), NEW f, IsMatcher(f, pt, t, 1),
         NEW a \in 0 .. Len(pt.atoms), NEW from \in 0 .. Len(t)
  PROVE  from + 1 \in f[a + 1] <=> CutFrom(pt.atoms, pt.end, a, t, from)
<1> DEFINE n == Len(pt.atoms)
           T == {k \in Nat : \A i \in 0 .. Len(t) : i + 1 \in f[k + 1] <=> CutFrom(pt.atoms, pt.end, k, t, i)}
<1>1. n \in Nat /\ Len(t) \in Nat /\ n + 1 > n /\ n + 1 \in 1 .. n + 1
  BY AtomsAre, TextIs
<1>2. \A k \in 1 .. n + 1 : f[k] = MatchAt(f, pt, t, k)
  BY DEF IsMatcher
<1> HIDE DEF n
<1>3. n \in T
  <2>1. f[n + 1] = {pos \in 1 .. Len(t) + 1 : pt.end => pos = Len(t) + 1}
    BY <1>1, <1>2 DEF MatchAt, n
  <2>2. ASSUME NEW i \in 0 .. Len(t)
        PROVE  i + 1 \in f[n + 1] <=> CutFrom(pt.atoms, pt.end, n, t, i)
    <3>1. n + 1 .. n = {} /\ n .. n = {n} /\ i + 1 \in 1 .. Len(t) + 1 /\ (i = Len(t) <=> i + 1 = Len(t) + 1)
      BY <1>1
    <3> DEFINE cut == [b \in n .. n |-> i]
    <3>2. cut \in [n .. n -> 0 .. Len(t)] /\ cut[n] = i
      BY <3>1
    <3> HIDE DEF cut
    <3>3. Cuts(pt.atoms, n, t, cut)
      BY <3>1, <3>2 DEF Cuts, n
    <3>4. CutFrom(pt.atoms, pt.end, n, t, i) <=> (pt.end => i = Len(t))
      BY <3>2, <3>3 DEF CutFrom, n
    <3> QED BY <2>1, <3>1, <3>4
  <2> QED BY <1>1, <2>2
<1>4. ASSUME NEW k \in 0 .. n - 1, k + 1 \in T PROVE k \in T
  <2> DEFINE c == k + 1
  <2>1. k \in Nat /\ c \in 1 .. n + 1 /\ ~(c > n) /\ c \in 1 .. n
    BY <1>1
  <2>2. \A i \in 0 .. Len(t) : i + 1 \in f[c + 1] <=> CutFrom(pt.atoms, pt.end, c, t, i)
    BY <1>4
  <2> HIDE DEF c
  <2>3. f[c] = {pos \in 1 .. Len(t) + 1 : Reached(pt.atoms[c], t, pos) \cap f[c + 1] # {}}
    BY <1>2, <2>1 DEF MatchAt, Ends, n
  <2>4. pt.atoms[c] \in Atoms
    BY <2>1, AtomsAre DEF n
  <2>5. ASSUME NEW i \in 0 .. Len(t)
        PROVE  i + 1 \in f[c] <=> CutFrom(pt.atoms, pt.end, k, t, i)
    <3>1. i + 1 \in 1 .. Len(t) + 1 /\ \A to \in 0 .. Len(t) : to \in Nat
      BY <1>1
    <3>2. \A to \in Nat : to + 1 \in Reached(pt.atoms[c], t, i + 1) <=> to \in 0 .. Len(t) /\ Piece(pt.atoms[c], t, i, to)
      BY <2>4, ReachedIsPiece
    <3>3. CutFrom(pt.atoms, pt.end, k, t, i) <=>
            \E to \in 0 .. Len(t) : Piece(pt.atoms[c], t, i, to) /\ CutFrom(pt.atoms, pt.end, c, t, to)
      BY CutOneMore DEF n, c
    <3>4. \A e \in Reached(pt.atoms[c], t, i + 1) : \E to \in Nat : e = to + 1
      <4> SUFFICES ASSUME NEW e \in Reached(pt.atoms[c], t, i + 1) PROVE \E to \in Nat : e = to + 1
        OBVIOUS
      <4>1. e \in i + 1 .. Len(t) + 1
        BY DEF Reached
      <4>2. e - 1 \in Nat /\ e = e - 1 + 1
        BY <4>1
      <4> QED BY <4>2
    <3>5. i + 1 \in f[c] <=> \E e \in Reached(pt.atoms[c], t, i + 1) : e \in f[c + 1]
      BY <2>3, <3>1
    <3>6. ASSUME i + 1 \in f[c] PROVE CutFrom(pt.atoms, pt.end, k, t, i)
      <4>1. PICK to \in Nat : to + 1 \in Reached(pt.atoms[c], t, i + 1) /\ to + 1 \in f[c + 1]
        BY <3>4, <3>5, <3>6
      <4> QED BY <2>2, <3>2, <3>3, <4>1
    <3>7. ASSUME CutFrom(pt.atoms, pt.end, k, t, i) PROVE i + 1 \in f[c]
      <4>1. PICK to \in 0 .. Len(t) : Piece(pt.atoms[c], t, i, to) /\ CutFrom(pt.atoms, pt.end, c, t, to)
        BY <3>3, <3>7
      <4>2. to + 1 \in Reached(pt.atoms[c], t, i + 1) /\ to + 1 \in f[c + 1]
        BY <2>2, <3>1, <3>2, <4>1
      <4> QED BY <3>5, <4>2
    <3> QED BY <3>6, <3>7
  <2>6. \A i \in 0 .. Len(t) : i + 1 \in f[k + 1] <=> CutFrom(pt.atoms, pt.end, k, t, i)
    BY <2>5 DEF c
  <2> QED BY <2>1, <2>6
<1>5. 0 .. n \subseteq T
  <2>1. 0 \in Nat /\ \A k \in 0 .. n - 1 : k + 1 \in T => k \in T
    BY <1>4
  <2> HIDE DEF T
  <2> QED BY <1>1, <1>3, <2>1, DownInduction
<1>6. a \in T
  BY <1>5 DEF n
<1> QED BY <1>6

(* Cuts go forward.                                                        *)
LEMMA CutsAscend ==
  ASSUME NEW line, IsAtoms(line), NEW t, IsText(t), NEW cut, Cuts(line, 0, t, cut), NEW b \in 0 .. Len(line)
  PROVE  cut[0] <= cut[b] /\ cut[b] <= cut[Len(line)]
<1> DEFINE n == Len(line)
           Up == {k \in Nat : k <= n => cut[0] <= cut[k]}
           Down == {k \in Nat : cut[k] <= cut[n]}
<1>1. n \in Nat /\ Len(t) \in Nat
  BY AtomsAre, TextIs
<1>2. \A k \in 0 .. n : cut[k] \in 0 .. Len(t) /\ cut[k] \in Nat
  BY <1>1 DEF Cuts
<1>3. \A k \in 1 .. n : cut[k - 1] <= cut[k]
  <2> SUFFICES ASSUME NEW k \in 1 .. n PROVE cut[k - 1] <= cut[k]
    OBVIOUS
  <2>1. line[k].min \in Nat
    BY AtomsAre
  <2>2. cut[k - 1] + line[k].min <= cut[k]
    BY DEF Cuts, Piece
  <2>3. cut[k - 1] \in Nat /\ cut[k] \in Nat
    BY <1>1, <1>2
  <2> QED BY <2>1, <2>2, <2>3
<1> HIDE DEF n
<1>4. 0 \in Up
  BY <1>1, <1>2
<1>5. ASSUME NEW k \in Nat, k \in Up PROVE k + 1 \in Up
  <2> SUFFICES ASSUME k + 1 <= n PROVE cut[0] <= cut[k + 1]
    OBVIOUS
  <2>1. k \in 0 .. n /\ k + 1 \in 1 .. n /\ k + 1 - 1 = k /\ k + 1 \in 0 .. n /\ 0 \in 0 .. n
    BY <1>1
  <2>2. cut[0] <= cut[k] /\ cut[k] <= cut[k + 1]
    BY <1>3, <1>5, <2>1
  <2>3. cut[0] \in Nat /\ cut[k] \in Nat /\ cut[k + 1] \in Nat
    BY <1>2, <2>1
  <2> QED BY <2>2, <2>3
<1>6. n \in Down
  BY <1>1, <1>2
<1>7. ASSUME NEW k \in 0 .. n - 1, k + 1 \in Down PROVE k \in Down
  <2>1. k \in 0 .. n /\ k + 1 \in 1 .. n /\ k + 1 - 1 = k /\ k + 1 \in 0 .. n /\ n \in 0 .. n /\ k \in Nat
    BY <1>1
  <2>2. cut[k + 1] <= cut[n] /\ cut[k] <= cut[k + 1]
    BY <1>3, <1>7, <2>1
  <2>3. cut[n] \in Nat /\ cut[k] \in Nat /\ cut[k + 1] \in Nat
    BY <1>2, <2>1
  <2> QED BY <2>1, <2>2, <2>3
<1>8. b \in Up /\ b \in Down
  <2>1. b \in Nat /\ b \in 0 .. n /\ 0 \in Nat
    BY <1>1 DEF n
  <2> HIDE DEF Up, Down
  <2>2. Nat \subseteq Up
    BY <1>4, <1>5, SetInduction
  <2>3. 0 .. n \subseteq Down
    BY <1>1, <1>6, <1>7, <2>1, DownInduction
  <2> QED BY <2>1, <2>2, <2>3
<1> QED BY <1>1, <1>8 DEF n

(* A piece of a text that the atoms denote is where a cut of the text that *)
(* begins there ends.                                                      *)
LEMMA DenotesIsCut ==
  ASSUME NEW line, IsAtoms(line), NEW t, IsText(t), NEW i \in 1 .. Len(t) + 1, NEW j \in i - 1 .. Len(t)
  PROVE  Denotes(line, SubSeq(t, i, j)) <=>
           \E cut : Cuts(line, 0, t, cut) /\ cut[0] = i - 1 /\ cut[Len(line)] = j
<1> DEFINE n == Len(line)  o == i - 1  m == j - o  u == SubSeq(t, i, j)
<1>1. n \in Nat /\ o \in Nat /\ j \in Nat /\ m \in Nat /\ Len(t) \in Nat /\ o <= j /\ j <= Len(t) /\ o + m = j /\ i = o + 1
  BY AtomsAre, TextIs
<1>2. Len(u) = m /\ \A k \in 1 .. m : u[k] = t[k + o]
  <2>1. i \in 1 .. Len(t) + 1 /\ j \in i - 1 .. Len(t)
    OBVIOUS
  <2>2. /\ Len(u) = IF i <= j THEN j - i + 1 ELSE 0
        /\ \A k \in 1 .. j - i + 1 : u[k] = t[i + k - 1]
    BY <1>1, SubSeqProperties DEF IsText
  <2>3. (IF i <= j THEN j - i + 1 ELSE 0) = m /\ j - i + 1 = m /\ \A k \in 1 .. m : i + k - 1 = k + o
    BY <1>1
  <2> QED BY <2>2, <2>3
<1> HIDE DEF n, o, m, u
<1>3. ASSUME NEW c1 \in Nat, NEW c2 \in Nat, c2 <= m, NEW atom, atom.min \in Nat
      PROVE  /\ c1 + o \in Nat /\ c2 + o \in Nat
             /\ Piece(atom, t, c1 + o, c2 + o) <=>
                  /\ c1 + atom.min <= c2 /\ c2 - c1 <= atom.max
                  /\ \A k \in c1 + 1 .. c2 : u[k] \in atom.item
  <2> DEFINE x1 == c1 + o  x2 == c2 + o
  <2>1. /\ x1 \in Nat /\ x2 \in Nat /\ x2 - x1 = c2 - c1
        /\ x1 + atom.min <= x2 <=> c1 + atom.min <= c2
        /\ \A k \in c1 + 1 .. c2 : k \in 1 .. m /\ k + o \in x1 + 1 .. x2
        /\ \A k \in x1 + 1 .. x2 : k - o \in c1 + 1 .. c2 /\ k - o + o = k
    BY <1>1, <1>3
  <2> HIDE DEF x1, x2
  <2>2. \A k \in c1 + 1 .. c2 : u[k] = t[k + o]
    BY <1>2, <2>1
  <2>3. (\A k \in c1 + 1 .. c2 : u[k] \in atom.item) <=> \A k \in x1 + 1 .. x2 : t[k] \in atom.item
    BY <2>1, <2>2
  <2>4. Piece(atom, t, x1, x2) <=>
          /\ c1 + atom.min <= c2 /\ c2 - c1 <= atom.max
          /\ \A k \in c1 + 1 .. c2 : u[k] \in atom.item
    BY <2>1, <2>3 DEF Piece
  <2> QED BY <2>1, <2>4 DEF x1, x2
<1>4. ASSUME NEW c, c \in [0 .. n -> 0 .. m], c[0] = 0, c[n] = m,
             \A a \in 1 .. n : /\ c[a - 1] + line[a].min <= c[a] /\ c[a] - c[a - 1] <= line[a].max
                               /\ \A k \in c[a - 1] + 1 .. c[a] : u[k] \in line[a].item
      PROVE  \E cut : Cuts(line, 0, t, cut) /\ cut[0] = o /\ cut[n] = j
  <2> DEFINE cut == [a \in 0 .. n |-> c[a] + o]
  <2>1. \A a \in 0 .. n : c[a] \in 0 .. m /\ c[a] \in Nat /\ c[a] <= m /\ c[a] + o \in 0 .. Len(t)
    <3>1. \A e \in 0 .. m : e \in Nat /\ e <= m /\ e + o \in 0 .. Len(t)
      BY <1>1
    <3>2. \A a \in 0 .. n : c[a] \in 0 .. m
      BY <1>4
    <3> QED BY <3>1, <3>2
  <2>2. cut \in [0 .. n -> 0 .. Len(t)] /\ \A a \in 0 .. n : cut[a] = c[a] + o
    BY <2>1
  <2> HIDE DEF cut
  <2>3. cut[0] = o /\ cut[n] = j
    BY <1>1, <1>4, <2>2
  <2>4. ASSUME NEW a \in 1 .. n PROVE Piece(line[a], t, cut[a - 1], cut[a])
    <3>1. a \in 0 .. n /\ a - 1 \in 0 .. n /\ line[a].min \in Nat
      BY <1>1, AtomsAre DEF n
    <3>2. Piece(line[a], t, c[a - 1] + o, c[a] + o)
      BY <1>3, <1>4, <2>1, <3>1
    <3> QED BY <2>2, <3>1, <3>2
  <2>5. Cuts(line, 0, t, cut)
    BY <2>2, <2>4 DEF Cuts, n
  <2> QED BY <2>3, <2>5
<1>5. ASSUME NEW cut, Cuts(line, 0, t, cut), cut[0] = o, cut[n] = j
      PROVE  \E c : /\ c \in [0 .. n -> 0 .. m] /\ c[0] = 0 /\ c[n] = m
                    /\ \A a \in 1 .. n : /\ c[a - 1] + line[a].min <= c[a] /\ c[a] - c[a - 1] <= line[a].max
                                         /\ \A k \in c[a - 1] + 1 .. c[a] : u[k] \in line[a].item
  <2> DEFINE c == [a \in 0 .. n |-> cut[a] - o]
  <2>1. \A a \in 0 .. n : cut[a] \in Nat /\ o <= cut[a] /\ cut[a] <= j
    <3>1. \A a \in 0 .. n : cut[a] \in 0 .. Len(t) /\ cut[0] <= cut[a] /\ cut[a] <= cut[n]
      BY <1>5, CutsAscend DEF Cuts, n
    <3> QED BY <1>1, <1>5, <3>1
  <2>2. \A a \in 0 .. n : cut[a] - o \in 0 .. m /\ cut[a] - o \in Nat /\ cut[a] - o <= m /\ cut[a] - o + o = cut[a]
    BY <1>1, <2>1
  <2>3. c \in [0 .. n -> 0 .. m] /\ \A a \in 0 .. n : c[a] = cut[a] - o
    BY <2>2
  <2> HIDE DEF c
  <2>4. c[0] = 0 /\ c[n] = m
    BY <1>1, <1>5, <2>3
  <2>5. ASSUME NEW a \in 1 .. n
        PROVE  /\ c[a - 1] + line[a].min <= c[a] /\ c[a] - c[a - 1] <= line[a].max
               /\ \A k \in c[a - 1] + 1 .. c[a] : u[k] \in line[a].item
    <3>1. a \in 0 .. n /\ a - 1 \in 0 .. n /\ line[a].min \in Nat
      BY <1>1, AtomsAre DEF n
    <3>2. Piece(line[a], t, cut[a - 1], cut[a])
      BY <1>5 DEF Cuts, n
    <3>3. c[a - 1] \in Nat /\ c[a] \in Nat /\ c[a] <= m /\ c[a - 1] + o = cut[a - 1] /\ c[a] + o = cut[a]
      BY <2>2, <2>3, <3>1
    <3> QED BY <1>3, <3>1, <3>2, <3>3
  <2> QED BY <2>3, <2>4, <2>5
<1>6. Denotes(line, u) <=>
        \E c \in [0 .. n -> 0 .. m] :
           /\ c[0] = 0 /\ c[n] = m
           /\ \A a \in 1 .. n : /\ c[a - 1] + line[a].min <= c[a] /\ c[a] - c[a - 1] <= line[a].max
                                /\ \A k \in c[a - 1] + 1 .. c[a] : u[k] \in line[a].item
  BY <1>2 DEF Denotes, n
<1>7. Denotes(line, u) <=> \E cut : Cuts(line, 0, t, cut) /\ cut[0] = o /\ cut[n] = j
  BY <1>4, <1>5, <1>6
<1> QED BY <1>7 DEF u, o, n

(* The search finds what the atoms denote.                                 *)
LEMMA MatchIsFound ==
  ASSUME NEW line, IsAtoms(line), NEW start \in BOOLEAN, NEW end \in BOOLEAN, NEW t, IsText(t)
  PROVE  is_match(Compiled(start, end, line), t) <=> Found(line, start, end, t)
<1> DEFINE pt == Compiled(start, end, line)
           f == CHOOSE g : g = [a \in 1 .. Len(pt.atoms) + 1 |-> MatchAt(g, pt, t, a)]
<1>1. pt.atoms = line /\ pt.start = start /\ pt.end = end
  BY DEF Compiled
<1> HIDE DEF pt
<1>2. is_match(pt, t) <=> IF start THEN 1 \in f[1] ELSE f[1] # {}
  BY <1>1 DEF is_match, MatchAt
<1>3. IsMatcher(f, pt, t, 1)
  BY <1>1, MatcherExists DEF IsMatcher
<1> HIDE DEF f
<1>4. Len(t) \in Nat /\ Len(line) \in Nat
  BY AtomsAre, TextIs
<1>5. f[1] \subseteq 1 .. Len(t) + 1
  <2>1. 1 \in 1 .. Len(line) + 1
    BY <1>4
  <2>2. f[1] = MatchAt(f, pt, t, 1)
    BY <1>1, <1>3, <2>1 DEF IsMatcher
  <2> QED BY <2>2 DEF MatchAt
<1>6. ASSUME NEW i \in 1 .. Len(t) + 1
      PROVE  i \in f[1] <=> \E j \in i - 1 .. Len(t) : (end => j = Len(t)) /\ Denotes(line, SubSeq(t, i, j))
  <2>1. i - 1 \in 0 .. Len(t) /\ i - 1 + 1 = i /\ 0 \in 0 .. Len(line) /\ 0 + 1 = 1
    BY <1>4
  <2>2. i \in f[1] <=> CutFrom(line, end, 0, t, i - 1)
    <3>1. i - 1 + 1 \in f[0 + 1] <=> CutFrom(pt.atoms, pt.end, 0, t, i - 1)
      BY <1>1, <1>3, <2>1, MatcherCuts
    <3> QED BY <1>1, <2>1, <3>1
  <2>3. ASSUME NEW cut, Cuts(line, 0, t, cut), cut[0] = i - 1 PROVE cut[Len(line)] \in i - 1 .. Len(t)
    <3>1. Len(line) \in 0 .. Len(line) /\ cut[Len(line)] \in 0 .. Len(t)
      BY <1>4, <2>3 DEF Cuts
    <3>2. cut[0] <= cut[Len(line)]
      BY <2>3, <3>1, CutsAscend
    <3> QED BY <1>4, <2>1, <2>3, <3>1, <3>2
  <2>4. \A j \in i - 1 .. Len(t) : Denotes(line, SubSeq(t, i, j)) <=>
           \E cut : Cuts(line, 0, t, cut) /\ cut[0] = i - 1 /\ cut[Len(line)] = j
    BY DenotesIsCut
  <2> QED BY <2>2, <2>3, <2>4 DEF CutFrom
<1>7. Found(line, start, end, t) <=> \E i \in 1 .. Len(t) + 1 : (start => i = 1) /\ i \in f[1]
  BY <1>6 DEF Found
<1>8. 1 \in 1 .. Len(t) + 1
  BY <1>4
<1>9. is_match(pt, t) <=> Found(line, start, end, t)
  BY <1>2, <1>5, <1>7, <1>8
<1> QED BY <1>9 DEF pt
---------------------------------------------------------------------------
(* Parsing.  Beyond the end of a text nothing is read.                     *)
LEMMA AtIs ==
  ASSUME NEW s, IsText(s)
  PROVE  /\ Len(s) \in Nat /\ "" \notin Charset
         /\ \A i \in 1 .. Len(s) : At(s, i) = s[i] /\ s[i] \in Charset /\ s[i] # ""
         /\ \A i : At(s, i) # "" => i \in 1 .. Len(s)
<1>1. s \in Seq(Charset) /\ "" \notin Charset
  BY PatternAssumption DEF IsText, PatternAssumption
<1>2. Len(s) \in Nat /\ DOMAIN s = 1 .. Len(s) /\ \A i \in 1 .. Len(s) : s[i] \in Charset
  BY <1>1, LenProperties, ElementOfSeq
<1> QED BY <1>1, <1>2 DEF At

LEMMA CharsetHas ==
  /\ "" \notin Charset
  /\ Digits \subseteq Charset /\ Letters \subseteq Charset /\ Spaces \subseteq Charset /\ Punctuation \subseteq Charset
  /\ {"\n", "\r", "\t", "d", "D", "w", "W", "s", "S", "n", "r", "t"} \subseteq Charset
  /\ {"^", "$", ".", "\\", "[", "]", "-", "*", "+", "?", "_"} \subseteq Charset
  /\ Many \in Nat /\ Many # 0 /\ Many # 1
BY PatternAssumption DEF PatternAssumption

LEMMA EscapesAre ==
  /\ Escapes \subseteq Charset /\ "" \notin Escapes
  /\ \A c \in Escapes : EscapePart(c) \subseteq Charset
  /\ \A lo, hi : Between(lo, hi) \subseteq Charset
<1>2. Escapes \subseteq Charset /\ "" \notin Escapes
  BY CharsetHas DEF Escapes
<1>3. ASSUME NEW c \in Escapes PROVE EscapePart(c) \subseteq Charset
  <2>1. c \in Charset /\ {c} \subseteq Charset
    BY <1>2
  <2>2. WordCharacters \subseteq Charset
    BY CharsetHas DEF WordCharacters
  <2>3. {"\n"} \subseteq Charset /\ {"\r"} \subseteq Charset /\ {"\t"} \subseteq Charset
    BY CharsetHas
  <2>4. \A set : Charset \ set \subseteq Charset
    OBVIOUS
  <2>5. CASE c \in {"d", "D", "w", "W", "s", "S", "n", "r", "t"}
    <3>1. CASE c = "d" BY <3>1, CharsetHas DEF EscapePart
    <3>2. CASE c = "D" BY <3>2, <2>4 DEF EscapePart
    <3>3. CASE c = "w" BY <3>3, <2>2 DEF EscapePart
    <3>4. CASE c = "W" BY <3>4, <2>4 DEF EscapePart
    <3>5. CASE c = "s" BY <3>5, CharsetHas DEF EscapePart
    <3>6. CASE c = "S" BY <3>6, <2>4 DEF EscapePart
    <3>7. CASE c = "n" BY <3>7, <2>3 DEF EscapePart
    <3>8. CASE c = "r" BY <3>8, <2>3 DEF EscapePart
    <3>9. CASE c = "t" BY <3>9, <2>3 DEF EscapePart
    <3> QED BY <2>5, <3>1, <3>2, <3>3, <3>4, <3>5, <3>6, <3>7, <3>8, <3>9
  <2>6. CASE c \notin {"d", "D", "w", "W", "s", "S", "n", "r", "t"}
    <3>1. EscapePart(c) = {c}
      BY <2>6 DEF EscapePart
    <3> QED BY <2>1, <3>1
  <2> QED BY <2>5, <2>6
<1> QED BY <1>2, <1>3 DEF Between

(* The parts of a class from a position on (parse_class, pattern.rs).      *)
PartAt(g, s, first, i) ==
  IF i > Len(s) THEN Refused
  ELSE IF s[i] = "]" /\ i # first THEN Read({}, i + 1)
  ELSE IF s[i] = "\\"
       THEN IF At(s, i + 1) \in Escapes
            THEN With(EscapePart(s[i + 1]), g[i + 2]) ELSE Refused
  ELSE IF IsRange(s, i)
       THEN IF Code(s[i + 2]) < Code(s[i]) THEN Refused
            ELSE With(Between(s[i], s[i + 2]), g[i + 3])
  ELSE With({s[i]}, g[i + 1])
IsParts(g, s, first, lo) == g = [i \in lo .. Len(s) + 1 |-> PartAt(g, s, first, i)]

(* What is read depends on the positions behind it only.                   *)
LEMMA PartBehind ==
  ASSUME NEW s, IsText(s), NEW first, NEW i \in Nat, i <= Len(s) + 1,
         NEW g, NEW h, \A j \in i + 1 .. Len(s) + 1 : g[j] = h[j]
  PROVE  PartAt(g, s, first, i) = PartAt(h, s, first, i)
<1>0. Len(s) \in Nat
  BY TextIs
<1>1. \A j : At(s, j) # "" => j \in 1 .. Len(s)
  BY AtIs
<1>2. /\ i <= Len(s) => g[i + 1] = h[i + 1]
      /\ i + 1 \in 1 .. Len(s) => g[i + 2] = h[i + 2]
      /\ i + 2 \in 1 .. Len(s) => g[i + 3] = h[i + 3]
  <2>1. /\ i <= Len(s) => i + 1 \in i + 1 .. Len(s) + 1
        /\ i + 1 \in 1 .. Len(s) => i + 2 \in i + 1 .. Len(s) + 1
        /\ i + 2 \in 1 .. Len(s) => i + 3 \in i + 1 .. Len(s) + 1
    BY <1>0
  <2> QED BY <2>1
<1>3. At(s, i + 1) \in Escapes => g[i + 2] = h[i + 2]
  <2>1. At(s, i + 1) \in Escapes => i + 1 \in 1 .. Len(s)
    BY <1>1, EscapesAre
  <2> QED BY <1>2, <2>1
<1>4. IsRange(s, i) => g[i + 3] = h[i + 3]
  <2>1. IsRange(s, i) => i + 2 \in 1 .. Len(s)
    BY <1>1 DEF IsRange
  <2> QED BY <1>2, <2>1
<1>5. i > Len(s) \/ i <= Len(s)
  BY <1>0
<1> QED BY <1>2, <1>3, <1>4, <1>5 DEF PartAt

LEMMA PartsExist ==
  ASSUME NEW s, IsText(s), NEW first \in 1 .. Len(s) + 1
  PROVE  \E g : IsParts(g, s, first, first)
<1> DEFINE hi == Len(s) + 1
           T == {k \in Nat : \E g : IsParts(g, s, first, k)}
<1>1. hi \in Nat /\ first \in Nat /\ first <= hi /\ Len(s) \in Nat
  BY TextIs
<1>2. hi \in T
  <2> DEFINE g == [i \in hi .. hi |-> Refused]
  <2>1. \A i \in hi .. hi : i > Len(s) /\ g[i] = PartAt(g, s, first, i)
    BY <1>1 DEF PartAt
  <2>2. g = [i \in hi .. hi |-> PartAt(g, s, first, i)]
    BY <2>1
  <2> HIDE DEF g
  <2> QED BY <1>1, <2>2 DEF IsParts
<1>3. ASSUME NEW k \in first .. hi - 1, k + 1 \in T PROVE k \in T
  <2>1. PICK f : IsParts(f, s, first, k + 1)
    BY <1>3
  <2> DEFINE g == [i \in k .. hi |-> IF i = k THEN PartAt(f, s, first, k) ELSE f[i]]
  <2>2. /\ k \in Nat /\ k <= hi /\ \A i \in k .. hi : i = k \/ i \in k + 1 .. hi
        /\ \A i \in k .. hi : i \in Nat /\ i <= hi /\ \A j \in i + 1 .. hi : j # k /\ j \in k .. hi
    BY <1>1
  <2>3. \A i \in k + 1 .. hi : f[i] = PartAt(f, s, first, i)
    BY <2>1 DEF IsParts
  <2>4. \A i \in k .. hi : PartAt(f, s, first, i) = PartAt(g, s, first, i)
    <3> SUFFICES ASSUME NEW i \in k .. hi PROVE PartAt(f, s, first, i) = PartAt(g, s, first, i)
      OBVIOUS
    <3>1. \A j \in i + 1 .. hi : f[j] = g[j]
      BY <2>2
    <3> HIDE DEF g
    <3> QED BY <2>2, <3>1, PartBehind
  <2>5. \A i \in k .. hi : g[i] = PartAt(f, s, first, i)
    BY <2>2, <2>3
  <2>6. g = [i \in k .. hi |-> g[i]]
    OBVIOUS
  <2> HIDE DEF g
  <2>7. g = [i \in k .. hi |-> PartAt(g, s, first, i)]
    BY <2>4, <2>5, <2>6
  <2> QED BY <2>2, <2>7 DEF IsParts
<1>4. first .. hi \subseteq T
  <2> HIDE DEF T, hi
  <2> QED BY <1>1, <1>2, <1>3, DownInduction
<1>5. first \in T
  <2> HIDE DEF T, hi
  <2> QED BY <1>1, <1>4
<1> QED BY <1>5

(* Either nothing is read, or characters and the position goes on.         *)
Reads(s, i, r) ==
  \/ r = Refused
  \/ \E set \in SUBSET Charset, next \in i + 1 .. Len(s) + 1 : r = Read(set, next)

LEMMA ReadHas ==
  ASSUME NEW set, NEW next
  PROVE  Read(set, next).set = set /\ Read(set, next).next = next /\ Refused.set = {} /\ Refused.next = 0
BY DEF Read, Refused

LEMMA WithReads ==
  ASSUME NEW s, IsText(s), NEW i \in Nat, NEW j \in Nat, i < j, NEW r, Reads(s, j, r), NEW set, set \subseteq Charset
  PROVE  Reads(s, i, With(set, r))
<1>1. CASE r = Refused
  <2>1. With(set, r) = Refused
    BY <1>1, ReadHas DEF With
  <2> QED BY <2>1 DEF Reads
<1>2. CASE r # Refused
  <2>1. PICK more \in SUBSET Charset, next \in j + 1 .. Len(s) + 1 : r = Read(more, next)
    BY <1>2 DEF Reads
  <2>2. next \in i + 1 .. Len(s) + 1 /\ next # 0 /\ set \cup more \in SUBSET Charset
    <3>1. Len(s) \in Nat
      BY TextIs
    <3> QED BY <3>1
  <2>3. r.next = next /\ r.set = more
    BY <2>1, ReadHas
  <2>4. With(set, r) = Read(set \cup more, next)
    BY <2>2, <2>3 DEF With
  <2> QED BY <2>2, <2>4 DEF Reads
<1> QED BY <1>1, <1>2

LEMMA PartsRead ==
  ASSUME NEW s, IsText(s), NEW first \in 1 .. Len(s) + 1, NEW g, IsParts(g, s, first, first),
         NEW i \in first .. Len(s) + 1
  PROVE  Reads(s, i, g[i])
<1> DEFINE hi == Len(s) + 1
           T == {k \in Nat : \A j \in k .. hi : Reads(s, j, g[j])}
<1>1. hi \in Nat /\ first \in Nat /\ first <= hi /\ Len(s) \in Nat
  BY TextIs
<1>2. \A j \in first .. hi : g[j] = PartAt(g, s, first, j)
  BY DEF IsParts
<1>3. hi \in T
  <2>1. \A j \in hi .. hi : j = hi /\ j > Len(s) /\ j \in first .. hi
    BY <1>1
  <2>2. g[hi] = Refused
    <3>1. hi \in first .. hi /\ hi > Len(s)
      BY <1>1
    <3>2. g[hi] = PartAt(g, s, first, hi)
      BY <1>2, <3>1
    <3> QED BY <3>1, <3>2 DEF PartAt
  <2> HIDE DEF hi
  <2> QED BY <1>1, <2>1, <2>2 DEF Reads
<1>4. ASSUME NEW k \in first .. hi - 1, k + 1 \in T PROVE k \in T
  <2>1. k \in Nat /\ k \in 1 .. Len(s) /\ ~(k > Len(s)) /\ k \in first .. hi /\ k + 1 \in Nat /\ k + 2 \in Nat /\ k + 3 \in Nat
        /\ k < k + 1 /\ k < k + 2 /\ k < k + 3
    BY <1>1
  <2>2. \A j \in k + 1 .. hi : Reads(s, j, g[j])
    BY <1>4
  <2>3. Reads(s, k, g[k])
    <3>1. g[k] = PartAt(g, s, first, k)
      BY <1>2, <2>1
    <3>2. \A j : At(s, j) # "" => j \in 1 .. Len(s)
      BY AtIs
    <3>3. s[k] \in Charset /\ {s[k]} \subseteq Charset /\ {} \in SUBSET Charset
      BY <2>1, AtIs
    <3>4. g[k] = Refused => Reads(s, k, g[k])
      BY DEF Reads
    <3>5. g[k] = Read({}, k + 1) => Reads(s, k, g[k])
      <4>1. k + 1 \in k + 1 .. Len(s) + 1
        BY <1>1, <2>1
      <4> QED BY <3>3, <4>1 DEF Reads
    <3>6. CASE At(s, k + 1) \in Escapes /\ g[k] = With(EscapePart(s[k + 1]), g[k + 2])
      <4>1. k + 1 \in 1 .. Len(s) /\ At(s, k + 1) = s[k + 1]
        BY <3>2, <3>6, EscapesAre, AtIs
      <4>2. Reads(s, k + 2, g[k + 2])
        BY <1>1, <2>1, <2>2, <4>1
      <4>3. EscapePart(s[k + 1]) \subseteq Charset
        BY <3>6, <4>1, EscapesAre
      <4> QED BY <2>1, <3>6, <4>2, <4>3, WithReads
    <3>7. CASE IsRange(s, k) /\ g[k] = With(Between(s[k], s[k + 2]), g[k + 3])
      <4>1. k + 2 \in 1 .. Len(s)
        BY <3>2, <3>7 DEF IsRange
      <4>2. Reads(s, k + 3, g[k + 3])
        BY <1>1, <2>1, <2>2, <4>1
      <4>3. Between(s[k], s[k + 2]) \subseteq Charset
        BY EscapesAre
      <4> QED BY <2>1, <3>7, <4>2, <4>3, WithReads
    <3>8. CASE g[k] = With({s[k]}, g[k + 1])
      <4>1. Reads(s, k + 1, g[k + 1])
        BY <1>1, <2>1, <2>2
      <4> QED BY <2>1, <3>3, <3>8, <4>1, WithReads
    <3>9. \/ g[k] = Refused \/ g[k] = Read({}, k + 1)
          \/ At(s, k + 1) \in Escapes /\ g[k] = With(EscapePart(s[k + 1]), g[k + 2])
          \/ IsRange(s, k) /\ g[k] = With(Between(s[k], s[k + 2]), g[k + 3])
          \/ g[k] = With({s[k]}, g[k + 1])
      BY <2>1, <3>1 DEF PartAt
    <3> QED BY <3>4, <3>5, <3>6, <3>7, <3>8, <3>9
  <2>4. \A j \in k .. hi : j = k \/ j \in k + 1 .. hi
    BY <1>1, <2>1
  <2> QED BY <2>1, <2>2, <2>3, <2>4
<1>5. first .. hi \subseteq T
  <2> HIDE DEF T, hi
  <2> QED BY <1>1, <1>3, <1>4, DownInduction
<1>6. i \in T /\ i \in i .. hi
  <2>1. i \in first .. hi
    OBVIOUS
  <2> HIDE DEF T, hi
  <2> QED BY <1>1, <1>5, <2>1
<1> QED BY <1>6

(* parse_class, as one of these readings.                                  *)
Negates(s, open) == At(s, open + 1) = "^"
FirstOf(s, open) == IF Negates(s, open) THEN open + 2 ELSE open + 1

LEMMA ClassIs ==
  ASSUME NEW s, IsText(s), NEW open \in 1 .. Len(s)
  PROVE  /\ FirstOf(s, open) \in open + 1 .. Len(s) + 1 /\ FirstOf(s, open) \in 1 .. Len(s) + 1
         /\ \E g : /\ IsParts(g, s, FirstOf(s, open), FirstOf(s, open))
                   /\ parse_class(s, open) =
                        LET class == g[FirstOf(s, open)] IN
                        IF Negates(s, open) /\ class.next # 0
                        THEN Read(Charset \ class.set, class.next) ELSE class
<1> DEFINE first == FirstOf(s, open)
           g == CHOOSE h : h = [i \in first .. Len(s) + 1 |-> PartAt(h, s, first, i)]
           class == IF first > Len(s) THEN Refused ELSE g[first]
<1>1. first \in open + 1 .. Len(s) + 1 /\ first \in 1 .. Len(s) + 1 /\ Len(s) \in Nat
  <2>1. Len(s) \in Nat /\ (Negates(s, open) => open + 1 \in 1 .. Len(s))
    BY AtIs DEF Negates
  <2> QED BY <2>1 DEF FirstOf
<1>2. parse_class(s, open) = IF Negates(s, open) /\ class.next # 0
                             THEN Read(Charset \ class.set, class.next) ELSE class
  BY DEF parse_class, PartAt, FirstOf, Negates
<1> HIDE DEF first
<1>3. IsParts(g, s, first, first)
  BY <1>1, PartsExist DEF IsParts
<1> HIDE DEF g
<1>4. class = g[first]
  <2>1. g[first] = PartAt(g, s, first, first)
    BY <1>1, <1>3 DEF IsParts
  <2> QED BY <2>1 DEF PartAt
<1> HIDE DEF class
<1> QED BY <1>1, <1>2, <1>3, <1>4 DEF first

LEMMA ItemReads ==
  ASSUME NEW s, IsText(s), NEW i \in 1 .. Len(s)
  PROVE  Reads(s, i, ReadItem(s, i))
<1>1. Len(s) \in Nat /\ i \in Nat
  BY TextIs
<1>2. s[i] \in Charset
  BY AtIs
<1>3. i + 1 \in i + 1 .. Len(s) + 1
  BY <1>1
<1>4. Reads(s, i, Refused)
  BY DEF Reads
<1>5. Reads(s, i, Read(Charset \ {"\n"}, i + 1)) /\ Reads(s, i, Read({s[i]}, i + 1))
  <2>1. Charset \ {"\n"} \in SUBSET Charset /\ {s[i]} \in SUBSET Charset
    BY <1>2
  <2> QED BY <1>3, <2>1 DEF Reads
<1>6. At(s, i + 1) \in Escapes => Reads(s, i, Read(EscapePart(s[i + 1]), i + 2))
  <2> SUFFICES ASSUME At(s, i + 1) \in Escapes PROVE Reads(s, i, Read(EscapePart(s[i + 1]), i + 2))
    OBVIOUS
  <2>1. i + 1 \in 1 .. Len(s) /\ At(s, i + 1) = s[i + 1]
    BY EscapesAre, AtIs
  <2>2. i + 2 \in i + 1 .. Len(s) + 1
    BY <1>1, <2>1
  <2>3. EscapePart(s[i + 1]) \in SUBSET Charset
    BY <2>1, EscapesAre
  <2> QED BY <2>2, <2>3 DEF Reads
<1>7. Reads(s, i, parse_class(s, i))
  <2> DEFINE first == FirstOf(s, i)
  <2>1. first \in i + 1 .. Len(s) + 1 /\ first \in 1 .. Len(s) + 1
    BY ClassIs
  <2>2. PICK g : /\ IsParts(g, s, first, first)
                 /\ parse_class(s, i) = LET class == g[first] IN
                        IF Negates(s, i) /\ class.next # 0
                        THEN Read(Charset \ class.set, class.next) ELSE class
    BY ClassIs
  <2> HIDE DEF first
  <2>3. first \in first .. Len(s) + 1 /\ first + 1 \in Nat
    BY <1>1, <2>1
  <2>4. Reads(s, first, g[first])
    BY <2>1, <2>2, <2>3, PartsRead
  <2>5. CASE g[first] = Refused
    <3>1. g[first].next = 0
      BY <2>5, ReadHas
    <3> QED BY <2>2, <2>5, <3>1 DEF Reads
  <2>6. CASE g[first] # Refused
    <3>1. PICK set \in SUBSET Charset, next \in first + 1 .. Len(s) + 1 : g[first] = Read(set, next)
      BY <2>4, <2>6 DEF Reads
    <3>2. next \in i + 1 .. Len(s) + 1
      BY <1>1, <2>1, <3>1
    <3>3. g[first].next = next
      BY <3>1, ReadHas
    <3>4. Charset \ g[first].set \in SUBSET Charset
      OBVIOUS
    <3> QED BY <2>2, <3>1, <3>2, <3>3, <3>4 DEF Reads
  <2> QED BY <2>5, <2>6
<1>8. \/ ReadItem(s, i) = Refused \/ ReadItem(s, i) = Read(Charset \ {"\n"}, i + 1)
      \/ ReadItem(s, i) = Read({s[i]}, i + 1) \/ ReadItem(s, i) = parse_class(s, i)
      \/ At(s, i + 1) \in Escapes /\ ReadItem(s, i) = Read(EscapePart(s[i + 1]), i + 2)
  <2>1. CASE s[i] \in Outside BY <2>1 DEF ReadItem
  <2>2. CASE s[i] = "." BY <2>2 DEF ReadItem, Outside
  <2>3. CASE s[i] = "\\" BY <2>3 DEF ReadItem, Outside
  <2>4. CASE s[i] = "[" BY <2>4 DEF ReadItem, Outside
  <2>5. CASE s[i] \notin Outside \cup {".", "\\", "["} BY <2>5 DEF ReadItem
  <2> QED BY <2>1, <2>2, <2>3, <2>4, <2>5
<1> QED BY <1>4, <1>5, <1>6, <1>7, <1>8

(* The loop of parse from a position on.                                   *)
Quantifiers == {"*", "+", "?"}
Behind(s, r) == IF At(s, r.next) \in Quantifiers THEN r.next + 1 ELSE r.next
Join(line, r) == IF ~r.ok THEN NotCompiled ELSE [r EXCEPT !.atoms = line \o @]
RestAt(f, s, start, i) ==
  IF i > Len(s) THEN Compiled(start, FALSE, <<>>)
  ELSE IF s[i] = "$" /\ i = Len(s) THEN Compiled(start, TRUE, <<>>)
  ELSE LET r == ReadItem(s, i) IN
       IF r.next = 0 THEN NotCompiled
       ELSE Join(<<Quantified(r.set, At(s, r.next))>>, f[Behind(s, r)])
IsRest(f, s, start, lo) == f = [i \in lo .. Len(s) + 1 |-> RestAt(f, s, start, i)]

LEMMA BehindIs ==
  ASSUME NEW s, IsText(s), NEW i \in 1 .. Len(s), NEW r, Reads(s, i, r), r.next # 0
  PROVE  Behind(s, r) \in i + 1 .. Len(s) + 1
<1>1. PICK set \in SUBSET Charset, next \in i + 1 .. Len(s) + 1 : r = Read(set, next)
  <2>1. r # Refused
    BY ReadHas
  <2> QED BY <2>1 DEF Reads
<1>2. r.next = next
  BY <1>1, ReadHas
<1>3. Len(s) \in Nat
  BY TextIs
<1>4. At(s, next) \in Quantifiers => next \in 1 .. Len(s)
  <2>1. "" \notin Quantifiers
    BY DEF Quantifiers
  <2> QED BY <2>1, AtIs
<1>5. next \in 1 .. Len(s) => next + 1 \in i + 1 .. Len(s) + 1
  BY <1>3
<1> QED BY <1>2, <1>4, <1>5 DEF Behind

LEMMA RestBehind ==
  ASSUME NEW s, IsText(s), NEW start, NEW i \in 1 .. Len(s) + 1,
         NEW g, NEW h, \A j \in i + 1 .. Len(s) + 1 : g[j] = h[j]
  PROVE  RestAt(g, s, start, i) = RestAt(h, s, start, i)
<1>1. CASE i > Len(s)
  BY <1>1 DEF RestAt
<1>2. CASE ~(i > Len(s))
  <2>1. i \in 1 .. Len(s)
    <3>1. Len(s) \in Nat
      BY TextIs
    <3> QED BY <1>2, <3>1
  <2> DEFINE r == ReadItem(s, i)
  <2>2. Reads(s, i, r)
    BY <2>1, ItemReads
  <2> HIDE DEF r
  <2>3. r.next # 0 => g[Behind(s, r)] = h[Behind(s, r)]
    BY <2>1, <2>2, BehindIs
  <2> QED BY <1>2, <2>3 DEF RestAt, r
<1> QED BY <1>1, <1>2

LEMMA RestExists ==
  ASSUME NEW s, IsText(s), NEW start
  PROVE  \E g : IsRest(g, s, start, 1)
<1> DEFINE hi == Len(s) + 1
           T == {k \in Nat : \E g : IsRest(g, s, start, k)}
<1>1. hi \in Nat /\ 1 \in Nat /\ 1 <= hi /\ Len(s) \in Nat
  BY TextIs
<1>2. hi \in T
  <2> DEFINE g == [i \in hi .. hi |-> Compiled(start, FALSE, <<>>)]
  <2>0. \A i \in hi .. hi : i > Len(s) /\ g[i] = Compiled(start, FALSE, <<>>)
    BY <1>1
  <2>1. \A i \in hi .. hi : g[i] = RestAt(g, s, start, i)
    BY <2>0, Zenon DEF RestAt
  <2>2. g = [i \in hi .. hi |-> RestAt(g, s, start, i)]
    BY <2>1
  <2> HIDE DEF g
  <2> QED BY <1>1, <2>2 DEF IsRest
<1>3. ASSUME NEW k \in 1 .. hi - 1, k + 1 \in T PROVE k \in T
  <2>1. PICK f : IsRest(f, s, start, k + 1)
    BY <1>3
  <2> DEFINE g == [i \in k .. hi |-> IF i = k THEN RestAt(f, s, start, k) ELSE f[i]]
  <2>2. /\ k \in Nat /\ k <= hi /\ \A i \in k .. hi : i = k \/ i \in k + 1 .. hi
        /\ \A i \in k .. hi : i \in 1 .. hi /\ \A j \in i + 1 .. hi : j # k /\ j \in k .. hi
    BY <1>1
  <2>3. \A i \in k + 1 .. hi : f[i] = RestAt(f, s, start, i)
    BY <2>1 DEF IsRest
  <2>4. \A i \in k .. hi : RestAt(f, s, start, i) = RestAt(g, s, start, i)
    <3> SUFFICES ASSUME NEW i \in k .. hi PROVE RestAt(f, s, start, i) = RestAt(g, s, start, i)
      OBVIOUS
    <3>1. \A j \in i + 1 .. hi : f[j] = g[j]
      BY <2>2
    <3> HIDE DEF g
    <3> QED BY <2>2, <3>1, RestBehind
  <2>5. \A i \in k .. hi : g[i] = RestAt(f, s, start, i)
    BY <2>2, <2>3
  <2>6. g = [i \in k .. hi |-> g[i]]
    OBVIOUS
  <2> HIDE DEF g
  <2>7. g = [i \in k .. hi |-> RestAt(g, s, start, i)]
    BY <2>4, <2>5, <2>6
  <2> QED BY <2>2, <2>7 DEF IsRest
<1>4. 1 .. hi \subseteq T
  <2> HIDE DEF T, hi
  <2> QED BY <1>1, <1>2, <1>3, DownInduction
<1>5. 1 \in T
  <2> HIDE DEF T, hi
  <2> QED BY <1>1, <1>4
<1> QED BY <1>5

(* parse, as one of these loops.                                           *)
Anchored(s) == At(s, 1) = "^"
Entry(s) == IF Anchored(s) THEN 2 ELSE 1

LEMMA ParseIs ==
  ASSUME NEW s, IsText(s)
  PROVE  \E f : IsRest(f, s, Anchored(s), 1) /\ parse(s) = f[Entry(s)]
<1> DEFINE f == CHOOSE g : g = [i \in 1 .. Len(s) + 1 |-> RestAt(g, s, Anchored(s), i)]
<1>1. parse(s) = f[Entry(s)]
  BY DEF parse, RestAt, Join, Behind, Quantifiers, Anchored, Entry
<1>2. IsRest(f, s, Anchored(s), 1)
  BY RestExists DEF IsRest
<1> QED BY <1>1, <1>2

(* A result is no pattern, or the atoms from a position on.                *)
IsResult(r) ==
  \/ r = NotCompiled
  \/ \E line \in Seq(Atoms), start \in BOOLEAN, end \in BOOLEAN : r = Compiled(start, end, line)

LEMMA JoinIs ==
  ASSUME NEW line
  PROVE  /\ Join(line, NotCompiled) = NotCompiled /\ ~NotCompiled.ok
         /\ \A start, end, more : Join(line, Compiled(start, end, more)) = Compiled(start, end, line \o more)
         /\ \A start, end, more : Compiled(start, end, more).ok
BY DEF Join, NotCompiled, Compiled

LEMMA JoinTwice ==
  ASSUME NEW r, IsResult(r), NEW one \in Seq(Atoms), NEW two \in Seq(Atoms)
  PROVE  Join(one, Join(two, r)) = Join(one \o two, r) /\ IsResult(Join(two, r)) /\ Join(<<>>, r) = r
<1>0. one \o two \in Seq(Atoms) /\ <<>> \in Seq(Atoms)
  BY ConcatProperties, EmptySeq
<1>1. CASE r = NotCompiled
  BY <1>1, JoinIs DEF IsResult
<1>2. CASE r # NotCompiled
  <2>1. PICK line \in Seq(Atoms), start \in BOOLEAN, end \in BOOLEAN : r = Compiled(start, end, line)
    BY <1>2 DEF IsResult
  <2>2. /\ (one \o two) \o line = one \o (two \o line)
        /\ two \o line \in Seq(Atoms) /\ <<>> \o line = line
    BY ConcatAssociative, ConcatProperties, ConcatEmptySeq
  <2>3. \A some, more : Join(some, Compiled(start, end, more)) = Compiled(start, end, some \o more)
    BY JoinIs
  <2>6. Join(two, r) = Compiled(start, end, two \o line) /\ Join(<<>>, r) = r
    BY <2>1, <2>2, <2>3, Zenon
  <2>4. Join(one, Join(two, r)) = Compiled(start, end, (one \o two) \o line)
    <3>1. Join(one, Compiled(start, end, two \o line)) = Compiled(start, end, one \o (two \o line))
      BY <2>3
    <3> QED BY <2>2, <2>6, <3>1, Zenon
  <2>5. Join(one \o two, r) = Compiled(start, end, (one \o two) \o line)
    BY <2>1, JoinIs
  <2> QED BY <2>2, <2>6, <2>4, <2>5 DEF IsResult
<1> QED BY <1>1, <1>2

LEMMA QuantifiedIs ==
  ASSUME NEW set \in SUBSET Charset, NEW q
  PROVE  Quantified(set, q) \in Atoms /\ <<Quantified(set, q)>> \in Seq(Atoms)
<1>1. Many \in Nat
  BY CharsetHas
<1>2. Quantified(set, q) \in Atoms
  <2>1. Atom(set, 0, Many) \in Atoms /\ Atom(set, 1, Many) \in Atoms
        /\ Atom(set, 0, 1) \in Atoms /\ Atom(set, 1, 1) \in Atoms
    BY <1>1 DEF Atoms, Atom
  <2> QED BY <2>1 DEF Quantified
<1> QED BY <1>2

LEMMA RestTyped ==
  ASSUME NEW s, IsText(s), NEW start \in BOOLEAN, NEW f, IsRest(f, s, start, 1), NEW i \in 1 .. Len(s) + 1
  PROVE  IsResult(f[i])
<1> DEFINE hi == Len(s) + 1
           T == {k \in Nat : \A j \in k .. hi : IsResult(f[j])}
<1>1. hi \in Nat /\ 1 \in Nat /\ Len(s) \in Nat
  BY TextIs
<1>2. \A j \in 1 .. hi : f[j] = RestAt(f, s, start, j)
  BY DEF IsRest
<1>3. \A end \in BOOLEAN : IsResult(Compiled(start, end, <<>>))
  BY EmptySeq DEF IsResult
<1>4. hi \in T
  <2>1. \A j \in hi .. hi : j = hi
    BY <1>1
  <2>2. hi \in 1 .. hi /\ hi > Len(s)
    BY <1>1
  <2>3. f[hi] = Compiled(start, FALSE, <<>>)
    BY <1>2, <2>2 DEF RestAt
  <2> HIDE DEF hi
  <2> QED BY <1>1, <1>3, <2>1, <2>3
<1>5. ASSUME NEW k \in 1 .. hi - 1, k + 1 \in T PROVE k \in T
  <2>1. k \in Nat /\ k \in 1 .. Len(s) /\ ~(k > Len(s)) /\ k \in 1 .. hi
    BY <1>1
  <2>2. \A j \in k + 1 .. hi : IsResult(f[j])
    BY <1>5
  <2> DEFINE r == ReadItem(s, k)
  <2>3. Reads(s, k, r)
    BY <2>1, ItemReads
  <2>4. IsResult(f[k])
    <3>1. \/ f[k] = Compiled(start, TRUE, <<>>) \/ f[k] = NotCompiled
          \/ r.next # 0 /\ f[k] = Join(<<Quantified(r.set, At(s, r.next))>>, f[Behind(s, r)])
      BY <1>2, <2>1 DEF RestAt
    <3> HIDE DEF r
    <3>2. ASSUME r.next # 0 PROVE IsResult(Join(<<Quantified(r.set, At(s, r.next))>>, f[Behind(s, r)]))
      <4>1. Behind(s, r) \in k + 1 .. hi
        BY <2>1, <2>3, <3>2, BehindIs
      <4>2. r.set \in SUBSET Charset
        BY <2>3, ReadHas DEF Reads
      <4>3. <<Quantified(r.set, At(s, r.next))>> \in Seq(Atoms) /\ IsResult(f[Behind(s, r)])
        BY <2>2, <4>1, <4>2, QuantifiedIs
      <4> QED BY <4>3, JoinTwice
    <3> QED BY <1>3, <3>1, <3>2 DEF IsResult
  <2>5. \A j \in k .. hi : j = k \/ j \in k + 1 .. hi
    BY <1>1, <2>1
  <2> QED BY <2>1, <2>2, <2>4, <2>5
<1>6. 1 .. hi \subseteq T
  <2> HIDE DEF T, hi
  <2> QED BY <1>1, <1>4, <1>5, DownInduction
<1>7. i \in T /\ i \in i .. hi
  <2>1. i \in 1 .. hi
    OBVIOUS
  <2> HIDE DEF T, hi
  <2> QED BY <1>1, <1>6, <2>1
<1> QED BY <1>7

(* One item of the loop, and how the loop ends.                            *)
LEMMA ItemThen ==
  ASSUME NEW s, IsText(s), NEW start, NEW f, IsRest(f, s, start, 1), NEW i \in 1 .. Len(s),
         ~(s[i] = "$" /\ i = Len(s))
  PROVE  LET r == ReadItem(s, i) IN
         f[i] = IF r.next = 0 THEN NotCompiled
                ELSE Join(<<Quantified(r.set, At(s, r.next))>>, f[Behind(s, r)])
<1>1. ~(i > Len(s)) /\ i \in 1 .. Len(s) + 1
  BY TextIs
<1>2. f[i] = RestAt(f, s, start, i)
  BY <1>1 DEF IsRest
<1> QED BY <1>1, <1>2 DEF RestAt

LEMMA RestEnds ==
  ASSUME NEW s, IsText(s), NEW start, NEW f, IsRest(f, s, start, 1)
  PROVE  /\ f[Len(s) + 1] = Compiled(start, FALSE, <<>>)
         /\ s # <<>> /\ s[Len(s)] = "$" => f[Len(s)] = Compiled(start, TRUE, <<>>)
<1>1. Len(s) + 1 > Len(s) /\ ~(Len(s) > Len(s)) /\ Len(s) + 1 \in 1 .. Len(s) + 1
  BY TextIs
<1>2. s # <<>> => Len(s) \in 1 .. Len(s) + 1
  BY EmptySeq, TextIs DEF IsText
<1>3. \A j \in 1 .. Len(s) + 1 : f[j] = RestAt(f, s, start, j)
  BY DEF IsRest
<1> QED BY <1>1, <1>2, <1>3 DEF RestAt

---------------------------------------------------------------------------
(* Writing.  A text stands in another one, behind the first o characters.  *)
Spells(s, o, w) ==
  /\ o + Len(w) <= Len(s)
  /\ \A j \in 1 .. Len(w) : s[o + j] = w[j]

(* A text and another behind it.                                           *)
LEMMA TextsJoined ==
  ASSUME NEW u \in Seq(Charset), NEW v \in Seq(Charset)
  PROVE  /\ u \o v \in Seq(Charset) /\ Len(u \o v) = Len(u) + Len(v)
         /\ \A i \in 1 .. Len(u) : (u \o v)[i] = u[i]
         /\ \A i \in 1 .. Len(v) : (u \o v)[Len(u) + i] = v[i]
<1> DEFINE joined == u \o v  a == Len(u)  b == Len(v)
<1>1. a \in Nat /\ b \in Nat
  BY LenProperties
<1>2. joined \in Seq(Charset) /\ Len(joined) = a + b
  BY ConcatProperties
<1>3. \A i \in 1 .. a + b : joined[i] = IF i <= a THEN u[i] ELSE v[i - a]
  BY ConcatProperties
<1> HIDE DEF joined, a, b
<1>4. \A i \in 1 .. a : i \in 1 .. a + b /\ i <= a
  BY <1>1
<1>5. \A i \in 1 .. b : a + i \in 1 .. a + b /\ ~(a + i <= a) /\ (a + i) - a = i
  BY <1>1
<1>6. \A i \in 1 .. a : joined[i] = u[i]
  BY <1>3, <1>4
<1>7. \A i \in 1 .. b : joined[a + i] = v[i]
  <2> SUFFICES ASSUME NEW i \in 1 .. b PROVE joined[a + i] = v[i]
    OBVIOUS
  <2>1. joined[a + i] = v[(a + i) - a]
    BY <1>3, <1>5
  <2> QED BY <1>5, <2>1
<1> QED BY <1>2, <1>6, <1>7 DEF joined, a, b

LEMMA Spelled ==
  ASSUME NEW u, IsText(u), NEW w, IsText(w), NEW v, IsText(v), NEW s, s = u \o (w \o v)
  PROVE  /\ IsText(s) /\ Len(s) = Len(u) + Len(w) + Len(v) /\ Spells(s, Len(u), w)
         /\ \A i \in 1 .. Len(u) : s[i] = u[i]
         /\ \A i \in 1 .. Len(v) : s[Len(u) + Len(w) + i] = v[i]
<1> DEFINE x1 == w \o v
<1>1. Len(u) \in Nat /\ Len(w) \in Nat /\ Len(v) \in Nat
  BY TextIs
<1>2. /\ x1 \in Seq(Charset) /\ Len(x1) = Len(w) + Len(v)
      /\ \A i \in 1 .. Len(w) : x1[i] = w[i]
      /\ \A i \in 1 .. Len(v) : x1[Len(w) + i] = v[i]
  BY TextsJoined DEF IsText
<1>3. s \in Seq(Charset) /\ Len(s) = Len(u) + Len(x1)
  BY <1>2, TextsJoined DEF IsText
<1>4. \A i \in 1 .. Len(u) : s[i] = u[i]
  BY <1>2, TextsJoined DEF IsText
<1>5. \A i \in 1 .. Len(x1) : s[Len(u) + i] = x1[i]
  BY <1>2, TextsJoined DEF IsText
<1> HIDE DEF x1
<1>6. \A i \in 1 .. Len(w) : s[Len(u) + i] = w[i]
  <2>1. \A i \in 1 .. Len(w) : i \in 1 .. Len(w) + Len(v)
    BY <1>1
  <2> QED BY <1>2, <1>5, <2>1
<1>7. \A i \in 1 .. Len(v) : s[Len(u) + Len(w) + i] = v[i]
  <2>1. \A i \in 1 .. Len(v) : Len(w) + i \in 1 .. Len(w) + Len(v) /\ Len(u) + (Len(w) + i) = Len(u) + Len(w) + i
    BY <1>1
  <2> QED BY <1>2, <1>5, <2>1
<1>8. Len(u) + Len(w) <= Len(s) /\ Len(s) = Len(u) + Len(w) + Len(v)
  BY <1>1, <1>2, <1>3
<1> QED BY <1>3, <1>4, <1>6, <1>7, <1>8 DEF Spells, IsText

LEMMA SpellsBoth ==
  ASSUME NEW s, NEW o \in Nat, NEW w, IsText(w), NEW v, IsText(v), Spells(s, o, w \o v), IsText(s)
  PROVE  /\ IsText(w \o v) /\ Len(w \o v) = Len(w) + Len(v)
         /\ Spells(s, o, w) /\ Spells(s, o + Len(w), v)
<1> DEFINE x1 == w \o v  a == Len(w)  b == Len(v)  c == Len(s)
<1>1. a \in Nat /\ b \in Nat /\ c \in Nat
  BY TextIs
<1>2. /\ x1 \in Seq(Charset) /\ Len(x1) = a + b
      /\ \A i \in 1 .. a : x1[i] = w[i]
      /\ \A i \in 1 .. b : x1[a + i] = v[i]
  BY TextsJoined DEF IsText
<1>3. o + Len(x1) <= c /\ \A j \in 1 .. Len(x1) : s[o + j] = x1[j]
  BY DEF Spells
<1> HIDE DEF x1, a, b, c
<1>4. o + a <= c /\ o + a + b <= c
  BY <1>1, <1>2, <1>3
<1>5. \A i \in 1 .. a : s[o + i] = w[i]
  <2>1. \A i \in 1 .. a : i \in 1 .. a + b
    BY <1>1
  <2> QED BY <1>2, <1>3, <2>1
<1>6. \A i \in 1 .. b : s[o + a + i] = v[i]
  <2>1. \A i \in 1 .. b : a + i \in 1 .. a + b /\ o + (a + i) = o + a + i
    BY <1>1
  <2> QED BY <1>2, <1>3, <2>1
<1>7. Spells(s, o, w) /\ Spells(s, o + Len(w), v)
  BY <1>4, <1>5, <1>6 DEF Spells, a, b, c
<1> QED BY <1>2, <1>7 DEF IsText, x1, a, b

LEMMA SpelledLast ==
  ASSUME NEW u, IsText(u), NEW w, IsText(w)
  PROVE  /\ IsText(u \o w) /\ Len(u \o w) = Len(u) + Len(w)
         /\ Spells(u \o w, Len(u), w) /\ \A i \in 1 .. Len(u) : (u \o w)[i] = u[i]
<1> DEFINE s == u \o w
<1>1. Len(u) \in Nat /\ Len(w) \in Nat
  BY TextIs
<1>2. /\ s \in Seq(Charset) /\ Len(s) = Len(u) + Len(w)
      /\ \A i \in 1 .. Len(u) + Len(w) : s[i] = IF i <= Len(u) THEN u[i] ELSE w[i - Len(u)]
  BY ConcatProperties DEF IsText
<1> HIDE DEF s
<1>3. \A i \in 1 .. Len(u) : s[i] = u[i]
  BY <1>1, <1>2
<1>4. Len(u) + Len(w) <= Len(s) /\ \A i \in 1 .. Len(w) : s[Len(u) + i] = w[i]
  BY <1>1, <1>2
<1> QED BY <1>2, <1>3, <1>4 DEF Spells, IsText, s

(* Where the texts of a sequence stand when they are strung together.      *)
Strung(pt, k, flat, at) ==
  /\ IsText(flat) /\ at[k + 1] = Len(flat)
  /\ \A m \in 1 .. k : /\ at[m] \in Nat /\ at[m + 1] = at[m] + Len(pt[m])
                       /\ Spells(flat, at[m], pt[m])

FlatAt(g, pt, i) == IF i = 1 THEN pt[i] ELSE g[i - 1] \o pt[i]
IsFlat(g, pt, k) == g = [i \in 1 .. k |-> FlatAt(g, pt, i)]

LEMMA FlatExists ==
  ASSUME NEW pt, NEW n \in Nat
  PROVE  \E g : IsFlat(g, pt, n)
<1> DEFINE T == {k \in Nat : \E g : IsFlat(g, pt, k)}
<1>1. 0 \in T
  <2> DEFINE g == [i \in 1 .. 0 |-> FlatAt(<<>>, pt, i)]
  <2>1. \A i \in 1 .. 0 : FALSE
    OBVIOUS
  <2>2. g = [i \in 1 .. 0 |-> FlatAt(g, pt, i)]
    BY <2>1
  <2> QED BY <2>2 DEF IsFlat
<1>2. ASSUME NEW k \in Nat, k \in T PROVE k + 1 \in T
  <2>1. PICK f : IsFlat(f, pt, k)
    BY <1>2
  <2> DEFINE g == [i \in 1 .. k + 1 |-> IF i = k + 1 THEN FlatAt(f, pt, k + 1) ELSE f[i]]
  <2>2. \A i \in 1 .. k + 1 : /\ i = k + 1 \/ i \in 1 .. k
                              /\ i # 1 => i - 1 \in 1 .. k + 1 /\ i - 1 # k + 1
    OBVIOUS
  <2>3. \A i \in 1 .. k : f[i] = FlatAt(f, pt, i)
    BY <2>1 DEF IsFlat
  <2>4. \A i \in 1 .. k + 1 : FlatAt(f, pt, i) = FlatAt(g, pt, i)
    <3> SUFFICES ASSUME NEW i \in 1 .. k + 1 PROVE FlatAt(f, pt, i) = FlatAt(g, pt, i)
      OBVIOUS
    <3>1. i # 1 => g[i - 1] = f[i - 1]
      BY <2>2
    <3> HIDE DEF g
    <3> QED BY <3>1 DEF FlatAt
  <2>5. \A i \in 1 .. k + 1 : g[i] = FlatAt(f, pt, i)
    BY <2>2, <2>3
  <2>6. g = [i \in 1 .. k + 1 |-> g[i]]
    OBVIOUS
  <2> HIDE DEF g
  <2>7. g = [i \in 1 .. k + 1 |-> FlatAt(g, pt, i)]
    BY <2>4, <2>5, <2>6
  <2> QED BY <2>7 DEF IsFlat
<1>3. n \in T
  <2> HIDE DEF T
  <2> QED BY <1>1, <1>2, SetInduction
<1> QED BY <1>3

LEMMA StrungTogether ==
  ASSUME NEW pt, pt \in Seq(Seq(Charset))
  PROVE  \E at : at[1] = 0 /\ Strung(pt, Len(pt), FlattenSeq(pt), at)
<1> DEFINE n == Len(pt)
<1>1. n \in Nat /\ DOMAIN pt = 1 .. n /\ \A k \in 1 .. n : IsText(pt[k]) /\ Len(pt[k]) \in Nat
  <2>1. n \in Nat /\ DOMAIN pt = 1 .. n /\ \A k \in 1 .. n : pt[k] \in Seq(Charset)
    BY LenProperties, ElementOfSeq
  <2> QED BY <2>1, TextIs DEF IsText
<1>2. CASE n = 0
  <2>1. FlattenSeq(pt) = <<>>
    <3>1. pt = <<>>
      BY <1>2, EmptySeq
    <3> QED BY <3>1 DEF FlattenSeq
  <2> DEFINE at == [k \in 1 .. 1 |-> 0]
  <2>2. at[1] = 0 /\ at[n + 1] = 0
    BY <1>2
  <2> HIDE DEF at
  <2>3. IsText(<<>>) /\ Len(<<>>) = 0 /\ 1 .. n = {}
    BY <1>2, EmptySeq DEF IsText
  <2> QED BY <2>1, <2>2, <2>3 DEF Strung
<1>3. CASE n # 0
  <2> DEFINE flat == CHOOSE g : g = [i \in 1 .. n |-> FlatAt(g, pt, i)]
  <2>3. IsFlat(flat, pt, n)
    BY <1>1, FlatExists DEF IsFlat
  <2>4. FlattenSeq(pt) = flat[n]
    BY <1>3 DEF FlattenSeq, FlatAt
  <2> HIDE DEF flat
  <2>5. flat[1] = pt[1] /\ \A k \in 1 .. n - 1 : flat[k + 1] = flat[k] \o pt[k + 1]
    <3>1. \A i \in 1 .. n : flat[i] = IF i = 1 THEN pt[i] ELSE flat[i - 1] \o pt[i]
      BY <2>3 DEF IsFlat, FlatAt
    <3>2. 1 \in 1 .. n /\ \A k \in 1 .. n - 1 : k + 1 \in 1 .. n /\ k + 1 # 1 /\ k + 1 - 1 = k
      BY <1>1, <1>3
    <3>3. ASSUME NEW i \in 1 .. n, i # 1 PROVE flat[i] = flat[i - 1] \o pt[i]
      BY <3>1, <3>3, Zenon
    <3>4. ASSUME NEW k \in 1 .. n - 1 PROVE flat[k + 1] = flat[k] \o pt[k + 1]
      <4> DEFINE c == k + 1
      <4>1. c \in 1 .. n /\ c # 1 /\ c - 1 = k
        BY <3>2
      <4> HIDE DEF c
      <4>2. flat[c] = flat[c - 1] \o pt[c]
        BY <3>3, <4>1
      <4> QED BY <4>1, <4>2 DEF c
    <3> QED BY <3>1, <3>2, <3>4
  <2> DEFINE at == [k \in 1 .. n + 1 |-> IF k = 1 THEN 0 ELSE Len(flat[k - 1])]
             S == {k \in Nat : k + 1 <= n => Strung(pt, k + 1, flat[k + 1], at)}
  <2>6. at[1] = 0 /\ \A k \in 1 .. n : at[k + 1] = Len(flat[k])
    <3>1. 1 \in 1 .. n + 1 /\ \A k \in 1 .. n : k + 1 \in 1 .. n + 1 /\ k + 1 # 1 /\ k + 1 - 1 = k
      BY <1>1
    <3> QED BY <3>1
  <2> HIDE DEF at
  <2>7. 0 \in S
    <3>1. 1 .. 1 = {1} /\ 0 + 1 = 1 /\ 1 \in 1 .. n
      BY <1>1, <1>3
    <3>2. IsText(pt[1]) /\ at[2] = Len(pt[1]) /\ Len(pt[1]) \in Nat /\ at[1] = 0
      BY <1>1, <2>5, <2>6, <3>1
    <3>3. Spells(pt[1], 0, pt[1])
      BY <3>2 DEF Spells
    <3>4. at[1 + 1] = at[1] + Len(pt[1])
      BY <3>2
    <3>5. Strung(pt, 1, pt[1], at)
      BY <3>1, <3>2, <3>3, <3>4 DEF Strung
    <3> QED BY <2>5, <3>1, <3>5
  <2>8. ASSUME NEW k \in Nat, k \in S PROVE k + 1 \in S
    <3> DEFINE c == k + 1
    <3> SUFFICES ASSUME c + 1 <= n PROVE Strung(pt, c + 1, flat[c + 1], at)
      OBVIOUS
    <3>1. c \in Nat /\ c + 1 \in 1 .. n /\ c \in 1 .. n - 1 /\ c \in 1 .. n /\ c <= n
      BY <1>1
    <3>2. Strung(pt, c, flat[c], at)
      BY <2>8, <3>1
    <3> HIDE DEF c
    <3> DEFINE one == flat[c]  two == pt[c + 1]
    <3>3. flat[c + 1] = one \o two /\ IsText(one) /\ IsText(two) /\ Len(one) \in Nat /\ Len(two) \in Nat
      BY <1>1, <2>5, <3>1, <3>2, TextIs DEF Strung
    <3>5. at[c + 1] = Len(one) /\ at[c + 1 + 1] = Len(flat[c + 1])
      BY <2>6, <3>1
    <3> HIDE DEF one, two
    <3>6. /\ IsText(one \o two) /\ Len(one \o two) = Len(one) + Len(two)
          /\ Spells(one \o two, Len(one), two) /\ \A i \in 1 .. Len(one) : (one \o two)[i] = one[i]
      BY <3>3, SpelledLast
    <3>7. ASSUME NEW m \in 1 .. c + 1
          PROVE  at[m] \in Nat /\ at[m + 1] = at[m] + Len(pt[m]) /\ Spells(one \o two, at[m], pt[m])
      <4>1. CASE m = c + 1
        BY <3>3, <3>5, <3>6, <4>1 DEF two
      <4>2. CASE m \in 1 .. c
        <5>1. at[m] \in Nat /\ at[m + 1] = at[m] + Len(pt[m]) /\ Spells(one, at[m], pt[m])
          BY <3>2, <4>2 DEF Strung, one
        <5>2. Len(pt[m]) \in Nat
          BY <1>1, <3>1, <4>2
        <5>3. at[m] + Len(pt[m]) <= Len(one) /\ \A j \in 1 .. Len(pt[m]) : one[at[m] + j] = pt[m][j]
          BY <5>1 DEF Spells
        <5>4. ASSUME NEW j \in 1 .. Len(pt[m]) PROVE at[m] + j \in 1 .. Len(one)
          <6> DEFINE l == Len(pt[m])  b == at[m]  o == Len(one)
          <6>1. l \in Nat /\ b \in Nat /\ o \in Nat /\ b + l <= o /\ j \in 1 .. l
            BY <3>3, <5>1, <5>2, <5>3
          <6> HIDE DEF l, b, o
          <6>2. b + j \in 1 .. o
            BY <6>1
          <6> QED BY <6>2 DEF l, b, o
        <5>5. at[m] + Len(pt[m]) <= Len(one) + Len(two)
          <6> DEFINE l == at[m] + Len(pt[m])  o == Len(one)  w == Len(two)
          <6>1. l \in Nat /\ o \in Nat /\ w \in Nat /\ l <= o
            BY <3>3, <5>1, <5>2, <5>3
          <6> HIDE DEF l, o, w
          <6>2. l <= o + w
            BY <6>1
          <6> QED BY <6>2 DEF l, o, w
        <5>6. \A j \in 1 .. Len(pt[m]) : (one \o two)[at[m] + j] = pt[m][j]
          BY <3>6, <5>3, <5>4
        <5> QED BY <3>6, <5>1, <5>5, <5>6 DEF Spells
      <4> QED BY <3>1, <4>1, <4>2
    <3> QED BY <3>3, <3>5, <3>6, <3>7 DEF Strung
  <2>9. Strung(pt, n, flat[n], at)
    <3>1. Nat \subseteq S
      <4> HIDE DEF S
      <4> QED BY <2>7, <2>8, SetInduction
    <3>2. n - 1 \in S /\ n - 1 + 1 = n /\ n <= n
      <4>1. n - 1 \in Nat /\ n - 1 + 1 = n /\ n <= n
        BY <1>1, <1>3
      <4> HIDE DEF S
      <4> QED BY <3>1, <4>1
    <3> QED BY <3>2
  <2> QED BY <2>4, <2>6, <2>9
<1> QED BY <1>2, <1>3

(* What stands for itself in a class, and what is no part of one.          *)
LEMMA OneChar ==
  ASSUME NEW c \in Charset
  PROVE  IsText(<<c>>) /\ Len(<<c>>) = 1 /\ <<c>>[1] = c
BY DEF IsText

LEMMA TwoChars ==
  ASSUME NEW c \in Charset, NEW d \in Charset
  PROVE  IsText(<<c, d>>) /\ Len(<<c, d>>) = 2 /\ <<c, d>>[1] = c /\ <<c, d>>[2] = d
BY DEF IsText

LEMMA ThreeChars ==
  ASSUME NEW c \in Charset, NEW d \in Charset, NEW e \in Charset
  PROVE  /\ IsText(<<c, d, e>>) /\ Len(<<c, d, e>>) = 3
         /\ <<c, d, e>>[1] = c /\ <<c, d, e>>[2] = d /\ <<c, d, e>>[3] = e
BY DEF IsText

LEMMA WritingHas ==
  ASSUME NEW text, NEW means
  PROVE  Writing(text, means).text = text /\ Writing(text, means).means = means
BY DEF Writing

LEMMA PartsAre ==
  ASSUME NEW part
  PROVE  /\ part \in ClassParts =>
              \/ \E c \in Charset : c # "\\" /\ part = Literal(c)
              \/ \E c \in Charset : c \in Escapes /\ part = Escaped(c)
              \/ \E lo, hi \in Charset : /\ lo # "\\" /\ hi \notin {"\\", "]"} /\ Code(lo) <= Code(hi)
                                         /\ part = Span(lo, hi)
         /\ part \in BadParts =>
              \/ \E c \in Charset : c \notin Escapes /\ part = Writing(<<"\\", c>>, {})
              \/ \E lo, hi \in Charset : /\ lo # "\\" /\ hi \notin {"\\", "]"} /\ Code(hi) < Code(lo)
                                         /\ part = Writing(<<lo, "-", hi>>, {})
<1>1. Escapes \subseteq Charset
  BY EscapesAre
<1>2. part \in Spans => \E lo, hi \in Charset : /\ lo # "\\" /\ hi \notin {"\\", "]"} /\ Code(lo) <= Code(hi)
                                                /\ part = Span(lo, hi)
  BY DEF Spans, InClass
<1>3. part \in BadParts \ BadEscapes =>
        \E lo, hi \in Charset : /\ lo # "\\" /\ hi \notin {"\\", "]"} /\ Code(hi) < Code(lo)
                                /\ part = Writing(<<lo, "-", hi>>, {})
  BY DEF BadParts, InClass
<1>4. part \in BadEscapes => \E c \in Charset : c \notin Escapes /\ part = Writing(<<"\\", c>>, {})
  BY DEF BadEscapes
<1> QED BY <1>1, <1>2, <1>3, <1>4 DEF ClassParts, InClass

LEMMA PartTexts ==
  ASSUME NEW part \in ClassParts \cup BadParts
  PROVE  IsText(part.text) /\ Len(part.text) \in 1 .. 3 /\ (part \in ClassParts => part.means \subseteq Charset)
<1>1. "\\" \in Charset /\ "-" \in Charset
  BY CharsetHas
<1>2. ASSUME NEW c \in Charset, part = Literal(c) PROVE part.text = <<c>> /\ part.means = {c}
  BY <1>2, WritingHas DEF Literal
<1>3. ASSUME NEW c \in Charset, NEW means, part = Writing(<<"\\", c>>, means)
      PROVE  part.text = <<"\\", c>> /\ part.means = means
  BY <1>3, WritingHas
<1>4. ASSUME NEW lo \in Charset, NEW hi \in Charset, NEW means, part = Writing(<<lo, "-", hi>>, means)
      PROVE  part.text = <<lo, "-", hi>> /\ part.means = means
  BY <1>4, WritingHas
<1>5. CASE part \in ClassParts
  <2>1. CASE \E c \in Charset : part = Literal(c)
    BY <2>1, <1>2, OneChar
  <2>2. CASE \E c \in Charset : c \in Escapes /\ part = Escaped(c)
    <3>1. PICK c \in Charset : c \in Escapes /\ part = Escaped(c)
      BY <2>2
    <3>2. part.text = <<"\\", c>> /\ part.means = EscapePart(c)
      BY <1>3, <3>1 DEF Escaped
    <3>3. IsText(part.text) /\ Len(part.text) = 2
      BY <1>1, <3>2, TwoChars
    <3>4. part.means \subseteq Charset
      BY <3>1, <3>2, EscapesAre
    <3>5. 2 \in 1 .. 3
      OBVIOUS
    <3> QED BY <3>3, <3>4, <3>5
  <2>3. CASE \E lo, hi \in Charset : part = Span(lo, hi)
    <3>1. PICK lo \in Charset, hi \in Charset : part = Span(lo, hi)
      BY <2>3
    <3>2. part.text = <<lo, "-", hi>> /\ part.means = Between(lo, hi)
      BY <1>4, <3>1 DEF Span
    <3>3. IsText(part.text) /\ Len(part.text) = 3
      BY <1>1, <3>2, ThreeChars
    <3>4. part.means \subseteq Charset
      BY <3>2, EscapesAre
    <3>5. 3 \in 1 .. 3
      OBVIOUS
    <3> QED BY <3>3, <3>4, <3>5
  <2> QED BY <1>5, <2>1, <2>2, <2>3, PartsAre
<1>6. CASE part \in BadParts
  <2>1. CASE \E c \in Charset : part = Writing(<<"\\", c>>, {})
    BY <2>1, <1>1, <1>3, TwoChars, PartsAre
  <2>2. CASE \E lo, hi \in Charset : part = Writing(<<lo, "-", hi>>, {})
    <3>1. PICK lo \in Charset, hi \in Charset : part = Writing(<<lo, "-", hi>>, {})
      BY <2>2
    <3>2. part.text = <<lo, "-", hi>> /\ part.means = {}
      BY <1>4, <3>1
    <3> QED BY <1>1, <3>2, ThreeChars
  <2> QED BY <1>6, <2>1, <2>2, PartsAre
<1> QED BY <1>5, <1>6

LEMMA CodeIs ==
  ASSUME NEW c \in Charset
  PROVE  Code(c) \in Nat
<1>1. \E k \in DOMAIN Characters : Characters[k] = c
  BY DEF Charset
<1>2. Code(c) \in DOMAIN Characters
  BY <1>1 DEF Code
<1>3. DOMAIN Characters = 1 .. Len(Characters) /\ Len(Characters) \in Nat
  BY PatternAssumption, LenProperties DEF PatternAssumption
<1> QED BY <1>2, <1>3

(* A part stands at a position: behind the opening a `]` is its first      *)
(* character only, and a `-` behind it ends the class.                     *)
Stands(s, first, i, part) ==
  /\ Spells(s, i - 1, part.text)
  /\ part.text[1] = "]" => i = first
Free(s, next) == At(s, next) = "-" => At(s, next + 1) \in {"", "]"}

LEMMA StandsAt ==
  ASSUME NEW s, IsText(s), NEW first \in 1 .. Len(s) + 1, NEW i \in first .. Len(s),
         NEW part, Len(part.text) \in 1 .. 3, Stands(s, first, i, part)
  PROVE  /\ s[i] = part.text[1] /\ (part.text[1] = "]" => i = first)
         /\ Len(part.text) >= 2 => s[i + 1] = part.text[2] /\ i + 1 \in 1 .. Len(s)
         /\ Len(part.text) >= 3 => s[i + 2] = part.text[3] /\ i + 2 \in 1 .. Len(s)
<1>1. Len(s) \in Nat /\ i \in Nat /\ i >= 1 /\ Len(part.text) \in Nat
  BY TextIs
<1>2. i - 1 + Len(part.text) <= Len(s) /\ \A j \in 1 .. Len(part.text) : s[i - 1 + j] = part.text[j]
  BY DEF Stands, Spells
<1>3. s[i - 1 + 1] = part.text[1] /\ i - 1 + 1 = i
  BY <1>1, <1>2
<1>4. Len(part.text) >= 2 => s[i - 1 + 2] = part.text[2] /\ i - 1 + 2 = i + 1 /\ i + 1 \in 1 .. Len(s)
  BY <1>1, <1>2
<1>5. Len(part.text) >= 3 => s[i - 1 + 3] = part.text[3] /\ i - 1 + 3 = i + 2 /\ i + 2 \in 1 .. Len(s)
  BY <1>1, <1>2
<1>6. part.text[1] = "]" => i = first
  BY DEF Stands
<1> QED BY <1>3, <1>4, <1>5, <1>6

(* A part of a class is read as what it stands for.                        *)
LEMMA PartThen ==
  ASSUME NEW s, IsText(s), NEW first \in 1 .. Len(s) + 1, NEW g, IsParts(g, s, first, first),
         NEW i \in first .. Len(s), NEW part \in ClassParts,
         Stands(s, first, i, part), Free(s, i + Len(part.text))
  PROVE  g[i] = With(part.means, g[i + Len(part.text)])
<1>1. Len(s) \in Nat /\ i \in Nat /\ ~(i > Len(s)) /\ i \in first .. Len(s) + 1 /\ i \in 1 .. Len(s)
      /\ i + 1 - 1 = i /\ i + 2 - 1 = i + 1 /\ i + 3 - 1 = i + 2
  BY TextIs
<1>2. g[i] = PartAt(g, s, first, i)
  BY <1>1 DEF IsParts
<1>3. /\ \A c \in Charset : Literal(c).text = <<c>> /\ Literal(c).means = {c}
      /\ \A c \in Charset : Escaped(c).text = <<"\\", c>> /\ Escaped(c).means = EscapePart(c)
      /\ \A lo, hi \in Charset : Span(lo, hi).text = <<lo, "-", hi>> /\ Span(lo, hi).means = Between(lo, hi)
  BY WritingHas DEF Literal, Escaped, Span
<1>4. "\\" \in Charset /\ "-" \in Charset /\ "" \notin Charset
  BY CharsetHas
<1>5. ASSUME NEW c \in Charset, c # "\\", part = Literal(c) PROVE g[i] = With({c}, g[i + 1])
  <2>1. part.text = <<c>> /\ Len(part.text) = 1 /\ part.text[1] = c
    BY <1>3, <1>5, OneChar
  <2>2. s[i] = c /\ (c = "]" => i = first)
    <3>1. Len(part.text) \in 1 .. 3
      BY <2>1
    <3>2. s[i] = part.text[1] /\ (part.text[1] = "]" => i = first)
      BY <3>1, StandsAt
    <3> QED BY <2>1, <3>2, Zenon
  <2>3. i + Len(part.text) = i + 1 /\ i + 1 + 1 = i + 2
    BY <1>1, <2>1
  <2>4. ~IsRange(s, i)
    BY <2>3 DEF IsRange, Free
  <2> QED BY <1>1, <1>2, <1>5, <2>2, <2>4 DEF PartAt
<1>6. ASSUME NEW c \in Charset, c \in Escapes, part = Escaped(c) PROVE g[i] = With(EscapePart(c), g[i + 2])
  <2>1. part.text = <<"\\", c>> /\ Len(part.text) = 2 /\ part.text[1] = "\\" /\ part.text[2] = c
    <3>1. part.text = <<"\\", c>>
      BY <1>3, <1>6
    <3>2. Len(<<"\\", c>>) = 2 /\ <<"\\", c>>[1] = "\\" /\ <<"\\", c>>[2] = c
      BY <1>4, TwoChars
    <3> QED BY <3>1, <3>2, Zenon
  <2>2. s[i] = "\\" /\ s[i + 1] = c /\ i + 1 \in 1 .. Len(s)
    <3>1. Len(part.text) \in 1 .. 3 /\ Len(part.text) >= 2
      BY <2>1
    <3>2. s[i] = part.text[1] /\ s[i + 1] = part.text[2] /\ i + 1 \in 1 .. Len(s)
      BY <3>1, StandsAt
    <3> QED BY <2>1, <3>2, Zenon
  <2>3. At(s, i + 1) = c
    BY <2>2, AtIs
  <2> QED BY <1>1, <1>2, <1>6, <2>2, <2>3 DEF PartAt
<1>7. ASSUME NEW lo \in Charset, NEW hi \in Charset, lo # "\\", hi \notin {"\\", "]"}, Code(lo) <= Code(hi),
             part = Span(lo, hi)
      PROVE  g[i] = With(Between(lo, hi), g[i + 3])
  <2>1. /\ part.text = <<lo, "-", hi>> /\ Len(part.text) = 3
        /\ part.text[1] = lo /\ part.text[2] = "-" /\ part.text[3] = hi
    <3>1. part.text = <<lo, "-", hi>>
      BY <1>3, <1>7
    <3>2. /\ Len(<<lo, "-", hi>>) = 3
          /\ <<lo, "-", hi>>[1] = lo /\ <<lo, "-", hi>>[2] = "-" /\ <<lo, "-", hi>>[3] = hi
      BY <1>4, ThreeChars
    <3> QED BY <3>1, <3>2, Zenon
  <2>2. s[i] = lo /\ s[i + 1] = "-" /\ s[i + 2] = hi /\ i + 1 \in 1 .. Len(s) /\ i + 2 \in 1 .. Len(s)
    <3>1. Len(part.text) \in 1 .. 3 /\ Len(part.text) >= 2 /\ Len(part.text) >= 3
      BY <2>1
    <3>2. /\ s[i] = part.text[1] /\ s[i + 1] = part.text[2] /\ s[i + 2] = part.text[3]
          /\ i + 1 \in 1 .. Len(s) /\ i + 2 \in 1 .. Len(s)
      BY <3>1, StandsAt
    <3> QED BY <2>1, <3>2, Zenon
  <2>3. At(s, i + 1) = "-" /\ At(s, i + 2) = hi
    BY <2>2, AtIs
  <2>4. IsRange(s, i)
    BY <1>4, <1>7, <2>3 DEF IsRange
  <2>5. ~(Code(s[i + 2]) < Code(s[i])) /\ (s[i] = "]" => i = first)
    <3>1. Code(lo) \in Nat /\ Code(hi) \in Nat
      BY CodeIs
    <3>2. ~(Code(hi) < Code(lo))
      BY <1>7, <3>1
    <3>3. s[i] = "]" => i = first
      BY <2>1, <2>2 DEF Stands
    <3>4. ~(Code(s[i + 2]) < Code(s[i]))
      BY <2>2, <3>2, Zenon
    <3> QED BY <3>3, <3>4
  <2> QED BY <1>1, <1>2, <1>7, <2>2, <2>4, <2>5 DEF PartAt
<1>8. ASSUME NEW c \in Charset, part = Literal(c) PROVE part.means = {c} /\ i + Len(part.text) = i + 1
  BY <1>3, <1>8, OneChar
<1>9. ASSUME NEW c \in Charset, part = Escaped(c) PROVE part.means = EscapePart(c) /\ i + Len(part.text) = i + 2
  BY <1>3, <1>4, <1>9, TwoChars
<1>10. ASSUME NEW lo \in Charset, NEW hi \in Charset, part = Span(lo, hi)
       PROVE  part.means = Between(lo, hi) /\ i + Len(part.text) = i + 3
  <2>1. part.text = <<lo, "-", hi>> /\ part.means = Between(lo, hi)
    BY <1>3, <1>10
  <2>2. Len(part.text) = 3
    BY <1>4, <2>1, ThreeChars
  <2> QED BY <2>1, <2>2
<1>11. CASE \E c \in Charset : c # "\\" /\ part = Literal(c)
  BY <1>5, <1>8, <1>11
<1>12. CASE \E c \in Charset : c \in Escapes /\ part = Escaped(c)
  BY <1>6, <1>9, <1>12
<1>13. CASE \E lo, hi \in Charset : /\ lo # "\\" /\ hi \notin {"\\", "]"} /\ Code(lo) <= Code(hi)
                                    /\ part = Span(lo, hi)
  BY <1>7, <1>10, <1>13
<1> QED BY <1>11, <1>12, <1>13, PartsAre

(* What is no part of a class refuses it.                                  *)
LEMMA BadPartThen ==
  ASSUME NEW s, IsText(s), NEW first \in 1 .. Len(s) + 1, NEW g, IsParts(g, s, first, first),
         NEW i \in first .. Len(s), NEW part \in BadParts, Stands(s, first, i, part)
  PROVE  g[i] = Refused
<1>1. Len(s) \in Nat /\ i \in Nat /\ ~(i > Len(s)) /\ i \in first .. Len(s) + 1 /\ i \in 1 .. Len(s)
      /\ i + 1 - 1 = i /\ i + 2 - 1 = i + 1 /\ i + 3 - 1 = i + 2
  BY TextIs
<1>2. g[i] = PartAt(g, s, first, i)
  BY <1>1 DEF IsParts
<1>3. "\\" \in Charset /\ "-" \in Charset /\ "" \notin Charset
  BY CharsetHas
<1>4. CASE \E c \in Charset : c \notin Escapes /\ part = Writing(<<"\\", c>>, {})
  <2>0. PICK c \in Charset : c \notin Escapes /\ part = Writing(<<"\\", c>>, {})
    BY <1>4
  <2>1. part.text = <<"\\", c>> /\ Len(part.text) = 2 /\ part.text[1] = "\\" /\ part.text[2] = c
    <3>1. part.text = <<"\\", c>>
      BY <2>0, WritingHas
    <3>2. Len(<<"\\", c>>) = 2 /\ <<"\\", c>>[1] = "\\" /\ <<"\\", c>>[2] = c
      BY <1>3, TwoChars
    <3> QED BY <3>1, <3>2, Zenon
  <2>2. s[i] = "\\" /\ s[i + 1] = c /\ i + 1 \in 1 .. Len(s)
    <3>1. Len(part.text) \in 1 .. 3 /\ Len(part.text) >= 2
      BY <2>1
    <3>2. s[i] = part.text[1] /\ s[i + 1] = part.text[2] /\ i + 1 \in 1 .. Len(s)
      BY <3>1, StandsAt, SMTT(30)
    <3> QED BY <2>1, <3>2, Zenon
  <2>3. At(s, i + 1) = c
    BY <2>2, AtIs
  <2> QED BY <1>1, <1>2, <2>0, <2>2, <2>3 DEF PartAt
<1>5. CASE \E lo, hi \in Charset : /\ lo # "\\" /\ hi \notin {"\\", "]"} /\ Code(hi) < Code(lo)
                                   /\ part = Writing(<<lo, "-", hi>>, {})
  <2>0. PICK lo \in Charset, hi \in Charset : /\ lo # "\\" /\ hi \notin {"\\", "]"} /\ Code(hi) < Code(lo)
                                              /\ part = Writing(<<lo, "-", hi>>, {})
    BY <1>5
  <2>1. /\ part.text = <<lo, "-", hi>> /\ Len(part.text) = 3
        /\ part.text[1] = lo /\ part.text[2] = "-" /\ part.text[3] = hi
    <3>1. part.text = <<lo, "-", hi>>
      BY <2>0, WritingHas
    <3>2. /\ Len(<<lo, "-", hi>>) = 3
          /\ <<lo, "-", hi>>[1] = lo /\ <<lo, "-", hi>>[2] = "-" /\ <<lo, "-", hi>>[3] = hi
      BY <1>3, ThreeChars
    <3> QED BY <3>1, <3>2, Zenon
  <2>2. s[i] = lo /\ s[i + 1] = "-" /\ s[i + 2] = hi /\ i + 1 \in 1 .. Len(s) /\ i + 2 \in 1 .. Len(s)
    <3>1. Len(part.text) \in 1 .. 3 /\ Len(part.text) >= 2 /\ Len(part.text) >= 3
      BY <2>1
    <3>2. /\ s[i] = part.text[1] /\ s[i + 1] = part.text[2] /\ s[i + 2] = part.text[3]
          /\ i + 1 \in 1 .. Len(s) /\ i + 2 \in 1 .. Len(s)
      BY <3>1, StandsAt, SMTT(30)
    <3> QED BY <2>1, <3>2, Zenon
  <2>3. At(s, i + 1) = "-" /\ At(s, i + 2) = hi
    BY <2>2, AtIs
  <2>4. IsRange(s, i)
    BY <1>3, <2>0, <2>3 DEF IsRange
  <2>5. Code(s[i + 2]) < Code(s[i]) /\ (s[i] = "]" => i = first)
    BY <2>0, <2>1, <2>2 DEF Stands
  <2> QED BY <1>1, <1>2, <2>0, <2>2, <2>4, <2>5 DEF PartAt
<1> QED BY <1>4, <1>5, PartsAre

(* A class as written: behind its opening its parts stand one after the    *)
(* other, and are read one after the other.                                *)
Wide(class) ==
  /\ class.negated \in BOOLEAN /\ class.parts \in Seq(ClassParts \cup BadParts) /\ Placed(class)
PartTextsOf(class) == [k \in DOMAIN class.parts |-> class.parts[k].text]
Means(class, m) == UNION {class.parts[k].means : k \in 1 .. m}

LEMMA OpeningIs ==
  ASSUME NEW negated \in BOOLEAN
  PROVE  /\ IsText(Opening(negated)) /\ Len(Opening(negated)) = (IF negated THEN 2 ELSE 1)
         /\ Opening(negated)[1] = "[" /\ (negated => Opening(negated)[2] = "^")
<1>1. "[" \in Charset /\ "^" \in Charset
  BY CharsetHas
<1>2. CASE negated
  BY <1>1, <1>2, TwoChars DEF Opening
<1>3. CASE ~negated
  BY <1>1, <1>3, OneChar DEF Opening
<1> QED BY <1>2, <1>3

LEMMA WideIs ==
  ASSUME NEW class, Wide(class)
  PROVE  /\ Len(class.parts) \in Nat /\ PartTextsOf(class) \in Seq(Seq(Charset))
         /\ Len(PartTextsOf(class)) = Len(class.parts)
         /\ \A k \in 1 .. Len(class.parts) :
              /\ class.parts[k] \in ClassParts \cup BadParts
              /\ PartTextsOf(class)[k] = class.parts[k].text /\ Len(class.parts[k].text) \in 1 .. 3
<1> DEFINE n == Len(class.parts)
<1>1. n \in Nat /\ DOMAIN class.parts = 1 .. n /\ \A k \in 1 .. n : class.parts[k] \in ClassParts \cup BadParts
  <2>1. class.parts \in Seq(ClassParts \cup BadParts)
    BY DEF Wide
  <2> QED BY <2>1, LenProperties, ElementOfSeq
<1>2. \A k \in 1 .. n : IsText(class.parts[k].text) /\ Len(class.parts[k].text) \in 1 .. 3
  BY <1>1, PartTexts
<1>3. PartTextsOf(class) = [k \in 1 .. n |-> class.parts[k].text]
  BY <1>1 DEF PartTextsOf
<1>4. \A k \in 1 .. n : class.parts[k].text \in Seq(Charset)
  BY <1>2 DEF IsText
<1> HIDE DEF n
<1>5. PartTextsOf(class) \in Seq(Seq(Charset)) /\ Len(PartTextsOf(class)) = n
  BY <1>1, <1>3, <1>4
<1> QED BY <1>1, <1>2, <1>3, <1>5 DEF n

(* Where the k-th part stands, when the opening stands behind o characters. *)
Layout(s, o, class, base, at) ==
  /\ base = o + Len(Opening(class.negated)) /\ base \in Nat /\ base >= 1
  /\ at[1] = 0
  /\ \A k \in 1 .. Len(class.parts) :
       /\ at[k] \in Nat /\ at[k + 1] \in Nat /\ at[k + 1] = at[k] + Len(class.parts[k].text)
       /\ Spells(s, base + at[k], class.parts[k].text)
  /\ at[Len(class.parts) + 1] \in Nat
  /\ o + Len(Unclosed(class)) = base + at[Len(class.parts) + 1]

LEMMA LaidOut ==
  ASSUME NEW class, Wide(class), NEW s, IsText(s), NEW o \in Nat, Spells(s, o, Unclosed(class))
  PROVE  /\ \E base, at : Layout(s, o, class, base, at)
         /\ IsText(Unclosed(class)) /\ Spells(s, o, Opening(class.negated))
<1> DEFINE n == Len(class.parts)  pt == PartTextsOf(class)  flat == FlattenSeq(pt)  front == Opening(class.negated)
           base == o + Len(front)
<1>1. PICK at : at[1] = 0 /\ Strung(pt, n, flat, at)
  BY WideIs, StrungTogether
<1>2. n \in Nat /\ \A k \in 1 .. n : pt[k] = class.parts[k].text /\ Len(pt[k]) \in 1 .. 3
  BY WideIs
<1>3. IsText(front) /\ Len(front) \in 1 .. 2
  BY OpeningIs DEF Wide
<1>4. Unclosed(class) = front \o flat
  BY DEF Unclosed, PartTextsOf
<1> HIDE DEF n, pt, flat, front
<1>5. IsText(flat) /\ at[n + 1] = Len(flat) /\ Len(flat) \in Nat
  BY <1>1, TextIs DEF Strung
<1>6. /\ IsText(front \o flat) /\ Len(front \o flat) = Len(front) + Len(flat)
      /\ Spells(s, o, front) /\ Spells(s, base, flat)
  BY <1>3, <1>4, <1>5, SpellsBoth
<1>7. base \in Nat /\ base >= 1 /\ o + Len(front \o flat) = base + Len(flat)
  BY <1>3, <1>5, <1>6
<1> HIDE DEF base
<1>8. ASSUME NEW k \in 1 .. n
      PROVE  /\ at[k] \in Nat /\ at[k + 1] \in Nat /\ at[k + 1] = at[k] + Len(pt[k])
             /\ Spells(s, base + at[k], pt[k])
  <2>1. at[k] \in Nat /\ at[k + 1] = at[k] + Len(pt[k]) /\ Spells(flat, at[k], pt[k])
    BY <1>1 DEF Strung
  <2>2. Len(pt[k]) \in Nat
    BY <1>2
  <2>3. at[k] + Len(pt[k]) <= Len(flat) /\ \A j \in 1 .. Len(pt[k]) : flat[at[k] + j] = pt[k][j]
    BY <2>1 DEF Spells
  <2>4. base + Len(flat) <= Len(s) /\ \A j \in 1 .. Len(flat) : s[base + j] = flat[j]
    BY <1>6 DEF Spells
  <2>5. Len(s) \in Nat
    BY TextIs
  <2>6. base + at[k] + Len(pt[k]) <= Len(s)
    <3> DEFINE b == at[k]  l == Len(pt[k])  f == Len(flat)  w == Len(s)
    <3>1. b \in Nat /\ l \in Nat /\ f \in Nat /\ w \in Nat /\ b + l <= f /\ base + f <= w
      BY <1>5, <2>1, <2>2, <2>3, <2>4, <2>5
    <3> HIDE DEF b, l, f, w
    <3>2. base + b + l <= w
      BY <1>7, <3>1
    <3> QED BY <3>2 DEF b, l, w
  <2>7. ASSUME NEW j \in 1 .. Len(pt[k]) PROVE s[base + at[k] + j] = pt[k][j]
    <3>1. at[k] + j \in 1 .. Len(flat) /\ base + (at[k] + j) = base + at[k] + j
      <4> DEFINE b == at[k]  l == Len(pt[k])  f == Len(flat)
      <4>1. b \in Nat /\ l \in Nat /\ f \in Nat /\ b + l <= f /\ j \in 1 .. l
        BY <1>5, <2>1, <2>2, <2>3
      <4> HIDE DEF b, l, f
      <4>2. b + j \in 1 .. f /\ base + (b + j) = base + b + j
        BY <1>7, <4>1
      <4> QED BY <4>2 DEF b, f
    <3>2. s[base + (at[k] + j)] = flat[at[k] + j]
      BY <2>4, <3>1
    <3> QED BY <2>3, <3>1, <3>2
  <2>8. Spells(s, base + at[k], pt[k])
    BY <2>6, <2>7 DEF Spells
  <2> QED BY <2>1, <2>2, <2>8
<1>9. Layout(s, o, class, base, at)
  <2>1. \A k \in 1 .. n : /\ at[k] \in Nat /\ at[k + 1] \in Nat /\ at[k + 1] = at[k] + Len(class.parts[k].text)
                          /\ Spells(s, base + at[k], class.parts[k].text)
    BY <1>2, <1>8
  <2>2. base = o + Len(front) /\ o + Len(Unclosed(class)) = base + at[n + 1] /\ at[n + 1] \in Nat
    BY <1>4, <1>5, <1>7 DEF base
  <2> QED BY <1>1, <1>7, <2>1, <2>2 DEF Layout, n, front
<1> QED BY <1>4, <1>6, <1>9 DEF front

(* What stands where the part behind the k-th one would stand.             *)
LEMMA LayoutIs ==
  ASSUME NEW class, Wide(class), NEW s, IsText(s), NEW o \in Nat, NEW base, NEW at, Layout(s, o, class, base, at),
         NEW k \in 1 .. Len(class.parts)
  PROVE  /\ Len(class.parts[k].text) \in 1 .. 3
         /\ at[k] \in Nat /\ at[k + 1] \in Nat /\ at[k + 1] = at[k] + Len(class.parts[k].text) /\ base \in Nat /\ base >= 1
         /\ base + at[k] + 1 \in 1 .. Len(s) /\ Spells(s, (base + at[k] + 1) - 1, class.parts[k].text)
         /\ s[base + at[k] + 1] = class.parts[k].text[1]
<1>1. /\ base \in Nat /\ base >= 1 /\ at[k] \in Nat /\ at[k + 1] \in Nat /\ at[k + 1] = at[k] + Len(class.parts[k].text)
      /\ Spells(s, base + at[k], class.parts[k].text)
  BY DEF Layout
<1>2. Len(class.parts[k].text) \in 1 .. 3
  BY WideIs
<1>3. base + at[k] + Len(class.parts[k].text) <= Len(s) /\ s[base + at[k] + 1] = class.parts[k].text[1]
  <2>1. 1 \in 1 .. Len(class.parts[k].text)
    BY <1>2
  <2> QED BY <1>1, <2>1 DEF Spells
<1>4. (base + at[k] + 1) - 1 = base + at[k] /\ Len(s) \in Nat
  BY <1>1, TextIs
<1>5. base + at[k] + 1 \in 1 .. Len(s)
  <2> DEFINE a == at[k]  len == Len(class.parts[k].text)  size == Len(s)
  <2>1. base \in Nat /\ base >= 1 /\ a \in Nat /\ len \in 1 .. 3 /\ base + a + len <= size /\ size \in Nat
    BY <1>1, <1>2, <1>3, <1>4
  <2> HIDE DEF a, len, size
  <2>2. base + a + 1 \in 1 .. size
    BY <2>1
  <2> QED BY <2>2 DEF a, size
<1> QED BY <1>1, <1>2, <1>3, <1>4, <1>5

Closes(s, i) == At(s, i) \in {"", "]"}

LEMMA FirstIs ==
  ASSUME NEW class, Wide(class), NEW s, IsText(s), NEW o \in Nat, Spells(s, o, Opening(class.negated)),
         NEW base, NEW at, Layout(s, o, class, base, at), Closes(s, o + Len(Unclosed(class)) + 1)
  PROVE  /\ o + 1 \in 1 .. Len(s) /\ s[o + 1] = "["
         /\ Negates(s, o + 1) <=> class.negated
         /\ FirstOf(s, o + 1) = base + 1
<1> DEFINE front == Opening(class.negated)  size == Len(front)
<1>1. /\ class.negated \in BOOLEAN /\ size \in 1 .. 2 /\ front[1] = "["
      /\ class.negated => front[2] = "^" /\ size = 2
      /\ ~class.negated => size = 1
  <2>1. class.negated \in BOOLEAN
    BY DEF Wide
  <2>2. Len(front) = (IF class.negated THEN 2 ELSE 1) /\ front[1] = "[" /\ (class.negated => front[2] = "^")
    BY <2>1, OpeningIs
  <2> QED BY <2>1, <2>2
<1>2. Len(s) \in Nat /\ Len(class.parts) \in Nat
  BY TextIs, WideIs
<1>3. o + size <= Len(s) /\ \A j \in 1 .. size : s[o + j] = front[j]
  BY DEF Spells
<1>5. base = o + size /\ at[1] = 0
  BY DEF Layout
<1> HIDE DEF front, size
<1>4. o + 1 \in 1 .. Len(s) /\ s[o + 1] = "["
  <2>1. size \in 1 .. 2 /\ front[1] = "["
    BY <1>1
  <2> QED BY <1>2, <1>3, <2>1
<1>6. CASE class.negated
  <2>0. size = 2 /\ front[2] = "^"
    BY <1>1, <1>6
  <2>1. s[o + 2] = "^" /\ o + 2 \in 1 .. Len(s) /\ o + 1 + 1 = o + 2 /\ o + 1 + 2 = base + 1
    BY <1>2, <1>3, <1>5, <2>0
  <2>2. At(s, o + 1 + 1) = "^"
    BY <2>1, AtIs
  <2>3. Negates(s, o + 1)
    BY <2>2 DEF Negates
  <2>4. FirstOf(s, o + 1) = base + 1
    BY <2>1, <2>3 DEF FirstOf
  <2> QED BY <1>4, <1>6, <2>3, <2>4
<1>7. CASE ~class.negated
  <2>0. size = 1
    BY <1>1, <1>7
  <2>1. base = o + 1 /\ o + 1 + 1 = base + 1
    BY <1>5, <2>0
  <2>2. At(s, base + 1) # "^"
    <3>1. CASE Len(class.parts) = 0
      <4>1. o + Len(Unclosed(class)) = base + at[0 + 1]
        BY <3>1 DEF Layout
      <4>2. o + Len(Unclosed(class)) + 1 = base + 1
        BY <1>5, <2>1, <4>1
      <4> QED BY <4>2 DEF Closes
    <3>2. CASE Len(class.parts) # 0
      <4>1. 1 \in 1 .. Len(class.parts)
        BY <1>2, <3>2
      <4>2. s[base + at[1] + 1] = class.parts[1].text[1] /\ base + at[1] + 1 \in 1 .. Len(s)
        BY <4>1, LayoutIs
      <4>3. base + at[1] + 1 = base + 1
        BY <1>5, <2>1
      <4>4. At(s, base + 1) = class.parts[1].text[1]
        BY <4>2, <4>3, AtIs
      <4>5. class.parts[1].text[1] # "^"
        <5>1. 1 \in DOMAIN class.parts
          BY <4>1, LenProperties DEF Wide
        <5>2. class.parts[1].text[1] = "^" => 1 > 1 \/ class.negated
          BY <5>1 DEF Wide, Placed
        <5>3. ~(1 > 1)
          OBVIOUS
        <5> QED BY <1>7, <5>2, <5>3, Zenon
      <4> QED BY <4>4, <4>5
    <3> QED BY <3>1, <3>2
  <2>3. ~Negates(s, o + 1)
    BY <2>1, <2>2 DEF Negates
  <2>4. FirstOf(s, o + 1) = base + 1
    BY <2>1, <2>3 DEF FirstOf
  <2> QED BY <1>4, <1>7, <2>3, <2>4
<1>8. class.negated \/ ~class.negated
  OBVIOUS
<1> QED BY <1>6, <1>7, <1>8, Zenon

LEMMA WithTwice ==
  ASSUME NEW s, IsText(s), NEW i \in Nat, NEW r, Reads(s, i, r), NEW one, NEW two
  PROVE  With(one, With(two, r)) = With(one \cup two, r) /\ With({}, r) = r
<1>1. CASE r = Refused
  <2>1. \A set : With(set, r) = Refused
    BY <1>1, ReadHas DEF With
  <2> QED BY <1>1, <2>1
<1>2. CASE r # Refused
  <2>1. PICK more \in SUBSET Charset, next \in i + 1 .. Len(s) + 1 : r = Read(more, next)
    BY <1>2 DEF Reads
  <2>2. next # 0
    BY TextIs
  <2>0. r.next = next /\ r.set = more
    BY <2>1, ReadHas
  <2>3. \A set : With(set, r) = Read(set \cup more, next)
    BY <2>0, <2>2 DEF With
  <2>4. ASSUME NEW set PROVE With(one, Read(set, next)) = Read(one \cup set, next)
    <3>1. Read(set, next).set = set /\ Read(set, next).next = next
      BY ReadHas
    <3> QED BY <2>2, <3>1 DEF With
  <2>5. one \cup (two \cup more) = (one \cup two) \cup more /\ {} \cup more = more
    OBVIOUS
  <2>6. With(one, With(two, r)) = Read(one \cup (two \cup more), next)
    BY <2>3, <2>4
  <2>7. With(one \cup two, r) = Read((one \cup two) \cup more, next)
    BY <2>3
  <2> QED BY <2>1, <2>3, <2>5, <2>6, <2>7
<1> QED BY <1>1, <1>2

(* Behind a part, inside of the text.                                      *)
LEMMA PartsInside ==
  ASSUME NEW class, Wide(class), NEW s, IsText(s), NEW o \in Nat, NEW base, NEW at, Layout(s, o, class, base, at),
         Spells(s, o, Unclosed(class)), NEW k \in 1 .. Len(class.parts) + 1
  PROVE  base + at[k] + 1 \in base + 1 .. Len(s) + 1 /\ base \in Nat /\ at[k] \in Nat
<1>1. Len(class.parts) \in Nat /\ Len(s) \in Nat /\ base \in Nat
  BY WideIs, TextIs DEF Layout
<1>2. CASE k \in 1 .. Len(class.parts)
  <2>1. base + at[k] + 1 \in 1 .. Len(s) /\ at[k] \in Nat
    BY <1>2, LayoutIs
  <2> QED BY <1>1, <2>1
<1>3. CASE k = Len(class.parts) + 1
  <2>1. o + Len(Unclosed(class)) = base + at[k] /\ at[k] \in Nat
    BY <1>3 DEF Layout
  <2>2. o + Len(Unclosed(class)) <= Len(s)
    BY DEF Spells
  <2> QED BY <1>1, <2>1, <2>2
<1> QED BY <1>1, <1>2, <1>3

LEMMA PartStands ==
  ASSUME NEW class, Wide(class), NEW s, IsText(s), NEW o \in Nat, NEW base, NEW at, Layout(s, o, class, base, at),
         NEW k \in 1 .. Len(class.parts)
  PROVE  Stands(s, base + 1, base + at[k] + 1, class.parts[k])
<1>1. Spells(s, (base + at[k] + 1) - 1, class.parts[k].text) /\ base \in Nat
  BY LayoutIs
<1>2. class.parts[k].text[1] = "]" => k = 1
  <2>1. k \in DOMAIN class.parts
    BY LenProperties DEF Wide
  <2> QED BY <2>1 DEF Wide, Placed
<1>3. k = 1 => base + at[k] + 1 = base + 1
  BY <1>1 DEF Layout
<1>4. class.parts[k].text[1] = "]" => base + at[k] + 1 = base + 1
  BY <1>2, <1>3, Zenon
<1> DEFINE i == base + at[k] + 1  first == base + 1  part == class.parts[k]
<1>5. Spells(s, i - 1, part.text) /\ (part.text[1] = "]" => i = first)
  BY <1>1, <1>4
<1> HIDE DEF i, first, part
<1>6. Stands(s, first, i, part)
  BY <1>5 DEF Stands
<1> QED BY <1>6 DEF i, first, part

LEMMA PartIsFree ==
  ASSUME NEW class, Wide(class), NEW s, IsText(s), NEW o \in Nat, NEW base, NEW at, Layout(s, o, class, base, at),
         Closes(s, o + Len(Unclosed(class)) + 1), NEW k \in 1 .. Len(class.parts)
  PROVE  Free(s, base + at[k + 1] + 1)
<1> DEFINE n == Len(class.parts)
<1>1. n \in Nat /\ k \in Nat
  BY WideIs
<1>2. CASE k = n
  <2>1. o + Len(Unclosed(class)) + 1 = base + at[k + 1] + 1
    BY <1>2 DEF Layout
  <2> QED BY <2>1 DEF Closes, Free
<1>3. CASE k # n
  <2> DEFINE c == k + 1  part == class.parts[c]
  <2>1. c \in 1 .. n /\ c # 1
    BY <1>1, <1>3
  <2> HIDE DEF c
  <2>2. /\ s[base + at[c] + 1] = part.text[1] /\ base + at[c] + 1 \in 1 .. Len(s)
        /\ at[c + 1] = at[c] + Len(part.text) /\ at[c] \in Nat /\ base \in Nat
    <3> HIDE DEF n, part
    <3>1. c \in 1 .. Len(class.parts)
      BY <2>1 DEF n
    <3>2. s[base + at[c] + 1] = class.parts[c].text[1] /\ base + at[c] + 1 \in 1 .. Len(s)
      BY <3>1, LayoutIs
    <3>3. at[c + 1] = at[c] + Len(class.parts[c].text) /\ at[c] \in Nat /\ base \in Nat
      BY <3>1, LayoutIs
    <3> QED BY <3>2, <3>3 DEF part
  <2>3. At(s, base + at[c] + 1) = part.text[1]
    BY <2>2, AtIs
  <2>4. ASSUME part.text[1] = "-" PROVE At(s, base + at[c] + 1 + 1) \in {"", "]"}
    <3>1. c = n /\ part = Literal("-")
      <4>1. c \in DOMAIN class.parts
        BY <2>1, LenProperties DEF Wide
      <4>2. c = 1 \/ (c = Len(class.parts) /\ part = Literal("-"))
        BY <2>4, <4>1 DEF Wide, Placed
      <4> QED BY <2>1, <4>2
    <3>2. Len(part.text) = 1
      <4>1. "-" \in Charset
        BY CharsetHas
      <4>2. part.text = <<"-">>
        BY <3>1, WritingHas DEF Literal
      <4>3. Len(<<"-">>) = 1
        BY <4>1, OneChar
      <4> QED BY <4>2, <4>3, Zenon
    <3>3. o + Len(Unclosed(class)) = base + at[c + 1]
      BY <3>1 DEF Layout
    <3>4. o + Len(Unclosed(class)) + 1 = base + at[c] + 1 + 1
      BY <2>2, <3>2, <3>3
    <3> QED BY <3>4 DEF Closes
  <2>5. Free(s, base + at[c] + 1)
    BY <2>3, <2>4 DEF Free
  <2> QED BY <2>5 DEF c
<1> QED BY <1>2, <1>3

LEMMA PrefixRead ==
  ASSUME NEW class, Wide(class), NEW s, IsText(s), NEW o \in Nat, NEW base, NEW at, Layout(s, o, class, base, at),
         Spells(s, o, Unclosed(class)), Closes(s, o + Len(Unclosed(class)) + 1),
         NEW g, IsParts(g, s, base + 1, base + 1),
         NEW m \in 0 .. Len(class.parts), \A k \in 1 .. m : class.parts[k] \in ClassParts
  PROVE  g[base + 1] = With(Means(class, m), g[base + at[m + 1] + 1])
<1> DEFINE n == Len(class.parts)
           T == {k \in Nat : k <= m => g[base + 1] = With(Means(class, k), g[base + at[k + 1] + 1])}
<1>1. n \in Nat /\ m \in Nat /\ m <= n /\ base \in Nat /\ at[1] = 0 /\ Len(s) \in Nat
  BY WideIs, TextIs DEF Layout
<1>2. base + 1 \in 1 .. Len(s) + 1
  <2>1. 1 \in 1 .. n + 1
    BY <1>1
  <2>2. base + at[1] + 1 \in base + 1 .. Len(s) + 1
    BY <2>1, PartsInside
  <2> QED BY <1>1, <2>2
<1>3. 0 \in T
  <2>1. Means(class, 0) = {}
    <3>1. 1 .. 0 = {}
      OBVIOUS
    <3> QED BY <3>1 DEF Means
  <2>2. base + at[0 + 1] + 1 = base + 1 /\ base + 1 \in base + 1 .. Len(s) + 1 /\ base + 1 \in Nat
    BY <1>1, <1>2
  <2>3. Reads(s, base + 1, g[base + 1])
    BY <1>2, <2>2, PartsRead
  <2>4. With({}, g[base + 1]) = g[base + 1]
    BY <2>2, <2>3, WithTwice
  <2> QED BY <2>1, <2>2, <2>4
<1>4. ASSUME NEW k \in Nat, k \in T PROVE k + 1 \in T
  <2> DEFINE c == k + 1  part == class.parts[c]  i == base + at[c] + 1  next == base + at[c + 1] + 1
  <2> SUFFICES ASSUME c <= m PROVE g[base + 1] = With(Means(class, c), g[next])
    OBVIOUS
  <2>1. k <= m /\ c \in 1 .. m /\ c \in 1 .. n /\ c + 1 \in 1 .. n + 1
    BY <1>1
  <2>2. g[base + 1] = With(Means(class, k), g[i])
    BY <1>4, <2>1
  <2>3. Means(class, c) = Means(class, k) \cup part.means
    <3>1. 1 .. c = 1 .. k \cup {c}
      BY NextInterval
    <3> HIDE DEF c
    <3> QED BY <3>1 DEF Means
  <2> HIDE DEF c
  <2>4. i \in base + 1 .. Len(s) /\ i + Len(part.text) = next
    <3>1. i \in 1 .. Len(s) /\ at[c] \in Nat /\ at[c + 1] = at[c] + Len(part.text) /\ Len(part.text) \in 1 .. 3
      <4>1. c \in 1 .. Len(class.parts)
        BY <2>1
      <4>2. Len(part.text) \in 1 .. 3 /\ at[c + 1] = at[c] + Len(part.text)
        BY <4>1, LayoutIs
      <4>3. at[c] \in Nat /\ base + at[c] + 1 \in 1 .. Len(s)
        BY <4>1, LayoutIs
      <4> QED BY <4>2, <4>3
    <3> DEFINE a == at[c]  len == Len(part.text)
    <3>2. at[c + 1] = a + len /\ a \in Nat /\ len \in 1 .. 3 /\ base + a + 1 \in 1 .. Len(s)
      BY <3>1
    <3> HIDE DEF a, len, part
    <3>3. base + a + 1 \in base + 1 .. Len(s) /\ base + a + 1 + len = base + (a + len) + 1
      BY <1>1, <3>2
    <3> QED BY <3>2, <3>3 DEF a, len
  <2>5. Stands(s, base + 1, i, part) /\ Free(s, next)
    BY <2>1, PartStands, PartIsFree
  <2>6. part \in ClassParts
    BY <2>1
  <2>7. Reads(s, next, g[next]) /\ next \in Nat
    <3>1. next \in base + 1 .. Len(s) + 1
      BY <2>1, PartsInside
    <3> QED BY <1>1, <1>2, <3>1, PartsRead
  <2> HIDE DEF i, next, part
  <2>8. g[i] = With(part.means, g[next])
    <3>1. Free(s, i + Len(part.text))
      BY <2>4, <2>5
    <3>2. g[i] = With(part.means, g[i + Len(part.text)])
      BY <1>2, <2>4, <2>5, <2>6, <3>1, PartThen
    <3> QED BY <2>4, <3>2
  <2>9. With(Means(class, k), With(part.means, g[next])) = With(Means(class, k) \cup part.means, g[next])
    BY <2>7, WithTwice
  <2> QED BY <2>2, <2>3, <2>8, <2>9
<1>5. m \in T
  <2> HIDE DEF T
  <2> QED BY <1>1, <1>3, <1>4, SetInduction
<1> QED BY <1>1, <1>5

(* What is read of a class, from its opening on.                           *)
ClassRead(s, o, class, m, base, at, g) ==
  /\ Layout(s, o, class, base, at) /\ base + 1 \in 1 .. Len(s) + 1 /\ IsParts(g, s, base + 1, base + 1)
  /\ ReadItem(s, o + 1) =
       LET all == With(Means(class, m), g[base + at[m + 1] + 1]) IN
       IF class.negated /\ all.next # 0 THEN Read(Charset \ all.set, all.next) ELSE all

LEMMA ClassReads ==
  ASSUME NEW class, Wide(class), NEW s, IsText(s), NEW o \in Nat,
         Spells(s, o, Unclosed(class)), Closes(s, o + Len(Unclosed(class)) + 1),
         NEW m \in 0 .. Len(class.parts), \A k \in 1 .. m : class.parts[k] \in ClassParts
  PROVE  /\ o + 1 \in 1 .. Len(s) /\ s[o + 1] = "["
         /\ \E base, at, g : ClassRead(s, o, class, m, base, at, g)
<1>1. PICK base, at : Layout(s, o, class, base, at)
  BY LaidOut
<1>2. /\ o + 1 \in 1 .. Len(s) /\ s[o + 1] = "[" /\ (Negates(s, o + 1) <=> class.negated)
      /\ FirstOf(s, o + 1) = base + 1
  BY <1>1, LaidOut, FirstIs
<1> DEFINE open == o + 1
<1>3. s[open] = "[" /\ (Negates(s, open) <=> class.negated) /\ FirstOf(s, open) = base + 1 /\ open \in 1 .. Len(s)
  BY <1>2
<1> HIDE DEF open
<1>4. PICK g : /\ IsParts(g, s, base + 1, base + 1) /\ base + 1 \in 1 .. Len(s) + 1
               /\ parse_class(s, open) = LET all == g[base + 1] IN
                    IF Negates(s, open) /\ all.next # 0 THEN Read(Charset \ all.set, all.next) ELSE all
  BY <1>3, ClassIs
<1>5. g[base + 1] = With(Means(class, m), g[base + at[m + 1] + 1])
  BY <1>1, <1>4, PrefixRead
<1>6. ReadItem(s, open) = parse_class(s, open)
  BY <1>3 DEF ReadItem, Outside
<1>7. class.negated \in BOOLEAN
  BY DEF Wide
<1>8. ReadItem(s, open) = LET all == With(Means(class, m), g[base + at[m + 1] + 1]) IN
                    IF class.negated /\ all.next # 0 THEN Read(Charset \ all.set, all.next) ELSE all
  BY <1>3, <1>4, <1>5, <1>6, <1>7
<1>9. ClassRead(s, o, class, m, base, at, g)
  BY <1>1, <1>4, <1>8 DEF open, ClassRead
<1> QED BY <1>2, <1>9

LEMMA UnclosedIs ==
  ASSUME NEW class, Wide(class)
  PROVE  /\ IsText(Unclosed(class)) /\ Len(Unclosed(class)) \in Nat \ {0} /\ Unclosed(class)[1] = "["
         /\ IsText(Closed(class)) /\ Len(Closed(class)) = Len(Unclosed(class)) + 1 /\ Closed(class)[1] = "["
<1> DEFINE front == Opening(class.negated)  flat == FlattenSeq(PartTextsOf(class))
<1>1. Unclosed(class) = front \o flat /\ Closed(class) = Unclosed(class) \o <<"]">>
  BY DEF Unclosed, Closed, PartTextsOf
<1>2. IsText(flat) /\ Len(flat) \in Nat
  BY WideIs, StrungTogether, TextIs DEF Strung
<1>3. IsText(front) /\ Len(front) \in Nat \ {0} /\ front[1] = "["
  <2>1. class.negated \in BOOLEAN
    BY DEF Wide
  <2> QED BY <2>1, OpeningIs
<1> HIDE DEF front, flat
<1>4. /\ IsText(front \o flat) /\ Len(front \o flat) = Len(front) + Len(flat)
      /\ \A i \in 1 .. Len(front) : (front \o flat)[i] = front[i]
  BY <1>2, <1>3, SpelledLast
<1>5. IsText(Unclosed(class)) /\ Len(Unclosed(class)) \in Nat \ {0} /\ Unclosed(class)[1] = "["
  BY <1>1, <1>2, <1>3, <1>4
<1>6. IsText(<<"]">>) /\ Len(<<"]">>) = 1
  <2>1. "]" \in Charset
    BY CharsetHas
  <2> QED BY <2>1, OneChar
<1> DEFINE u == Unclosed(class)  w == <<"]">>
<1>7. IsText(u) /\ Len(u) \in Nat \ {0} /\ u[1] = "[" /\ IsText(w) /\ Len(w) = 1
  BY <1>5, <1>6
<1> HIDE DEF u, w
<1>8. IsText(u \o w) /\ Len(u \o w) = Len(u) + 1 /\ (u \o w)[1] = "["
  <2>1. IsText(u \o w) /\ Len(u \o w) = Len(u) + Len(w) /\ \A i \in 1 .. Len(u) : (u \o w)[i] = u[i]
    BY <1>7, SpelledLast
  <2>2. 1 \in 1 .. Len(u)
    BY <1>7
  <2> QED BY <1>7, <2>1, <2>2
<1> QED BY <1>1, <1>7, <1>8 DEF u, w

LEMMA ClassesAreWide ==
  /\ \A class \in Classes : Wide(class) /\ \A k \in 1 .. Len(class.parts) : class.parts[k] \in ClassParts
  /\ \A class \in BadClasses :
       /\ Wide(class) /\ Len(class.parts) \in Nat \ {0}
       /\ class.parts[Len(class.parts)] \in BadParts
       /\ \A k \in 1 .. Len(class.parts) - 1 : class.parts[k] \in ClassParts
<1>1. ASSUME NEW class \in Classes
      PROVE  Wide(class) /\ \A k \in 1 .. Len(class.parts) : class.parts[k] \in ClassParts
  <2>1. class.negated \in BOOLEAN /\ class.parts \in Seq(ClassParts) /\ Placed(class)
    BY AuthorsAssumption DEF AuthorsAssumption
  <2>2. class.parts \in Seq(ClassParts \cup BadParts)
    BY <2>1
  <2> QED BY <2>1, <2>2, ElementOfSeq DEF Wide
<1>2. ASSUME NEW class \in BadClasses
      PROVE  /\ Wide(class) /\ Len(class.parts) \in Nat \ {0}
             /\ class.parts[Len(class.parts)] \in BadParts
             /\ \A k \in 1 .. Len(class.parts) - 1 : class.parts[k] \in ClassParts
  <2> DEFINE n == Len(class.parts)
  <2>1. /\ class.negated \in BOOLEAN /\ class.parts \in Seq(ClassParts \cup BadParts) /\ class.parts # <<>>
        /\ \A k \in DOMAIN class.parts : class.parts[k] \in BadParts <=> k = Len(class.parts)
        /\ Placed(class)
    BY AuthorsAssumption DEF AuthorsAssumption
  <2>2. n \in Nat \ {0}
    BY <2>1, EmptySeq
  <2>3. DOMAIN class.parts = 1 .. n /\ \A k \in 1 .. n : class.parts[k] \in ClassParts \cup BadParts
    BY <2>1, LenProperties, ElementOfSeq
  <2>4. n \in 1 .. n /\ \A k \in 1 .. n - 1 : k \in 1 .. n /\ k # n
    BY <2>2
  <2>5. class.parts[n] \in BadParts /\ \A k \in 1 .. n - 1 : class.parts[k] \in ClassParts
    BY <2>1, <2>3, <2>4
  <2> QED BY <2>1, <2>2, <2>5 DEF Wide
<1> QED BY <1>1, <1>2

LEMMA ClosedSpells ==
  ASSUME NEW class, Wide(class), NEW s, IsText(s), NEW o \in Nat, Spells(s, o, Closed(class))
  PROVE  /\ Spells(s, o, Unclosed(class)) /\ At(s, o + Len(Unclosed(class)) + 1) = "]"
         /\ o + Len(Unclosed(class)) + 1 \in 1 .. Len(s)
<1> DEFINE u == Unclosed(class)  w == <<"]">>
<1>1. IsText(u) /\ Len(u) \in Nat /\ Spells(s, o, u \o w)
  BY UnclosedIs DEF Closed
<1>2. IsText(w) /\ Len(w) = 1 /\ w[1] = "]"
  <2>1. "]" \in Charset
    BY CharsetHas
  <2> QED BY <2>1, OneChar
<1> HIDE DEF u, w
<1>3. Spells(s, o, u) /\ Spells(s, o + Len(u), w)
  BY <1>1, <1>2, SpellsBoth
<1>4. o + Len(u) + 1 <= Len(s) /\ s[o + Len(u) + 1] = "]"
  BY <1>2, <1>3 DEF Spells
<1>5. o + Len(u) + 1 \in 1 .. Len(s)
  <2>1. Len(s) \in Nat
    BY TextIs
  <2> QED BY <1>1, <1>4, <2>1
<1>6. At(s, o + Len(u) + 1) = "]"
  BY <1>4, <1>5, AtIs
<1> QED BY <1>3, <1>5, <1>6 DEF u

(* A class is read as written.                                             *)
LEMMA ClassThen ==
  ASSUME NEW class \in Classes, class.parts # <<>>, NEW s, IsText(s), NEW o \in Nat, Spells(s, o, Closed(class))
  PROVE  ReadItem(s, o + 1) = Read(Class(class).means, o + Len(Closed(class)) + 1)
<1> DEFINE n == Len(class.parts)  e == o + Len(Unclosed(class)) + 1
<1>1. Wide(class) /\ \A k \in 1 .. n : class.parts[k] \in ClassParts
  BY ClassesAreWide
<1>2. n \in Nat /\ n # 0 /\ n \in 0 .. n /\ DOMAIN class.parts = 1 .. n
  <2>1. class.parts \in Seq(ClassParts \cup BadParts)
    BY <1>1 DEF Wide
  <2>2. n \in Nat \ {0} /\ DOMAIN class.parts = 1 .. n
    BY <2>1, EmptySeq, LenProperties
  <2> QED BY <2>2
<1>3. Spells(s, o, Unclosed(class)) /\ At(s, e) = "]" /\ e \in 1 .. Len(s)
  BY <1>1, ClosedSpells
<1>4. Closes(s, e)
  BY <1>3 DEF Closes
<1>5. PICK base, at, g : ClassRead(s, o, class, n, base, at, g)
  BY <1>1, <1>2, <1>3, <1>4, ClassReads
<1>0. Layout(s, o, class, base, at)
  BY <1>5 DEF ClassRead
<1>6. base + at[n + 1] + 1 = e /\ at[n + 1] \in Nat /\ at[n + 1] # 0 /\ base \in Nat
  <2>1. o + Len(Unclosed(class)) = base + at[n + 1]
    BY <1>0 DEF Layout
  <2> DEFINE k == n  len == Len(class.parts[k].text)
  <2>2. k \in 1 .. Len(class.parts) /\ k = n
    BY <1>2
  <2> HIDE DEF k
  <2>3. len \in 1 .. 3 /\ at[k] \in Nat /\ at[k + 1] \in Nat /\ at[k + 1] = at[k] + len /\ base \in Nat
    <3> HIDE DEF n, e, len
    <3>1. k \in 1 .. Len(class.parts)
      BY <2>2
    <3>2. /\ Len(class.parts[k].text) \in 1 .. 3
          /\ at[k] \in Nat /\ at[k + 1] \in Nat /\ at[k + 1] = at[k] + Len(class.parts[k].text) /\ base \in Nat
      BY <1>0, <1>1, <3>1, LayoutIs
    <3> QED BY <3>2 DEF len
  <2> HIDE DEF len
  <2>4. at[k + 1] # 0
    BY <2>3
  <2> HIDE DEF n
  <2>5. at[n + 1] # 0 /\ at[n + 1] \in Nat /\ base \in Nat
    BY <2>2, <2>3, <2>4
  <2> QED BY <2>1, <2>5 DEF n
<1> HIDE DEF e, n
<1>7. g[e] = Read({}, e + 1)
  <2>1. e \in base + 1 .. Len(s) + 1 /\ ~(e > Len(s)) /\ e # base + 1 /\ s[e] = "]"
    <3>1. Len(s) \in Nat
      BY TextIs
    <3>2. s[e] = "]"
      BY <1>3, AtIs
    <3> QED BY <1>3, <1>6, <3>1, <3>2
  <2>2. g[e] = PartAt(g, s, base + 1, e)
    BY <1>5, <2>1 DEF ClassRead, IsParts
  <2> QED BY <2>1, <2>2 DEF PartAt
<1> DEFINE any == Means(class, n)
<1>8. With(any, g[e]) = Read(any, e + 1) /\ e + 1 # 0
  <2>1. e + 1 # 0
    BY <1>3
  <2>2. g[e].next = e + 1 /\ g[e].set = {}
    BY <1>7, ReadHas
  <2>3. any \cup {} = any
    OBVIOUS
  <2> HIDE DEF any
  <2> QED BY <2>1, <2>2, <2>3 DEF With
<1>9. Class(class).means = IF class.negated THEN Charset \ any ELSE any
  BY <1>2, WritingHas DEF Class, Means
<1>10. e + 1 = o + Len(Closed(class)) + 1
  <2>1. Len(Closed(class)) = Len(Unclosed(class)) + 1 /\ Len(Unclosed(class)) \in Nat
    BY <1>1, UnclosedIs
  <2> QED BY <2>1 DEF e
<1> HIDE DEF any
<1>11. ReadItem(s, o + 1) = IF class.negated THEN Read(Charset \ any, e + 1) ELSE Read(any, e + 1)
  <2>1. Read(any, e + 1).set = any /\ Read(any, e + 1).next = e + 1
    BY ReadHas
  <2>2. ReadItem(s, o + 1) = LET all == Read(any, e + 1) IN
             IF class.negated /\ all.next # 0 THEN Read(Charset \ all.set, all.next) ELSE all
    BY <1>5, <1>6, <1>8 DEF any, ClassRead
  <2> QED BY <1>8, <2>1, <2>2
<1> QED BY <1>9, <1>10, <1>11

LEMMA UnclosedThen ==
  ASSUME NEW class \in Classes, NEW s, IsText(s), NEW o \in Nat,
         Spells(s, o, Unclosed(class)), Len(s) = o + Len(Unclosed(class))
  PROVE  ReadItem(s, o + 1) = Refused
<1> DEFINE n == Len(class.parts)  e == o + Len(Unclosed(class)) + 1
<1>1. Wide(class) /\ (\A k \in 1 .. n : class.parts[k] \in ClassParts) /\ n \in Nat /\ n \in 0 .. n
  BY ClassesAreWide, WideIs
<1>2. e = Len(s) + 1 /\ Len(s) \in Nat
  BY TextIs
<1>3. Closes(s, e)
  <2>1. ~(e \in 1 .. Len(s))
    BY <1>2
  <2>2. At(s, e) = ""
    BY <2>1, AtIs
  <2> QED BY <2>2 DEF Closes
<1>4. PICK base, at, g : ClassRead(s, o, class, n, base, at, g)
  BY <1>1, <1>3, ClassReads
<1>5. base + at[n + 1] + 1 = e /\ base \in Nat /\ at[n + 1] \in Nat
  BY <1>4 DEF ClassRead, Layout
<1> HIDE DEF e, n
<1>6. g[e] = Refused
  <2>1. e \in base + 1 .. Len(s) + 1 /\ e > Len(s)
    BY <1>2, <1>4, <1>5 DEF ClassRead
  <2>2. g[e] = PartAt(g, s, base + 1, e)
    BY <1>4, <2>1 DEF ClassRead, IsParts
  <2> QED BY <2>1, <2>2 DEF PartAt
<1>7. With(Means(class, n), g[e]) = Refused /\ Refused.next = 0
  BY <1>6, ReadHas DEF With
<1> QED BY <1>4, <1>5, <1>7 DEF ClassRead

LEMMA BadClassThen ==
  ASSUME NEW class \in BadClasses, NEW s, IsText(s), NEW o \in Nat, Spells(s, o, Closed(class))
  PROVE  ReadItem(s, o + 1) = Refused
<1> DEFINE n == Len(class.parts)  m == n - 1  e == o + Len(Unclosed(class)) + 1
<1>1. /\ Wide(class) /\ (\A k \in 1 .. m : class.parts[k] \in ClassParts) /\ class.parts[n] \in BadParts
      /\ n \in Nat \ {0}
  BY ClassesAreWide
<1>2. m \in 0 .. n /\ m + 1 = n /\ n \in 1 .. n
  BY <1>1
<1>3. Spells(s, o, Unclosed(class)) /\ At(s, e) = "]"
  BY <1>1, ClosedSpells
<1>4. Closes(s, e)
  BY <1>3 DEF Closes
<1> HIDE DEF m
<1>5. PICK base, at, g : ClassRead(s, o, class, m, base, at, g)
  BY <1>1, <1>2, <1>3, <1>4, ClassReads
<1>0. Layout(s, o, class, base, at) /\ base + 1 \in 1 .. Len(s) + 1 /\ IsParts(g, s, base + 1, base + 1)
  BY <1>5 DEF ClassRead
<1> DEFINE i == base + at[n] + 1
<1>6. i \in base + 1 .. Len(s) /\ Stands(s, base + 1, i, class.parts[n])
  <2>1. i \in 1 .. Len(s) /\ at[n] \in Nat /\ base \in Nat
    BY <1>0, <1>1, <1>2, LayoutIs
  <2>2. Stands(s, base + 1, i, class.parts[n])
    BY <1>0, <1>1, <1>2, PartStands
  <2> QED BY <2>1, <2>2
<1>7. g[i] = Refused
  <2> DEFINE part == class.parts[n]
  <2>1. part \in BadParts /\ Stands(s, base + 1, i, part) /\ i \in base + 1 .. Len(s)
    BY <1>1, <1>6
  <2> HIDE DEF part, i
  <2> QED BY <1>0, <2>1, BadPartThen
<1>8. With(Means(class, m), g[i]) = Refused /\ Refused.next = 0
  BY <1>7, ReadHas DEF With
<1> QED BY <1>2, <1>5, <1>8 DEF ClassRead

(* An item is read as written, wherever it stands.                         *)
IsItem(i) ==
  \/ \E c \in Bare : i = Literal(c)
  \/ \E c \in Escapes : i = Escaped(c)
  \/ i = Dot
  \/ \E class \in Classes : class.parts # <<>> /\ i = Class(class)

LEMMA ItemsAre ==
  ASSUME NEW i \in Items
  PROVE  IsItem(i)
BY AuthorsAssumption DEF AuthorsAssumption, IsItem

LEMMA ItemTexts ==
  ASSUME NEW i, IsItem(i)
  PROVE  /\ IsText(i.text) /\ Len(i.text) \in Nat \ {0} /\ i.means \subseteq Charset
         /\ i.text[1] \notin Quantifiers \cup {"^", "$"}
<1>1. "\\" \in Charset /\ "." \in Charset
  BY CharsetHas
<1>2. CASE \E c \in Bare : i = Literal(c)
  <2>1. PICK c \in Bare : i = Literal(c)
    BY <1>2
  <2>2. i.text = <<c>> /\ i.means = {c} /\ c \in Charset
    BY <2>1, WritingHas DEF Literal, Bare
  <2>3. IsText(<<c>>) /\ Len(<<c>>) \in Nat \ {0} /\ <<c>>[1] = c
    BY <2>2, OneChar
  <2>4. c \notin Quantifiers \cup {"^", "$"}
    BY <2>1 DEF Bare, Quantifiers, Outside
  <2>5. {c} \subseteq Charset
    BY <2>2
  <2> QED BY <2>2, <2>3, <2>4, <2>5, Zenon
<1>3. CASE \E c \in Escapes : i = Escaped(c)
  <2>1. PICK c \in Escapes : i = Escaped(c)
    BY <1>3
  <2>2. i.text = <<"\\", c>> /\ i.means = EscapePart(c) /\ c \in Charset /\ EscapePart(c) \subseteq Charset
    BY <2>1, WritingHas, EscapesAre DEF Escaped
  <2>3. IsText(<<"\\", c>>) /\ Len(<<"\\", c>>) \in Nat \ {0} /\ <<"\\", c>>[1] = "\\"
    BY <1>1, <2>2, TwoChars
  <2>4. "\\" \notin Quantifiers \cup {"^", "$"}
    BY DEF Quantifiers
  <2> QED BY <2>2, <2>3, <2>4, Zenon
<1>4. CASE i = Dot
  <2>1. i.text = <<".">> /\ i.means = Charset \ {"\n"}
    BY <1>4, WritingHas DEF Dot
  <2>2. IsText(<<".">>) /\ Len(<<".">>) \in Nat \ {0} /\ <<".">>[1] = "."
    BY <1>1, OneChar
  <2>3. "." \notin Quantifiers \cup {"^", "$"} /\ Charset \ {"\n"} \subseteq Charset
    BY DEF Quantifiers
  <2> QED BY <2>1, <2>2, <2>3, Zenon
<1>5. CASE \E class \in Classes : i = Class(class)
  <2>1. PICK class \in Classes : i = Class(class)
    BY <1>5
  <2>2. Wide(class) /\ \A k \in 1 .. Len(class.parts) : class.parts[k] \in ClassParts
    BY ClassesAreWide
  <2>3. IsText(Closed(class)) /\ Len(Closed(class)) \in Nat \ {0} /\ Closed(class)[1] = "["
    BY <2>2, UnclosedIs
  <2>4. DOMAIN class.parts = 1 .. Len(class.parts)
    BY <2>2, LenProperties DEF Wide
  <2>5. UNION {class.parts[k].means : k \in DOMAIN class.parts} \subseteq Charset
    BY <2>2, <2>4, PartTexts
  <2>6. i.text = Closed(class) /\ i.means \subseteq Charset
    BY <2>1, <2>5, WritingHas DEF Class
  <2>7. "[" \notin Quantifiers \cup {"^", "$"}
    BY DEF Quantifiers
  <2> QED BY <2>3, <2>6, <2>7, Zenon
<1> QED BY <1>2, <1>3, <1>4, <1>5 DEF IsItem

LEMMA ItemRead ==
  ASSUME NEW i, IsItem(i), NEW s, IsText(s), NEW o \in Nat, Spells(s, o, i.text)
  PROVE  ReadItem(s, o + 1) = Read(i.means, o + Len(i.text) + 1) /\ o + 1 \in 1 .. Len(s) /\ s[o + 1] = i.text[1]
<1>1. Len(i.text) \in Nat \ {0} /\ Len(s) \in Nat
  BY ItemTexts, TextIs
<1>2. o + Len(i.text) <= Len(s) /\ \A j \in 1 .. Len(i.text) : s[o + j] = i.text[j]
  BY DEF Spells
<1>3. o + 1 \in 1 .. Len(s) /\ s[o + 1] = i.text[1]
  BY <1>1, <1>2
<1>4. "\\" \in Charset /\ "." \in Charset
  BY CharsetHas
<1>5. CASE \E c \in Bare : i = Literal(c)
  <2>1. PICK c \in Bare : i = Literal(c)
    BY <1>5
  <2>2. i.text = <<c>> /\ i.means = {c} /\ c \in Charset
    BY <2>1, WritingHas DEF Literal, Bare
  <2>3. Len(<<c>>) = 1 /\ <<c>>[1] = c
    BY <2>2, OneChar
  <2>4. Len(i.text) = 1 /\ i.text[1] = c
    BY <2>2, <2>3, Zenon
  <2>5. s[o + 1] = c /\ o + Len(i.text) + 1 = o + 1 + 1
    BY <1>3, <2>4
  <2>6. c \notin Outside \cup {".", "\\", "["}
    BY <2>1 DEF Bare
  <2>7. ReadItem(s, o + 1) = Read({c}, o + 1 + 1)
    BY <2>5, <2>6 DEF ReadItem
  <2> QED BY <1>3, <2>2, <2>5, <2>7
<1>6. CASE \E c \in Escapes : i = Escaped(c)
  <2>1. PICK c \in Escapes : i = Escaped(c)
    BY <1>6
  <2>2. i.text = <<"\\", c>> /\ i.means = EscapePart(c) /\ c \in Charset
    BY <2>1, WritingHas, EscapesAre DEF Escaped
  <2>3. Len(<<"\\", c>>) = 2 /\ <<"\\", c>>[1] = "\\" /\ <<"\\", c>>[2] = c
    BY <1>4, <2>2, TwoChars
  <2>4. Len(i.text) = 2 /\ i.text[1] = "\\" /\ i.text[2] = c
    BY <2>2, <2>3, Zenon
  <2>5. /\ s[o + 1] = "\\" /\ s[o + 2] = c /\ o + 2 \in 1 .. Len(s)
        /\ o + Len(i.text) + 1 = o + 1 + 2 /\ o + 1 + 1 = o + 2
    <3>1. 2 \in 1 .. Len(i.text)
      BY <2>4
    <3> QED BY <1>1, <1>2, <1>3, <2>4, <3>1
  <2>6. At(s, o + 1 + 1) = c /\ s[o + 1 + 1] = c
    BY <2>5, AtIs
  <2>7. ReadItem(s, o + 1) = Read(EscapePart(c), o + 1 + 2)
    BY <2>1, <2>5, <2>6 DEF ReadItem, Outside
  <2> QED BY <1>3, <2>2, <2>5, <2>7
<1>7. CASE i = Dot
  <2>1. i.text = <<".">> /\ i.means = Charset \ {"\n"}
    BY <1>7, WritingHas DEF Dot
  <2>2. Len(<<".">>) = 1 /\ <<".">>[1] = "."
    BY <1>4, OneChar
  <2>3. Len(i.text) = 1 /\ i.text[1] = "."
    BY <2>1, <2>2, Zenon
  <2>4. s[o + 1] = "." /\ o + Len(i.text) + 1 = o + 1 + 1
    BY <1>3, <2>3
  <2>5. ReadItem(s, o + 1) = Read(Charset \ {"\n"}, o + 1 + 1)
    BY <2>4 DEF ReadItem, Outside
  <2> QED BY <1>3, <2>1, <2>4, <2>5
<1>8. CASE \E class \in Classes : class.parts # <<>> /\ i = Class(class)
  <2>1. PICK class \in Classes : class.parts # <<>> /\ i = Class(class)
    BY <1>8
  <2>2. i.text = Closed(class)
    BY <2>1, WritingHas DEF Class
  <2>3. ReadItem(s, o + 1) = Read(Class(class).means, o + Len(Closed(class)) + 1)
    BY <2>1, <2>2, ClassThen
  <2> QED BY <1>3, <2>1, <2>2, <2>3
<1> QED BY <1>5, <1>6, <1>7, <1>8 DEF IsItem

(* What leaves the subset is refused, at the end of a pattern.             *)
LEMMA ExcludedRead ==
  ASSUME NEW x1 \in Excluded, NEW u, IsText(u), NEW s, s = u \o x1
  PROVE  /\ IsText(x1) /\ Len(x1) \in Nat \ {0} /\ x1[1] \notin Quantifiers
         /\ ReadItem(s, Len(u) + 1) = Refused /\ Len(u) + 1 \in 1 .. Len(s)
         /\ ~(s[Len(u) + 1] = "$" /\ Len(u) + 1 = Len(s))
<1> DEFINE o == Len(u)
           Stuck == /\ ReadItem(s, o + 1) = Refused
                    /\ ~(s[o + 1] = "$" /\ o + 1 = Len(s))
<1>1. \/ \E c \in Charset : c \in Outside /\ c # "$" /\ x1 = <<c>>
      \/ \E c \in Charset : x1 = <<"$", c>>
      \/ x1 = <<"\\">>
      \/ \E c \in Charset : c \notin Escapes /\ x1 = <<"\\", c>>
      \/ \E class \in Classes : x1 = Unclosed(class)
      \/ \E class \in BadClasses : x1 = Closed(class)
  <2>1. \A w \in BadEscapes : \E c \in Charset : c \notin Escapes /\ w.text = <<"\\", c>>
    <3> SUFFICES ASSUME NEW w \in BadEscapes PROVE \E c \in Charset : c \notin Escapes /\ w.text = <<"\\", c>>
      OBVIOUS
    <3>1. PICK c \in Charset : c \notin Escapes /\ w = Writing(<<"\\", c>>, {})
      BY DEF BadEscapes
    <3>2. w.text = <<"\\", c>>
      BY <3>1, WritingHas
    <3> QED BY <3>1, <3>2
  <2>2. Excluded \subseteq {<<c>> : c \in (Outside \cap Charset) \ {"$"}} \cup {<<"$", c>> : c \in Charset}
                          \cup {<<"\\">>} \cup {w.text : w \in BadEscapes}
                          \cup {Unclosed(class) : class \in Classes} \cup {Closed(class) : class \in BadClasses}
    BY AuthorsAssumption DEF AuthorsAssumption
  <2> QED BY <2>1, <2>2
<1>2. o \in Nat
  BY TextIs
<1>3. ASSUME IsText(x1), Len(x1) \in Nat \ {0}
      PROVE  /\ IsText(s) /\ Len(s) = o + Len(x1) /\ Spells(s, o, x1) /\ o + 1 \in 1 .. Len(s) /\ s[o + 1] = x1[1]
             /\ Len(s) \in Nat
  <2>1. IsText(s) /\ Len(s) = o + Len(x1) /\ Spells(s, o, x1)
    BY <1>3, SpelledLast
  <2>2. o + 1 \in 1 .. Len(s) /\ s[o + 1] = x1[1] /\ Len(s) \in Nat
    BY <1>2, <1>3, <2>1 DEF Spells
  <2> QED BY <2>1, <2>2
<1>4. "\\" \in Charset /\ "$" \in Charset /\ "" \notin Escapes
  BY CharsetHas, EscapesAre
<1>5. CASE \E c \in Charset : c \in Outside /\ c # "$" /\ x1 = <<c>>
  <2>1. PICK c \in Charset : c \in Outside /\ c # "$" /\ x1 = <<c>>
    BY <1>5
  <2>2. IsText(<<c>>) /\ Len(<<c>>) = 1 /\ <<c>>[1] = c
    BY OneChar
  <2>3. IsText(x1) /\ Len(x1) = 1 /\ x1[1] = c
    BY <2>1, <2>2, Zenon
  <2>4. s[o + 1] = c /\ o + 1 \in 1 .. Len(s)
    BY <1>3, <2>3
  <2>5. Stuck
    BY <2>1, <2>4 DEF ReadItem, Outside
  <2>6. x1[1] \notin Quantifiers
    BY <2>1, <2>3 DEF Outside, Quantifiers
  <2> QED BY <2>3, <2>4, <2>5, <2>6
<1>6. CASE \E c \in Charset : x1 = <<"$", c>>
  <2>1. PICK c \in Charset : x1 = <<"$", c>>
    BY <1>6
  <2>2. IsText(<<"$", c>>) /\ Len(<<"$", c>>) = 2 /\ <<"$", c>>[1] = "$"
    BY <1>4, TwoChars
  <2>3. IsText(x1) /\ Len(x1) = 2 /\ x1[1] = "$"
    BY <2>1, <2>2, Zenon
  <2>4. s[o + 1] = "$" /\ o + 1 \in 1 .. Len(s) /\ o + 1 # Len(s)
    BY <1>2, <1>3, <2>3
  <2>5. Stuck
    BY <2>4 DEF ReadItem, Outside
  <2>6. x1[1] \notin Quantifiers
    BY <2>3 DEF Quantifiers
  <2> QED BY <2>3, <2>4, <2>5, <2>6
<1>7. CASE x1 = <<"\\">>
  <2>2. IsText(<<"\\">>) /\ Len(<<"\\">>) = 1 /\ <<"\\">>[1] = "\\"
    BY <1>4, OneChar
  <2>3. IsText(x1) /\ Len(x1) = 1 /\ x1[1] = "\\"
    BY <1>7, <2>2, Zenon
  <2>4. s[o + 1] = "\\" /\ o + 1 \in 1 .. Len(s) /\ ~(o + 1 + 1 \in 1 .. Len(s)) /\ IsText(s)
    BY <1>2, <1>3, <2>3
  <2>5. At(s, o + 1 + 1) = ""
    BY <2>4, AtIs
  <2>6. Stuck
    BY <1>4, <2>4, <2>5 DEF ReadItem, Outside
  <2>7. x1[1] \notin Quantifiers
    BY <2>3 DEF Quantifiers
  <2> QED BY <2>3, <2>4, <2>6, <2>7
<1>8. CASE \E c \in Charset : c \notin Escapes /\ x1 = <<"\\", c>>
  <2>1. PICK c \in Charset : c \notin Escapes /\ x1 = <<"\\", c>>
    BY <1>8
  <2>2. IsText(<<"\\", c>>) /\ Len(<<"\\", c>>) = 2 /\ <<"\\", c>>[1] = "\\" /\ <<"\\", c>>[2] = c
    BY <1>4, TwoChars
  <2>3. IsText(x1) /\ Len(x1) = 2 /\ x1[1] = "\\" /\ x1[2] = c
    BY <2>1, <2>2, Zenon
  <2>4. s[o + 1] = "\\" /\ o + 1 \in 1 .. Len(s) /\ o + 2 \in 1 .. Len(s) /\ s[o + 2] = c /\ o + 1 + 1 = o + 2 /\ IsText(s)
    <3>1. 2 \in 1 .. Len(x1)
      BY <2>3
    <3>2. IsText(s) /\ Len(s) = o + Len(x1) /\ Spells(s, o, x1) /\ o + 1 \in 1 .. Len(s) /\ s[o + 1] = x1[1]
      BY <1>3, <2>3
    <3>3. s[o + 2] = x1[2]
      BY <3>1, <3>2 DEF Spells
    <3> QED BY <1>2, <2>3, <3>2, <3>3
  <2>5. At(s, o + 1 + 1) = c
    BY <2>4, AtIs
  <2>6. Stuck
    BY <2>1, <2>4, <2>5 DEF ReadItem, Outside
  <2>7. x1[1] \notin Quantifiers
    BY <2>3 DEF Quantifiers
  <2> QED BY <2>3, <2>4, <2>6, <2>7
<1>9. CASE \E class \in Classes : x1 = Unclosed(class)
  <2>1. PICK class \in Classes : x1 = Unclosed(class)
    BY <1>9
  <2>2. IsText(x1) /\ Len(x1) \in Nat \ {0} /\ x1[1] = "["
    BY <2>1, ClassesAreWide, UnclosedIs
  <2>3. IsText(s) /\ Len(s) = o + Len(x1) /\ Spells(s, o, x1) /\ o + 1 \in 1 .. Len(s) /\ s[o + 1] = "["
    BY <1>3, <2>2
  <2>4. ReadItem(s, o + 1) = Refused
    BY <1>2, <2>1, <2>3, UnclosedThen
  <2>5. x1[1] \notin Quantifiers /\ s[o + 1] # "$"
    BY <2>2, <2>3 DEF Quantifiers
  <2> QED BY <2>2, <2>3, <2>4, <2>5
<1>10. CASE \E class \in BadClasses : x1 = Closed(class)
  <2>1. PICK class \in BadClasses : x1 = Closed(class)
    BY <1>10
  <2>2. IsText(x1) /\ Len(x1) \in Nat \ {0} /\ x1[1] = "["
    BY <2>1, ClassesAreWide, UnclosedIs
  <2>3. IsText(s) /\ Len(s) = o + Len(x1) /\ Spells(s, o, x1) /\ o + 1 \in 1 .. Len(s) /\ s[o + 1] = "["
    BY <1>3, <2>2
  <2>4. ReadItem(s, o + 1) = Refused
    BY <1>2, <2>1, <2>3, BadClassThen
  <2>5. x1[1] \notin Quantifiers /\ s[o + 1] # "$"
    BY <2>2, <2>3 DEF Quantifiers
  <2> QED BY <2>2, <2>3, <2>4, <2>5
<1> QED BY <1>1, <1>5, <1>6, <1>7, <1>8, <1>9, <1>10

---------------------------------------------------------------------------
(* What is read of a pattern, however it goes on: u has been read as line. *)
Continues(u, line) ==
  \A v : IsText(v) /\ At(v, 1) \notin Quantifiers /\ (u = <<>> => At(v, 1) # "^") =>
    \A f : IsRest(f, u \o v, Anchored(u), 1) => f[Entry(u)] = Join(line, f[Len(u) + 1])
Unquantified(line) == line # <<>> /\ Last(line).min = 1 /\ Last(line).max = 1
Quantifies(u, line) ==
  Unquantified(line) =>
    \A c \in Quantifiers : \A v : IsText(v) =>
      \A f : IsRest(f, u \o (<<c>> \o v), Anchored(u), 1) =>
        f[Entry(u)] = Join(Front(line) \o <<Quantified(Last(line).item, c)>>, f[Len(u) + 2])

LEMMA EmptyText == IsText(<<>>) /\ Len(<<>>) = 0 /\ IsAtoms(<<>>) /\ At(<<>>, 1) = ""
<1>1. IsText(<<>>) /\ Len(<<>>) = 0 /\ IsAtoms(<<>>)
  BY EmptySeq DEF IsText, IsAtoms
<1>2. At(<<>>, 1) = ""
  BY DEF At
<1> QED BY <1>1, <1>2

LEMMA AnchoredSame ==
  ASSUME NEW u, IsText(u), NEW v, IsText(v), u = <<>> => At(v, 1) # "^"
  PROVE  IsText(u \o v) /\ Len(u \o v) = Len(u) + Len(v) /\ Anchored(u \o v) = Anchored(u) /\ Entry(u \o v) = Entry(u)
<1>1. /\ IsText(u \o v) /\ Len(u \o v) = Len(u) + Len(v) /\ \A i \in 1 .. Len(u) : (u \o v)[i] = u[i]
  BY SpelledLast
<1>2. CASE u = <<>>
  <2>1. u \o v = v
    BY <1>2, ConcatEmptySeq DEF IsText
  <2>2. At(u, 1) = ""
    BY <1>2, EmptyText
  <2>3. ~Anchored(u \o v) /\ ~Anchored(u)
    BY <1>2, <2>1, <2>2 DEF Anchored
  <2> QED BY <1>1, <2>3 DEF Entry, Anchored
<1>3. CASE u # <<>>
  <2>1. Len(u) \in Nat \ {0} /\ Len(v) \in Nat
    BY <1>3, EmptySeq, TextIs DEF IsText
  <2>2. 1 \in 1 .. Len(u) /\ 1 \in 1 .. Len(u \o v)
    BY <1>1, <2>1
  <2>3. At(u \o v, 1) = At(u, 1)
    BY <1>1, <2>2, AtIs
  <2> QED BY <1>1, <2>3 DEF Entry, Anchored
<1> QED BY <1>2, <1>3

LEMMA AtBehind ==
  ASSUME NEW u, IsText(u), NEW v, IsText(v)
  PROVE  At(u \o v, Len(u) + 1) = At(v, 1)
<1> DEFINE s == u \o v
<1>1. IsText(s) /\ Len(s) = Len(u) + Len(v) /\ Spells(s, Len(u), v) /\ Len(u) \in Nat /\ Len(v) \in Nat
  BY SpelledLast, TextIs
<1> HIDE DEF s
<1>2. CASE Len(v) = 0
  <2>1. ~(Len(u) + 1 \in 1 .. Len(s)) /\ ~(1 \in 1 .. Len(v))
    BY <1>1, <1>2
  <2>2. At(s, Len(u) + 1) = "" /\ At(v, 1) = ""
    BY <1>1, <2>1, AtIs
  <2> QED BY <2>2 DEF s
<1>3. CASE Len(v) # 0
  <2>1. Len(u) + 1 \in 1 .. Len(s) /\ 1 \in 1 .. Len(v)
    BY <1>1, <1>3
  <2>2. s[Len(u) + 1] = v[1]
    BY <1>1, <2>1 DEF Spells
  <2>3. At(s, Len(u) + 1) = At(v, 1)
    BY <1>1, <2>1, <2>2, AtIs
  <2> QED BY <2>3 DEF s
<1> QED BY <1>2, <1>3

(* A pattern begins.                                                       *)
LEMMA PatternBegins ==
  ASSUME NEW u \in {<<>>, <<"^">>}
  PROVE  Continues(u, <<>>) /\ Quantifies(u, <<>>) /\ IsText(u) /\ IsAtoms(<<>>)
<1>1. IsText(u) /\ Entry(u) = Len(u) + 1 /\ Len(u) \in Nat
  <2>1. CASE u = <<>>
    <3>1. ~Anchored(u)
      BY <2>1, EmptyText DEF Anchored
    <3>2. IsText(u) /\ Len(u) = 0
      BY <2>1, EmptyText, Zenon
    <3> QED BY <3>1, <3>2 DEF Entry
  <2>2. CASE u = <<"^">>
    <3>1. "^" \in Charset
      BY CharsetHas
    <3>2. IsText(<<"^">>) /\ Len(<<"^">>) = 1 /\ <<"^">>[1] = "^"
      BY <3>1, OneChar
    <3>3. IsText(u) /\ Len(u) = 1 /\ u[1] = "^"
      BY <2>2, <3>2, Zenon
    <3>4. At(u, 1) = "^"
      <4>1. 1 \in 1 .. Len(u)
        BY <3>3
      <4> QED BY <3>3, <4>1, AtIs
    <3> QED BY <3>3, <3>4 DEF Entry, Anchored
  <2> QED BY <2>1, <2>2
<1>2. ASSUME NEW v, IsText(v), u = <<>> => At(v, 1) # "^", NEW f, IsRest(f, u \o v, Anchored(u), 1)
      PROVE  f[Entry(u)] = Join(<<>>, f[Len(u) + 1])
  <2> DEFINE s == u \o v
  <2>1. IsText(s) /\ Len(s) = Len(u) + Len(v) /\ Len(v) \in Nat /\ Anchored(u) \in BOOLEAN
    BY <1>1, <1>2, AnchoredSame, TextIs DEF Anchored
  <2>2. Len(u) + 1 \in 1 .. Len(s) + 1
    BY <1>1, <2>1
  <2>3. IsResult(f[Len(u) + 1])
    <3> HIDE DEF s
    <3>1. IsRest(f, s, Anchored(u), 1)
      BY <1>2 DEF s
    <3> QED BY <2>1, <2>2, <3>1, RestTyped
  <2>4. Join(<<>>, f[Len(u) + 1]) = f[Len(u) + 1]
    <3>1. <<>> \in Seq(Atoms)
      BY EmptySeq
    <3> QED BY <2>3, <3>1, JoinTwice
  <2> QED BY <1>1, <2>4
<1>3. Continues(u, <<>>)
  BY <1>2 DEF Continues
<1> QED BY <1>1, <1>3, EmptyText DEF Quantifies, Unquantified

(* An item is read behind what has been read.                              *)
LEMMA ItemStep ==
  ASSUME NEW u, IsText(u), NEW line, IsAtoms(line), Continues(u, line), NEW i, IsItem(i), NEW v, IsText(v),
         NEW f, IsRest(f, u \o (i.text \o v), Anchored(u), 1)
  PROVE  /\ At(v, 1) \notin Quantifiers =>
              f[Entry(u)] = Join(line \o <<Quantified(i.means, At(v, 1))>>, f[Len(u) + Len(i.text) + 1])
         /\ At(v, 1) \in Quantifiers =>
              f[Entry(u)] = Join(line \o <<Quantified(i.means, At(v, 1))>>, f[Len(u) + Len(i.text) + 2])
<1> DEFINE w == i.text  x1 == w \o v  s == u \o x1  k == Len(u) + 1  next == Len(u) + Len(w) + 1
           c == At(v, 1)
<1>1. /\ IsText(w) /\ Len(w) \in Nat \ {0} /\ i.means \subseteq Charset /\ w[1] \notin Quantifiers \cup {"^", "$"}
      /\ Len(u) \in Nat /\ Len(v) \in Nat
  BY ItemTexts, TextIs
<1>2. IsRest(f, s, Anchored(u), 1)
  OBVIOUS
<1> HIDE DEF w
<1>3. /\ IsText(x1) /\ Len(x1) = Len(w) + Len(v) /\ \A j \in 1 .. Len(w) : x1[j] = w[j]
  BY <1>1, SpelledLast
<1>4. IsText(s) /\ Len(s) = Len(u) + Len(w) + Len(v) /\ Spells(s, Len(u), w)
  <2>1. IsText(s) /\ Len(s) = Len(u) + Len(x1) /\ Spells(s, Len(u), x1)
    <3> HIDE DEF x1
    <3> QED BY <1>3, SpelledLast
  <2>2. Len(s) = Len(u) + Len(w) + Len(v)
    BY <1>1, <1>3, <2>1
  <2> HIDE DEF s
  <2>3. Spells(s, Len(u), w)
    BY <1>1, <2>1, SpellsBoth
  <2> QED BY <2>1, <2>2, <2>3
<1>5. At(s, next) = c
  <2>1. s = (u \o w) \o v
    <3>1. u \in Seq(Charset) /\ w \in Seq(Charset) /\ v \in Seq(Charset)
      BY <1>1 DEF IsText
    <3>2. u \o (w \o v) = (u \o w) \o v
      BY <3>1, ConcatAssociative
    <3> QED BY <3>2
  <2>2. IsText(u \o w) /\ Len(u \o w) = Len(u) + Len(w)
    BY <1>1, SpelledLast
  <2>3. At((u \o w) \o v, Len(u \o w) + 1) = c
    BY <2>2, AtBehind
  <2> QED BY <2>1, <2>2, <2>3
<1>6. At(x1, 1) = w[1]
  <2>1. 1 \in 1 .. Len(w) /\ 1 \in 1 .. Len(x1)
    BY <1>1, <1>3
  <2> QED BY <1>3, <2>1, AtIs
<1>7. f[Entry(u)] = Join(line, f[k])
  <2>1. At(x1, 1) \notin Quantifiers /\ At(x1, 1) # "^"
    BY <1>1, <1>6
  <2> HIDE DEF x1
  <2> QED BY <1>2, <1>3, <2>1 DEF Continues
<1>8. ReadItem(s, k) = Read(i.means, next) /\ k \in 1 .. Len(s) /\ s[k] = w[1]
  <2>1. Spells(s, Len(u), i.text)
    BY <1>4 DEF w
  <2> HIDE DEF s
  <2> QED BY <1>1, <1>4, <2>1, ItemRead DEF w
<1> HIDE DEF s
<1> DEFINE r == Read(i.means, next)  a == Quantified(i.means, c)  b == Behind(s, r)
<1>9. r.set = i.means /\ r.next = next /\ next # 0
  <2>1. next # 0
    BY <1>1
  <2> QED BY <2>1, ReadHas
<1>10. f[k] = Join(<<a>>, f[b])
  <2>1. ~(s[k] = "$" /\ k = Len(s))
    BY <1>1, <1>8
  <2>2. f[k] = IF r.next = 0 THEN NotCompiled ELSE Join(<<Quantified(r.set, At(s, r.next))>>, f[Behind(s, r)])
    <3> HIDE DEF k, r
    <3>1. k \in 1 .. Len(s) /\ ReadItem(s, k) = r
      BY <1>8 DEF r
    <3> QED BY <1>2, <1>4, <2>1, <3>1, ItemThen
  <2> QED BY <1>5, <1>9, <2>2
<1>11. a \in Atoms /\ <<a>> \in Seq(Atoms)
  BY <1>1, QuantifiedIs
<1>12. b \in 1 .. Len(s) + 1 /\ Anchored(u) \in BOOLEAN
  <2>1. Reads(s, k, r) /\ r.next # 0
    BY <1>4, <1>8, <1>9, ItemReads
  <2> HIDE DEF k, r
  <2>2. b \in k + 1 .. Len(s) + 1
    BY <1>4, <1>8, <2>1, BehindIs
  <2>3. k \in Nat
    BY <1>1 DEF k
  <2>4. Len(s) \in Nat
    BY <1>4, TextIs
  <2> HIDE DEF b
  <2> QED BY <2>2, <2>3, <2>4 DEF Anchored
<1>13. IsResult(f[b])
  <2> HIDE DEF b
  <2> QED BY <1>2, <1>4, <1>12, RestTyped
<1>14. f[Entry(u)] = Join(line \o <<a>>, f[b])
  <2>1. line \in Seq(Atoms)
    BY DEF IsAtoms
  <2> DEFINE one == <<a>>
  <2>2. one \in Seq(Atoms) /\ f[k] = Join(one, f[b])
    BY <1>10, <1>11
  <2> HIDE DEF a, b, k, one
  <2>3. Join(line, Join(one, f[b])) = Join(line \o one, f[b])
    BY <1>13, <2>1, <2>2, JoinTwice
  <2>4. f[Entry(u)] = Join(line \o one, f[b])
    BY <1>7, <2>2, <2>3
  <2> QED BY <2>4 DEF one
<1>15. b = IF c \in Quantifiers THEN next + 1 ELSE next
  BY <1>5, <1>9 DEF Behind
<1>16. next + 1 = Len(u) + Len(w) + 2
  BY <1>1
<1> HIDE DEF a, b, c, r
<1> QED BY <1>14, <1>15, <1>16 DEF a, c, w

LEMMA AppendIs ==
  ASSUME NEW S, NEW q \in Seq(S), NEW e \in S
  PROVE  /\ Append(q, e) = q \o <<e>> /\ Append(q, e) \in Seq(S) /\ Append(q, e) # <<>>
         /\ Last(Append(q, e)) = e /\ Front(Append(q, e)) = q
<1>1. Append(q, e) = q \o <<e>> /\ Append(q, e) \in Seq(S) /\ Len(Append(q, e)) = Len(q) + 1 /\ Len(q) \in Nat
  OBVIOUS
<1>2. Append(q, e)[Len(q) + 1] = e
  OBVIOUS
<1>3. SubSeq(Append(q, e), 1, Len(q)) = q
  OBVIOUS
<1>4. Len(q) + 1 - 1 = Len(q) /\ Len(q) + 1 # 0
  BY <1>1
<1> QED BY <1>1, <1>2, <1>3, <1>4, EmptySeq DEF Last, Front

LEMMA QuantifiedAlone ==
  ASSUME NEW set, NEW c
  PROVE  c \notin Quantifiers => Quantified(set, c) = Atom(set, 1, 1)
BY DEF Quantified, Quantifiers

(* Behind an item, and behind a quantifier.                                *)
LEMMA ItemWritten ==
  ASSUME NEW u, IsText(u), NEW line, IsAtoms(line), Continues(u, line), NEW i \in Items
  PROVE  /\ IsText(u \o i.text) /\ u \o i.text # <<>>
         /\ IsAtoms(Append(line, Atom(i.means, 1, 1)))
         /\ Continues(u \o i.text, Append(line, Atom(i.means, 1, 1)))
         /\ Quantifies(u \o i.text, Append(line, Atom(i.means, 1, 1)))
<1> DEFINE w == i.text  x1 == u \o w  a == Atom(i.means, 1, 1)  more == Append(line, a)
<1>1. /\ IsItem(i) /\ IsText(w) /\ Len(w) \in Nat \ {0} /\ i.means \subseteq Charset
      /\ w[1] \notin Quantifiers \cup {"^", "$"} /\ Len(u) \in Nat
  BY ItemsAre, ItemTexts, TextIs
<1>2. a \in Atoms
  BY <1>1 DEF Atoms, Atom
<1>3. line \in Seq(Atoms)
  BY DEF IsAtoms
<1>4. IsText(x1) /\ Len(x1) = Len(u) + Len(w)
  <2> HIDE DEF w
  <2> QED BY <1>1, SpelledLast
<1>5. x1 # <<>>
  <2>1. Len(x1) # 0
    BY <1>1, <1>4
  <2> QED BY <2>1, EmptyText
<1>6. Anchored(x1) = Anchored(u) /\ Entry(x1) = Entry(u)
  <2>1. 1 \in 1 .. Len(w)
    BY <1>1
  <2>2. At(w, 1) # "^"
    BY <1>1, <2>1, AtIs
  <2> HIDE DEF w
  <2> QED BY <1>1, <2>2, AnchoredSame
<1> HIDE DEF a
<1>7. more = line \o <<a>> /\ more \in Seq(Atoms) /\ more # <<>> /\ Last(more) = a /\ Front(more) = line
  BY <1>2, <1>3, AppendIs
<1>8. ASSUME NEW v, IsText(v)
      PROVE  x1 \o v = u \o (w \o v)
  <2>1. u \in Seq(Charset) /\ w \in Seq(Charset) /\ v \in Seq(Charset)
    BY <1>1, <1>8 DEF IsText
  <2> HIDE DEF w
  <2>2. (u \o w) \o v = u \o (w \o v)
    BY <2>1, ConcatAssociative
  <2> QED BY <2>2
<1>9. Continues(x1, more)
  <2> SUFFICES ASSUME NEW v, IsText(v), At(v, 1) \notin Quantifiers,
                      NEW f, IsRest(f, x1 \o v, Anchored(x1), 1)
               PROVE  f[Entry(x1)] = Join(more, f[Len(x1) + 1])
    BY DEF Continues
  <2>1. IsRest(f, u \o (w \o v), Anchored(u), 1)
    BY <1>6, <1>8
  <2>2. f[Entry(u)] = Join(line \o <<Quantified(i.means, At(v, 1))>>, f[Len(u) + Len(w) + 1])
    BY <1>1, <2>1, ItemStep
  <2>3. Quantified(i.means, At(v, 1)) = a
    BY QuantifiedAlone DEF a
  <2> QED BY <1>4, <1>6, <1>7, <2>2, <2>3
<1>10. Quantifies(x1, more)
  <2> SUFFICES ASSUME NEW c \in Quantifiers, NEW v, IsText(v),
                      NEW f, IsRest(f, x1 \o (<<c>> \o v), Anchored(x1), 1)
               PROVE  f[Entry(x1)] = Join(Front(more) \o <<Quantified(Last(more).item, c)>>, f[Len(x1) + 2])
    BY DEF Quantifies
  <2> DEFINE x2 == <<c>> \o v
  <2>1. IsText(x2) /\ At(x2, 1) = c
    <3>1. c \in Charset
      BY CharsetHas DEF Quantifiers
    <3>2. IsText(<<c>>) /\ Len(<<c>>) = 1 /\ <<c>>[1] = c
      BY <3>1, OneChar
    <3> DEFINE k == <<c>>
    <3>3. IsText(k) /\ Len(k) = 1 /\ k[1] = c
      BY <3>2
    <3> HIDE DEF k
    <3>4. IsText(k \o v) /\ Len(k \o v) = 1 + Len(v) /\ \A j \in 1 .. 1 : (k \o v)[j] = k[j]
      BY <3>3, SpelledLast
    <3>5. Len(v) \in Nat
      BY TextIs
    <3>6. (k \o v)[1] = c /\ 1 \in 1 .. Len(k \o v)
      BY <3>3, <3>4, <3>5
    <3>7. At(k \o v, 1) = c
      BY <3>4, <3>6, AtIs
    <3> QED BY <3>4, <3>7 DEF k
  <2> HIDE DEF x2
  <2>2. IsRest(f, u \o (w \o x2), Anchored(u), 1)
    <3>1. IsRest(f, x1 \o x2, Anchored(u), 1)
      BY <1>6 DEF x2
    <3> QED BY <1>8, <2>1, <3>1
  <2>3. f[Entry(u)] = Join(line \o <<Quantified(i.means, c)>>, f[Len(u) + Len(w) + 2])
    BY <1>1, <2>1, <2>2, ItemStep
  <2>4. a.item = i.means
    BY DEF a, Atom
  <2> QED BY <1>4, <1>6, <1>7, <2>3, <2>4
<1> QED BY <1>4, <1>5, <1>7, <1>9, <1>10 DEF a, IsAtoms

LEMMA QuantifierWritten ==
  ASSUME NEW u, IsText(u), NEW line, IsAtoms(line), Quantifies(u, line), Unquantified(line), u # <<>>,
         NEW c \in Quantifiers
  PROVE  /\ IsText(Append(u, c)) /\ Append(u, c) # <<>>
         /\ IsAtoms(Append(Front(line), Quantified(Last(line).item, c)))
         /\ Continues(Append(u, c), Append(Front(line), Quantified(Last(line).item, c)))
         /\ Quantifies(Append(u, c), Append(Front(line), Quantified(Last(line).item, c)))
<1> DEFINE x1 == Append(u, c)  a == Quantified(Last(line).item, c)  front == Front(line)  more == Append(front, a)
           w == <<c>>
<1>1. c \in Charset
  BY CharsetHas DEF Quantifiers
<1>2. x1 = u \o w /\ IsText(x1) /\ x1 # <<>> /\ Len(x1) = Len(u) + 1 /\ Len(u) \in Nat /\ IsText(w) /\ Len(w) = 1
  <2>1. u \in Seq(Charset) /\ IsText(w) /\ Len(w) = 1
    BY <1>1, OneChar DEF IsText
  <2>2. x1 = u \o w /\ x1 \in Seq(Charset) /\ x1 # <<>>
    BY <1>1, <2>1, AppendIs
  <2>3. Len(u) \in Nat
    BY TextIs
  <2> HIDE DEF x1, w
  <2>4. Len(u \o w) = Len(u) + Len(w)
    BY <2>1, SpelledLast
  <2>5. Len(x1) = Len(u) + 1
    BY <2>1, <2>2, <2>4
  <2> QED BY <2>1, <2>2, <2>3, <2>5 DEF IsText
<1>3. front \in Seq(Atoms) /\ a \in Atoms
  <2>1. line \in Seq(Atoms) /\ Len(line) \in Nat \ {0}
    BY EmptySeq DEF IsAtoms, Unquantified
  <2>2. front \in Seq(Atoms)
    <3>1. \A k \in 1 .. Len(line) - 1 : line[k] \in Atoms
      BY <2>1, ElementOfSeq
    <3> QED BY <2>1, <3>1, SubSeqProperties DEF Front
  <2>3. Last(line) \in Atoms
    BY <2>1, ElementOfSeq DEF Last
  <2>4. Last(line).item \in SUBSET Charset
    BY <2>3 DEF Atoms
  <2> QED BY <2>2, <2>4, QuantifiedIs
<1> HIDE DEF a, front
<1>4. more = front \o <<a>> /\ more \in Seq(Atoms) /\ Last(more) = a
  BY <1>3, AppendIs
<1>5. Anchored(x1) = Anchored(u) /\ Entry(x1) = Entry(u)
  <2> HIDE DEF w, x1
  <2> QED BY <1>2, AnchoredSame
<1>6. Continues(x1, more)
  <2> SUFFICES ASSUME NEW v, IsText(v), NEW f, IsRest(f, x1 \o v, Anchored(x1), 1)
               PROVE  f[Entry(x1)] = Join(more, f[Len(x1) + 1])
    BY DEF Continues
  <2>1. x1 \o v = u \o (w \o v)
    <3>1. (u \o w) \o v = u \o (w \o v)
      BY <1>2, ConcatAssociative DEF IsText
    <3> HIDE DEF x1, w
    <3> QED BY <1>2, <3>1
  <2>2. IsRest(f, u \o (<<c>> \o v), Anchored(u), 1)
    BY <1>5, <2>1
  <2>3. f[Entry(u)] = Join(front \o <<a>>, f[Len(u) + 2])
    BY <2>2 DEF Quantifies, a, front
  <2>4. Len(x1) + 1 = Len(u) + 2
    <3> HIDE DEF x1
    <3> QED BY <1>2
  <2> QED BY <1>4, <1>5, <2>3, <2>4
<1>7. ~Unquantified(more)
  <2>1. ~(a.min = 1 /\ a.max = 1)
    <3>1. Many # 1
      BY CharsetHas
    <3>2. c = "*" \/ c = "+" \/ c = "?"
      BY DEF Quantifiers
    <3> QED BY <3>1, <3>2 DEF a, Quantified, Atom
  <2> QED BY <1>4, <2>1 DEF Unquantified
<1>8. Quantifies(x1, more)
  BY <1>7 DEF Quantifies
<1> QED BY <1>2, <1>4, <1>6, <1>8 DEF a, front, IsAtoms

(* What a finished pattern is parsed to.                                   *)
LEMMA SoFar ==
  ASSUME NEW u, IsText(u), NEW line, IsAtoms(line), Continues(u, line)
  PROVE  parse(u) = Compiled(Anchored(u), FALSE, line)
<1>1. u \o <<>> = u
  BY ConcatEmptySeq DEF IsText
<1>2. PICK f : IsRest(f, u, Anchored(u), 1) /\ parse(u) = f[Entry(u)]
  BY ParseIs
<1>3. f[Entry(u)] = Join(line, f[Len(u) + 1])
  <2>1. "" \notin Quantifiers
    BY DEF Quantifiers
  <2>2. IsRest(f, u \o <<>>, Anchored(u), 1)
    BY <1>1, <1>2
  <2>3. IsText(<<>>) /\ At(<<>>, 1) = ""
    BY EmptyText
  <2> QED BY <2>1, <2>2, <2>3 DEF Continues
<1>4. f[Len(u) + 1] = Compiled(Anchored(u), FALSE, <<>>)
  BY <1>2, RestEnds
<1>5. line \o <<>> = line
  BY ConcatEmptySeq DEF IsAtoms
<1>6. Join(line, Compiled(Anchored(u), FALSE, <<>>)) = Compiled(Anchored(u), FALSE, line \o <<>>)
  BY JoinIs
<1> QED BY <1>2, <1>3, <1>4, <1>5, <1>6

LEMMA EndWritten ==
  ASSUME NEW u, IsText(u), u # <<>>, NEW line, IsAtoms(line), Continues(u, line)
  PROVE  /\ IsText(Append(u, "$")) /\ Append(u, "$") # <<>>
         /\ parse(Append(u, "$")) = Compiled(Anchored(Append(u, "$")), TRUE, line)
<1> DEFINE x1 == Append(u, "$")  w == <<"$">>
<1>1. "$" \in Charset
  BY CharsetHas
<1>2. u \in Seq(Charset) /\ IsText(w) /\ Len(w) = 1 /\ w[1] = "$" /\ Len(u) \in Nat
  BY <1>1, OneChar, TextIs DEF IsText
<1>3. x1 = u \o w /\ x1 \in Seq(Charset) /\ x1 # <<>>
  BY <1>1, <1>2, AppendIs
<1> HIDE DEF x1, w
<1>4. IsText(x1) /\ Len(x1) = Len(u) + 1 /\ Spells(x1, Len(u), w)
  <2>1. IsText(u \o w) /\ Len(u \o w) = Len(u) + Len(w) /\ Spells(u \o w, Len(u), w)
    BY <1>2, SpelledLast
  <2> QED BY <1>2, <1>3, <2>1
<1>5. x1[Len(u) + 1] = "$"
  BY <1>2, <1>4 DEF Spells
<1>6. Anchored(x1) = Anchored(u) /\ Entry(x1) = Entry(u)
  BY <1>2, <1>3, AnchoredSame
<1>7. PICK f : IsRest(f, x1, Anchored(x1), 1) /\ parse(x1) = f[Entry(x1)]
  BY <1>4, ParseIs
<1>8. f[Entry(u)] = Join(line, f[Len(u) + 1])
  <2>1. 1 \in 1 .. Len(w)
    BY <1>2
  <2>2. At(w, 1) = "$"
    BY <1>2, <2>1, AtIs
  <2>3. "$" \notin Quantifiers
    BY DEF Quantifiers
  <2>4. IsRest(f, u \o w, Anchored(u), 1)
    BY <1>3, <1>6, <1>7
  <2> QED BY <1>2, <2>2, <2>3, <2>4 DEF Continues
<1>9. f[Len(u) + 1] = Compiled(Anchored(x1), TRUE, <<>>)
  <2>1. f[Len(x1)] = Compiled(Anchored(x1), TRUE, <<>>)
    BY <1>3, <1>4, <1>5, <1>7, RestEnds
  <2> QED BY <1>4, <2>1
<1>10. line \o <<>> = line
  BY ConcatEmptySeq DEF IsAtoms
<1>11. parse(x1) = Compiled(Anchored(x1), TRUE, line)
  <2>1. Join(line, Compiled(Anchored(x1), TRUE, <<>>)) = Compiled(Anchored(x1), TRUE, line \o <<>>)
    BY JoinIs
  <2> QED BY <1>6, <1>7, <1>8, <1>9, <1>10, <2>1
<1> QED BY <1>3, <1>4, <1>11 DEF x1

LEMMA ExcludedWritten ==
  ASSUME NEW u, IsText(u), u # <<>>, NEW line, IsAtoms(line), Continues(u, line), NEW x1 \in Excluded
  PROVE  IsText(u \o x1) /\ u \o x1 # <<>> /\ ~parse(u \o x1).ok
<1> DEFINE s == u \o x1  k == Len(u) + 1
<1>1. /\ IsText(x1) /\ Len(x1) \in Nat \ {0} /\ x1[1] \notin Quantifiers
      /\ ReadItem(s, k) = Refused /\ k \in 1 .. Len(s) /\ ~(s[k] = "$" /\ k = Len(s))
  BY ExcludedRead
<1>2. IsText(s) /\ Len(s) = Len(u) + Len(x1) /\ Len(u) \in Nat
  BY <1>1, SpelledLast, TextIs
<1>3. Anchored(s) = Anchored(u) /\ Entry(s) = Entry(u)
  BY <1>1, AnchoredSame
<1>4. PICK f : IsRest(f, s, Anchored(u), 1) /\ parse(s) = f[Entry(u)]
  BY <1>2, <1>3, ParseIs
<1>5. f[Entry(u)] = Join(line, f[k])
  <2>1. 1 \in 1 .. Len(x1)
    BY <1>1
  <2>2. At(x1, 1) \notin Quantifiers
    BY <1>1, <2>1, AtIs
  <2> QED BY <1>1, <1>4, <2>2 DEF Continues
<1>6. s # <<>>
  <2>1. Len(s) # 0
    BY <1>1, <1>2
  <2> QED BY <2>1, EmptyText
<1> HIDE DEF s, k
<1>7. f[k] = NotCompiled
  <2> DEFINE r == ReadItem(s, k)
  <2>1. f[k] = IF r.next = 0 THEN NotCompiled ELSE Join(<<Quantified(r.set, At(s, r.next))>>, f[Behind(s, r)])
    BY <1>1, <1>2, <1>4, ItemThen
  <2>2. r.next = 0
    BY <1>1, ReadHas
  <2> HIDE DEF r
  <2> QED BY <2>1, <2>2
<1>8. parse(s) = NotCompiled
  BY <1>4, <1>5, <1>7, JoinIs
<1> QED BY <1>2, <1>6, <1>8, JoinIs DEF s

(* While a pattern is written, what has been written so far has been read  *)
(* as meant, whatever follows; then its reading is settled.                *)
PatternInvariant ==
  /\ IsText(source) /\ IsAtoms(atoms) /\ ended \in BOOLEAN /\ excluded \in BOOLEAN
  /\ ~(ended /\ excluded) /\ (source = <<>> => atoms = <<>>)
  /\ ~ended /\ ~excluded => Continues(source, atoms) /\ Quantifies(source, atoms)
  /\ ended \/ excluded => ReadAsWritten

LEMMA PatternStart == PatternInit => PatternInvariant
<1> SUFFICES ASSUME PatternInit PROVE PatternInvariant
  OBVIOUS
<1>1. Continues(source, <<>>) /\ Quantifies(source, <<>>) /\ IsText(source) /\ IsAtoms(<<>>)
  BY PatternBegins DEF PatternInit
<1> QED BY <1>1 DEF PatternInit, PatternInvariant

LEMMA PatternStep == PatternInvariant /\ [PatternNext]_pattern => PatternInvariant'
<1> SUFFICES ASSUME PatternInvariant, [PatternNext]_pattern PROVE PatternInvariant'
  OBVIOUS
<1>1. /\ IsText(source) /\ IsAtoms(atoms) /\ ended \in BOOLEAN /\ excluded \in BOOLEAN
      /\ ~(ended /\ excluded) /\ (source = <<>> => atoms = <<>>)
      /\ ~ended /\ ~excluded => Continues(source, atoms) /\ Quantifies(source, atoms)
      /\ ended \/ excluded => ReadAsWritten
  BY DEF PatternInvariant
<1>2. ASSUME NEW i \in Items, WriteItem(i) PROVE PatternInvariant'
  <2>1. /\ ~ended /\ ~excluded /\ ended' = ended /\ excluded' = excluded
        /\ source' = source \o i.text /\ atoms' = Append(atoms, Atom(i.means, 1, 1))
    BY <1>2 DEF WriteItem
  <2>2. /\ IsText(source') /\ source' # <<>> /\ IsAtoms(atoms')
        /\ Continues(source', atoms') /\ Quantifies(source', atoms')
    BY <1>1, <2>1, ItemWritten
  <2> QED BY <2>1, <2>2 DEF PatternInvariant
<1>3. ASSUME NEW q \in {"*", "+", "?"}, WriteQuantifier(q) PROVE PatternInvariant'
  <2>1. /\ ~ended /\ ~excluded /\ ended' = ended /\ excluded' = excluded /\ Unquantified(atoms)
        /\ source' = Append(source, q) /\ q \in Quantifiers
    BY <1>3 DEF WriteQuantifier, Open, Unquantified, Quantifiers
  <2>2. atoms' = Append(Front(atoms), Quantified(Last(atoms).item, q))
    <3>1. q = "*" \/ q = "+" \/ q = "?"
      OBVIOUS
    <3> QED BY <1>3, <3>1 DEF WriteQuantifier, Quantified
  <2>3. source # <<>>
    BY <1>1, <2>1 DEF Unquantified
  <2>4. /\ IsText(source') /\ source' # <<>> /\ IsAtoms(atoms')
        /\ Continues(source', atoms') /\ Quantifies(source', atoms')
    BY <1>1, <2>1, <2>2, <2>3, QuantifierWritten
  <2> QED BY <2>1, <2>4 DEF PatternInvariant
<1>4. ASSUME End PROVE PatternInvariant'
  <2>1. /\ ~ended /\ ~excluded /\ ended' = TRUE /\ excluded' = FALSE
        /\ source # <<>> /\ source' = Append(source, "$") /\ atoms' = atoms
    BY <1>1, <1>4 DEF End
  <2>2. IsText(source') /\ source' # <<>> /\ parse(source') = Compiled(Anchored(source'), TRUE, atoms')
    BY <1>1, <2>1, EndWritten
  <2>3. ReadAsWritten'
    BY <2>1, <2>2 DEF ReadAsWritten, Anchored
  <2> QED BY <1>1, <2>1, <2>2, <2>3 DEF PatternInvariant
<1>5. ASSUME NEW x1 \in Excluded, WriteExcluded(x1) PROVE PatternInvariant'
  <2>1. /\ ~ended /\ ~excluded /\ ended' = FALSE /\ excluded' = TRUE
        /\ source # <<>> /\ source' = source \o x1 /\ atoms' = atoms
    BY <1>1, <1>5 DEF WriteExcluded
  <2>2. IsText(source') /\ source' # <<>> /\ ~parse(source').ok
    BY <1>1, <2>1, ExcludedWritten
  <2>3. ReadAsWritten'
    BY <2>1, <2>2 DEF ReadAsWritten
  <2> QED BY <1>1, <2>1, <2>2, <2>3 DEF PatternInvariant
<1>6. CASE UNCHANGED pattern
  BY <1>1, <1>6 DEF pattern, PatternInvariant, ReadAsWritten
<1> QED BY <1>2, <1>3, <1>4, <1>5, <1>6 DEF PatternNext

LEMMA ReadSoFar == PatternInvariant => ReadAsWritten
<1> SUFFICES ASSUME PatternInvariant PROVE ReadAsWritten
  OBVIOUS
<1>1. CASE ended \/ excluded
  BY <1>1 DEF PatternInvariant
<1>2. CASE ~ended /\ ~excluded
  <2>1. IsText(source) /\ IsAtoms(atoms) /\ Continues(source, atoms) /\ ended = FALSE
    BY <1>2 DEF PatternInvariant
  <2>2. parse(source) = Compiled(Anchored(source), FALSE, atoms)
    BY <2>1, SoFar
  <2> QED BY <1>2, <2>1, <2>2 DEF ReadAsWritten, Anchored
<1> QED BY <1>1, <1>2

(* Every pattern written in the documented subset is parsed to what its    *)
(* author means, of any length and with classes of any parts, and every    *)
(* one that leaves the subset is refused (parse and parse_class,           *)
(* pattern.rs).                                                            *)
THEOREM PatternsAreReadAsWritten == PatternSpec => []ReadAsWritten
<1>1. PatternSpec => []PatternInvariant
  BY PatternStart, PatternStep, PTL DEF PatternSpec
<1> QED BY <1>1, ReadSoFar, PTL

(* The backtracking matcher answers of every text of the constants whether *)
(* the pattern, as its author means it, occurs in it (is_match and         *)
(* match_from, pattern.rs).                                                *)
THEOREM SearchesAreExact == PatternSpec => []SearchIsExact
<1>1. PatternInvariant => SearchIsExact
  <2> SUFFICES ASSUME PatternInvariant, ~excluded, NEW t \in Texts
               PROVE  is_match(parse(source), t) <=> Found(atoms, At(source, 1) = "^", ended, t)
    BY DEF SearchIsExact
  <2>1. parse(source) = Compiled(At(source, 1) = "^", ended, atoms)
    BY ReadSoFar DEF ReadAsWritten
  <2>2. IsAtoms(atoms) /\ ended \in BOOLEAN /\ (At(source, 1) = "^") \in BOOLEAN
    BY DEF PatternInvariant
  <2>3. IsText(t)
    BY AuthorsAssumption DEF AuthorsAssumption, IsText
  <2> DEFINE start == At(source, 1) = "^"
  <2> HIDE DEF start
  <2>4. start \in BOOLEAN /\ parse(source) = Compiled(start, ended, atoms)
    BY <2>1, <2>2 DEF start
  <2>5. is_match(Compiled(start, ended, atoms), t) <=> Found(atoms, start, ended, t)
    BY <2>2, <2>3, <2>4, MatchIsFound
  <2> QED BY <2>4, <2>5 DEF start
<1>2. PatternSpec => []PatternInvariant
  BY PatternStart, PatternStep, PTL DEF PatternSpec
<1> QED BY <1>1, <1>2, PTL
=============================================================================
