----------------------------- MODULE Regression -----------------------------
(***************************************************************************)
(* The decisions of src/src/analysis/regression.rs over exact arithmetic:  *)
(* observations are integers, in a unit of which Unit make the number one, *)
(* quotients are pairs <<numerator, denominator>>, square roots are        *)
(* compared through their squares.  The t distribution (lines 680-780) and *)
(* the rounding of f64 are left out.                                       *)
(***************************************************************************)
EXTENDS Integers, Sequences, FiniteSets, SequencesExt

CONSTANTS
  NotFinite,   \* stands for NaN and the infinities
  Unit,        \* the number one, in the unit of the observations
  Tolerance    \* the 1e-12 of line 346, in the square of that unit: a quotient

ASSUME RegressionAssumption ==
  /\ Unit \in Nat \ {0}
  /\ Tolerance \in (Nat \ {0}) \X (Nat \ {0})
  /\ Tolerance[1] <= Unit * Unit * Tolerance[2]   \* it is less than one

check_finite(s) == \A i \in DOMAIN s : s[i] # NotFinite
Total(s) ==
  LET total[i \in 0 .. Len(s)] == IF i = 0 THEN 0 ELSE total[i - 1] + s[i]
  IN total[Len(s)]
Products(x, y) == [i \in DOMAIN x |-> x[i] * y[i]]
(* n times the sum of (x - mean x)(y - mean y). *)
Raw(x, y) == Len(x) * Total(Products(x, y))     \* mutant: the means are not taken off
Spread(x, y) == Len(x) * Total(Products(x, y)) - Total(x) * Total(y)

---------------------------------------------------------------------------
(* Correlation: an error, or sxy and sxx * syy of r = sxy / sqrt(...).     *)
Error(e) == [error |-> e, sxy |-> 0, square |-> 1]
pearson(x, y) ==
  CASE Len(x) # Len(y) -> Error("LengthMismatch")
    [] Len(x) = Len(y) /\ Len(x) < 3 -> Error("TooFewObservations")
    [] OTHER ->
         CASE ~check_finite(x) \/ ~check_finite(y) -> Error("NotFinite")
           [] check_finite(x) /\ check_finite(y) /\ (Spread(x, x) = 0 \/ Spread(y, y) = 0) ->
                Error("ZeroVariance")
           [] OTHER -> [error |-> "", sxy |-> Spread(x, y), square |-> Spread(x, x) * Spread(y, y)]
Perfect(c) == c.error = "" /\ c.sxy * c.sxy = c.square

(* The elements of S in order: each comes after those that precede it.     *)
Arranged(S, precedes) ==
  [k \in 1 .. Cardinality(S) |->
     CHOOSE i \in S : Cardinality({j \in S : <<j, i>> \in precedes}) = k - 1]
ByPlace(S) == {e \in S \X S : e[1] < e[2]}

(* Twice the average rank: sort, then give a run of ties its middle. *)
ByValue(s) ==
  {e \in (DOMAIN s) \X (DOMAIN s) : s[e[1]] < s[e[2]] \/ (s[e[1]] = s[e[2]] /\ e[1] < e[2])}
Order(s) == Arranged(DOMAIN s, ByValue(s))
Positions(s, v) == {k \in DOMAIN s : s[Order(s)[k]] = v}
FirstOfTies(s, v) == 2 * Min(Positions(s, v))      \* mutant: no averaging
MiddleOfTies(s, v) == Min(Positions(s, v)) + Max(Positions(s, v))
ranks(s) == [i \in DOMAIN s |-> MiddleOfTies(s, s[i])]

spearman(x, y) ==
  CASE Len(x) # Len(y) -> Error("LengthMismatch")
    [] Len(x) = Len(y) /\ ~(check_finite(x) /\ check_finite(y)) -> Error("NotFinite")
    [] OTHER -> pearson(ranks(x), ranks(y))

---------------------------------------------------------------------------
(* Quotients, in lowest terms. *)
Divisor[b \in Nat] == [a \in Nat |-> IF b = 0 THEN a ELSE Divisor[a % b][b]]
Q(n, d) == LET g == Divisor[IF n < 0 THEN -n ELSE n][IF d < 0 THEN -d ELSE d]
               sign == IF d < 0 THEN -1 ELSE 1
           IN <<sign * (n \div g), sign * (d \div g)>>
Less(a, b) == a[1] * b[2] < b[1] * a[2]
Plus(a, b) == Q(a[1] * b[2] + b[1] * a[2], a[2] * b[2])
Minus(a, b) == Q(a[1] * b[2] - b[1] * a[2], a[2] * b[2])
Times(a, b) == Q(a[1] * b[1], a[2] * b[2])
Over(a, b) == Q(a[1] * b[2], a[2] * b[1])
Altogether(q) ==
  LET sum[i \in 0 .. Len(q)] == IF i = 0 THEN <<0, 1>> ELSE Plus(sum[i - 1], q[i])
  IN sum[Len(q)]

(* One column of the Gauss-Jordan elimination of [a | inv], with the row   *)
(* of the largest pivot swapped up; a matrix is a sequence of rows.        *)
Size(v) == IF v[1] < 0 THEN Q(-v[1], v[2]) ELSE v
Pivot(a, column) ==
  CHOOSE r \in column .. Len(a) :
    \A o \in column .. Len(a) :
      ~Less(Size(a[r][column]), Size(a[o][column])) /\ (Less(Size(a[o][column]), Size(a[r][column])) \/ o <= r)
ForwardOnly(r, column) == r < column      \* mutant: the rows above are left alone
LeftAlone(r, column) == FALSE
Eliminated(a, column, pivot) ==
  LET swapped == [a EXCEPT ![column] = a[pivot], ![pivot] = a[column]]
      row == [k \in DOMAIN a[1] |-> Over(swapped[column][k], swapped[column][column])]
      reduced(r) == [k \in DOMAIN row |-> Minus(swapped[r][k], Times(swapped[r][column], row[k]))]
  IN [r \in DOMAIN a |-> CASE r = column -> row
                           [] LeftAlone(r, column) -> swapped[r]
                           [] OTHER -> reduced(r)]
(* A pivot as small as the tolerance ends the elimination: it measures the *)
(* design in its own units, not how far its columns are from collinear.    *)
Singular == <<>>
Augmented(matrix) ==
  [r \in DOMAIN matrix |-> matrix[r] \o [k \in DOMAIN matrix |-> <<IF k = r THEN 1 ELSE 0, 1>>]]
Reduced(a, c) ==
  IF a = Singular \/ Less(Size(a[Pivot(a, c)][c]), Tolerance) THEN Singular
  ELSE Eliminated(a, c, Pivot(a, c))
invert(matrix) ==
  LET n == Len(matrix)
      column[c \in 0 .. n] == IF c = 0 THEN Augmented(matrix) ELSE Reduced(column[c - 1], c)
  IN IF column[n] = Singular THEN Singular
     ELSE [r \in 1 .. n |-> SubSeq(column[n][r], n + 1, 2 * n)]

(* The fit of y ~ 1 + rows: its coefficients, or an error. *)
NoFit(e) == [error |-> e, coefficients |-> <<>>]
ols(rows, y) ==
  LET parameters == (IF rows = <<>> THEN 0 ELSE Len(rows[1])) + 1
      design == [i \in DOMAIN rows |-> <<Unit>> \o rows[i]]
      column(a) == [i \in DOMAIN rows |-> design[i][a]]
      xtx == [a \in 1 .. parameters |-> [b \in 1 .. parameters |-> <<Total(Products(column(a), column(b))), 1>>]]
      xty == [a \in 1 .. parameters |-> Total(Products(column(a), y))]
      product(row) == Altogether([b \in 1 .. parameters |-> Times(row[b], <<xty[b], 1>>)])
      bad == {i \in DOMAIN rows : Len(rows[i]) # parameters - 1 \/ ~check_finite(rows[i])}
  IN IF Len(rows) # Len(y) THEN NoFit("LengthMismatch")
     ELSE IF ~check_finite(y) THEN NoFit("NotFinite")
     ELSE IF bad # {} THEN
       NoFit(IF Len(rows[Min(bad)]) # parameters - 1 THEN "LengthMismatch" ELSE "NotFinite")
     ELSE IF Len(rows) <= parameters THEN NoFit("TooFewObservations")
     ELSE IF invert(xtx) = Singular THEN NoFit("Singular")
     ELSE [error |-> "", coefficients |-> [a \in 1 .. parameters |-> product(invert(xtx)[a])]]

---------------------------------------------------------------------------
(* The square of the CUSUM score of a split after s observations, up to a  *)
(* factor that all splits share.                                           *)
Prefix(series, s) == SubSeq(series, 1, s)
Cumulative(series, s) == Len(series) * Total(Prefix(series, s)) - s * Total(series)
Unnormalized(series, s) == <<Cumulative(series, s) * Cumulative(series, s), 1>>   \* mutant
Score(series, s) == <<Cumulative(series, s) * Cumulative(series, s), s * (Len(series) - s)>>

Segment(min_segment) == Max({min_segment, 2})
Splits(series, min_segment) == Segment(min_segment) .. Len(series) - Segment(min_segment)
Best(series, min_segment) ==       \* the first of the best
  CHOOSE s \in Splits(series, min_segment) :
    \A o \in Splits(series, min_segment) :
      /\ ~Less(Score(series, s), Score(series, o))
      /\ o < s => Less(Score(series, o), Score(series, s))

(* The answer without its means.  The Welch test cannot judge two constant *)
(* halves: their levels decide; else its p-value, which this model leaves  *)
(* open, is compared with alpha.                                           *)
Constant(s) == Spread(s, s) = 0
Split(s) == [error |-> "", index |-> s]
NoSplit == Split(0)
cusum_changepoint(series, min_segment, below_alpha) ==
  CASE Len(series) < 2 * Segment(min_segment) -> [error |-> "TooFewObservations", index |-> 0]
    [] Len(series) >= 2 * Segment(min_segment) /\ ~check_finite(series) -> [error |-> "NotFinite", index |-> 0]
    [] OTHER ->
         LET s == Best(series, min_segment)
             after == SubSeq(series, s + 1, Len(series))
         IN IF Constant(Prefix(series, s)) /\ Constant(after)
            THEN IF Prefix(series, s)[1] # after[1] THEN Split(s) ELSE NoSplit
            ELSE IF below_alpha THEN Split(s) ELSE NoSplit

---------------------------------------------------------------------------
(* The adjusted p-values, as quotients: from the largest p-value down, the *)
(* least candidate so far.                                                 *)
ByRankFromZero(p, m, rank) == <<p * m, rank + 1>>  \* mutant: off by one
Candidate(p, m, rank) == <<p * m, rank>>
Lesser(a, b) == IF Less(b, a) THEN b ELSE a
benjamini_hochberg(p, one) ==
  LET m == Len(p)
      running[rank \in 1 .. m + 1] ==
        IF rank > m THEN <<one, 1>>
        ELSE Lesser(running[rank + 1], Candidate(p[Order(p)[rank]], m, rank))
  IN [i \in 1 .. m |-> running[CHOOSE rank \in 1 .. m : Order(p)[rank] = i]]

(* discover, from the outcome of each candidate's test: the indices of the *)
(* findings, strongest first, and of the candidates that were skipped.     *)
Stronger(a, b) == Less(<<b.sxy * b.sxy, b.square>>, <<a.sxy * a.sxy, a.square>>)
ByStrength(outcomes, S) ==
  {e \in S \X S : LET a == outcomes[e[1]]  b == outcomes[e[2]]
                  IN Stronger(a, b) \/ (~Stronger(b, a) /\ e[1] < e[2])}
discover(outcomes, p, false_discovery_rate, one) ==
  LET skipped == {i \in DOMAIN outcomes : outcomes[i].error # ""}
      testable == DOMAIN outcomes \ skipped
      names == Arranged(testable, ByPlace(testable))
      q_values == benjamini_hochberg([k \in DOMAIN names |-> p[names[k]]], one)
      significant == {names[k] : k \in {l \in DOMAIN names : ~Less(<<false_discovery_rate, 1>>, q_values[l])}}
  IN [findings |-> Arranged(significant, ByStrength(outcomes, significant)), skipped |-> skipped]
===========================================================================
