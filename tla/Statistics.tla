------------------------------ MODULE Statistics ------------------------------
(***************************************************************************)
(* Callers of src/src/analysis/regression.rs, who observe two series or    *)
(* examine candidate features one by one, and what they are promised.      *)
(***************************************************************************)
EXTENDS Regression

CONSTANTS
  Observations,       \* values of a series
  MaxObservations, MaxSeries,  \* bounds on the lengths of x and of y alone
  MinSegments,        \* values of min_segment
  Outcomes,           \* outcomes of a candidate feature's test
  PValues, One,       \* p-values, as multiples of 1 / One
  MaxCandidates       \* bound on the candidate features

ASSUME StatisticsAssumption ==
  /\ Observations \subseteq Int /\ NotFinite \notin Int /\ MinSegments \subseteq Nat
  /\ {MaxObservations, MaxSeries, MaxCandidates} \subseteq Nat
  /\ One \in Nat /\ PValues \subseteq 0 .. One
  /\ \A c \in Outcomes : c.error = "" => c.sxy \in Int /\ c.square \in Nat \ {0}

VARIABLES
  x, y,        \* two series of observations
  outcomes, p  \* candidate features: the outcome and the p-value of each test

series == <<x, y>>
candidates == <<outcomes, p>>

SeriesInit == x = <<>> /\ y = <<>>
CandidatesInit == outcomes = <<>> /\ p = <<>>

Observe(a, b) ==
  /\ Len(x) < MaxObservations /\ Len(y) = Len(x)
  /\ x' = Append(x, a)
  /\ y' = Append(y, b)

(* The response alone, as a series to search or of another length than x. *)
ObserveResponse(b) ==
  /\ IF x = <<>> THEN Len(y) < MaxSeries ELSE Len(y) = Len(x) /\ b = NotFinite
  /\ y' = Append(y, b)
  /\ UNCHANGED x

Examine(c, value) ==
  /\ Len(outcomes) < MaxCandidates
  /\ IF c.error # "" THEN value = One ELSE Perfect(c) <=> value = 0
  /\ outcomes' = Append(outcomes, c)
  /\ p' = Append(p, value)

SeriesNext ==
  \/ \E a, b \in Observations : Observe(a, b)
  \/ \E b \in Observations \cup {NotFinite} : ObserveResponse(b)

CandidatesNext == \E c \in Outcomes : \E value \in PValues : Examine(c, value)

SeriesSpec == SeriesInit /\ [][SeriesNext]_series

CandidatesSpec == CandidatesInit /\ [][CandidatesNext]_candidates

---------------------------------------------------------------------------
(* Pearson's correlation is perfect for the straight lines only, and for   *)
(* all of them: "for linear strength" (regression.rs:6-9).                 *)
StraightLine(a, b) ==
  \A i, j, k \in DOMAIN a : (a[i] - a[j]) * (b[i] - b[k]) = (a[i] - a[k]) * (b[i] - b[j])
PerfectIsLinear ==
  LET c == pearson(x, y) IN c.error = "" => (Perfect(c) <=> StraightLine(x, y))

(* Spearman's, ties included, is perfect for the monotone relations only,  *)
(* whether or not they are straight lines, and never misses a straight     *)
(* line (regression.rs:6-9).                                               *)
Alike(a, b) == \A i, j \in DOMAIN a : a[i] < a[j] <=> b[i] < b[j]
PerfectIsMonotone ==
  LET negated == [i \in DOMAIN y |-> -y[i]]  c == spearman(x, y) IN
  /\ c.error = "" => (Perfect(c) <=> Alike(x, y) \/ Alike(x, negated))
  /\ Perfect(pearson(x, y)) => Perfect(c)

(* The coefficients minimize the squared residuals: these are orthogonal   *)
(* to both columns of the design.  A fit is refused as singular when the   *)
(* predictor varies by less than the tolerance, measured against the       *)
(* larger entry of the first column of the normal equations, and then      *)
(* only; so always when it never varies (lines 214-218, 346).              *)
Magnitude(n) == IF n < 0 THEN -n ELSE n
FitIsLeastSquares ==
  LET fit == ols([i \in DOMAIN x |-> <<x[i]>>], y)
      predicted(i) == Plus(Times(fit.coefficients[1], <<Unit, 1>>), Times(fit.coefficients[2], <<x[i], 1>>))
      residual == [i \in DOMAIN x |-> Minus(<<y[i], 1>>, predicted(i))]
      larger == Max({Unit * Len(x), Magnitude(Total(x))})
  IN /\ fit.error = "" => /\ Altogether(residual)[1] = 0
                          /\ Altogether([i \in DOMAIN x |-> Times(residual[i], <<x[i], 1>>)])[1] = 0
     /\ fit.error \in {"", "Singular"} =>
          (fit.error = "Singular" <=> Less(<<Unit * Spread(x, x), larger>>, Tolerance))

(* The split found is the one of least squares among those both of whose   *)
(* sides are long enough: "the maximum-likelihood split for a single level *)
(* shift" (lines 490-491).                                                 *)
SplitIsBest ==
  \A m \in MinSegments :
    LET n == Len(y)
        found == cusum_changepoint(y, m, TRUE)
        explained(s) ==   \* what the means of both sides explain
          LET a == Total(Prefix(y, s))  b == Total(y) - a
          IN <<a * a * (n - s) + b * b * s, s * (n - s)>>
    IN found.index # 0 =>
         /\ found.index >= m /\ n - found.index >= m
         /\ \A s \in Splits(y, m) : ~Less(explained(found.index), explained(s))

(* Discoveries are the step-up rejections at the rate asked for, strongest *)
(* first, among the candidates that could be tested; every other candidate *)
(* is reported as skipped "rather than dropped" (lines 612-614).           *)
StepUp(tested, rate) ==
  LET AtMost(t) == {i \in tested : p[i] <= t}
      thresholds == {t \in {p[i] : i \in tested} : t * Cardinality(tested) <= rate * Cardinality(AtMost(t))}
  IN UNION {AtMost(t) : t \in thresholds}
DiscoveriesAreStepUp ==
  \A rate \in PValues :
    LET d == discover(outcomes, p, rate, One)
        found == {d.findings[k] : k \in DOMAIN d.findings}
        untestable == {i \in DOMAIN outcomes : outcomes[i].error # ""}
    IN /\ d.skipped = untestable
       /\ found = StepUp(DOMAIN outcomes \ untestable, rate)
       /\ Cardinality(found) = Len(d.findings)
       /\ \A k, l \in DOMAIN d.findings :
            k < l => ~Stronger(outcomes[d.findings[l]], outcomes[d.findings[k]])
===========================================================================
