--------------------------- MODULE PairedStatistics ---------------------------
(***************************************************************************)
(* The statistics of a paired study (validation/statistics.py and          *)
(* study/coordinator.py) over exact numbers: p-values, alpha and quantiles *)
(* are integers over a common denominator, ranks are doubled, and squared  *)
(* correlations are compared as fractions.  Each is checked against its    *)
(* textbook definition on every sample of a small set.                     *)
(***************************************************************************)
EXTENDS Integers, FiniteSets, Sequences, FiniteSetsExt, Folds, Combinatorics

CONSTANTS Denominator,   \* of p-values and alpha
          Hypotheses,    \* how many there are in a family
          Values,        \* what an outcome or a parameter may be
          Seeds          \* how many pairs a comparison has

VARIABLE sample

Total(f) == MapThenFoldSet(+, 0, LAMBDA i : f[i], LAMBDA S : CHOOSE i \in S : TRUE, DOMAIN f)
Indices(f) == DOMAIN f

-----------------------------------------------------------------------------
(* Holm's step-down correction of a family of p-values.                      *)

\* the position of hypothesis i by (p-value, id), counted from 0
HolmRank(p, i) == Cardinality({j \in Indices(p) : p[j] < p[i] \/ (p[j] = p[i] /\ j < i)})
\* mutant: every hypothesis is corrected for the whole family
WholeFamily(p, i) == Cardinality(Indices(p))
Remaining(p, i) == Cardinality(Indices(p)) - HolmRank(p, i)
UpTo(p, i) == {j \in Indices(p) : HolmRank(p, j) <= HolmRank(p, i)}

AdjustedPValue(p, i) == Max({Min({Denominator, Remaining(p, j) * p[j]}) : j \in UpTo(p, i)})
Rejected(p, alpha, i) == \A j \in UpTo(p, i) : Remaining(p, j) * p[j] <= alpha

\* The closed test: i is rejected when Bonferroni rejects every set it belongs to.
RejectedByClosedTest(p, alpha, i) ==
    \A S \in SUBSET Indices(p) :
        i \in S => Cardinality(S) * Min({p[j] : j \in S}) <= alpha

-----------------------------------------------------------------------------
(* The exact sign test of matched differences, over 2^(pairs that differ).   *)

Positives(d) == Cardinality({i \in Indices(d) : d[i] > 0})
NonZero(d) == Cardinality({i \in Indices(d) : d[i] # 0})

TailCount(n, from, to) ==
    MapThenFoldSet(+, 0, LAMBDA k : choose(n, k), LAMBDA S : CHOOSE k \in S : TRUE, from..to)

ExactMatchedSignPValue(d, direction) ==
    LET n == NonZero(d)
        upper == TailCount(n, Positives(d), n)
        lower == TailCount(n, 0, Positives(d))
    IN  CASE n = 0 -> 1
          [] n # 0 /\ direction = "INCREASE" -> upper
          [] n # 0 /\ direction = "DECREASE" -> lower
          [] n # 0 /\ direction = "TWO_SIDED" -> Min({2 ^ n, 2 * Min({lower, upper})})

\* The share of the sign patterns of the pairs that differ that are at least as
\* extreme as the one observed.
AtLeastAsExtreme(d, direction) ==
    LET n == NonZero(d)
        Off(k) == IF 2 * k >= n THEN 2 * k - n ELSE n - 2 * k
        Extreme(k) == CASE direction = "INCREASE" -> k >= Positives(d)
                        [] direction = "DECREASE" -> k <= Positives(d)
                        [] direction = "TWO_SIDED" -> Off(k) >= Off(Positives(d))
    IN  Cardinality({S \in SUBSET (1..n) : Extreme(Cardinality(S))})

-----------------------------------------------------------------------------
(* Rank correlation and what a study says of its parameters.                 *)

\* twice the average rank: the first and the last place of the run of ties
AverageRanks(x) ==
    LET Place(i) == Cardinality({j \in Indices(x) : x[j] < x[i] \/ (x[j] = x[i] /\ j <= i)})
        Ties(i) == {Place(j) : j \in {k \in Indices(x) : x[k] = x[i]}}
    IN  [i \in Indices(x) |-> Min(Ties(i)) + Max(Ties(i))]

\* the ranks are centred at n + 1; the correlation is Covariance(x, y) over the root
\* of Spread(x) * Spread(y)
Centred(x) ==
    LET ranks == AverageRanks(x) IN [i \in Indices(x) |-> ranks[i] - (Cardinality(Indices(x)) + 1)]
Covariance(x, y) ==
    LET cx == Centred(x) cy == Centred(y) IN Total([i \in Indices(x) |-> cx[i] * cy[i]])
Spread(x) == Covariance(x, x)

\* the squared correlation as a fraction, zero when either side is constant
SquaredCorrelation(x, y) ==
    LET spread == Spread(x) * Spread(y)
        covariance == Covariance(x, y)
    IN  IF spread = 0 THEN <<0, 1>> ELSE <<covariance * covariance, spread>>
AtMost(a, b) == a[1] * b[2] <= b[1] * a[2]

\* The parameters a and b of a design, in the order of importance: the larger squared
\* correlation first, a before b on a tie.
DominantParameter(s) ==
    IF AtMost(SquaredCorrelation(s.b, s.y), SquaredCorrelation(s.a, s.y)) THEN "a" ELSE "b"

Interpretation(s) ==
    IF SquaredCorrelation(s.a, s.y)[1] = 0 /\ SquaredCorrelation(s.b, s.y)[1] = 0
    THEN "INCONCLUSIVE_NO_RANK_SIGNAL"
    ELSE IF DominantParameter(s) = s.evidenceBound THEN "MODEL_INTERNAL"
    ELSE "EXPLORATORY_UNSUPPORTED_PARAMETER"

-----------------------------------------------------------------------------
(* Percentiles of a sorted sample, in fortieths (2.5 % is 1/40).             *)

Sorted(x) == [k \in Indices(x) |->
                  x[CHOOSE i \in Indices(x) :
                       Cardinality({j \in Indices(x) :
                           x[j] < x[i] \/ (x[j] = x[i] /\ j <= i)}) = k]]

\* forty times the value at position (n - 1) * fortieths / 40
Quantile(x, fortieths) ==
    LET position == (Cardinality(Indices(x)) - 1) * fortieths
        low == position \div 40
        fraction == position % 40
        s == Sorted(x)
    IN  IF fraction = 0 THEN 40 * s[low + 1]
        ELSE s[low + 1] * (40 - fraction) + s[low + 2] * fraction

\* A null control passes when the mean is within the tolerance and the bootstrap
\* interval holds zero; the resampled means are any between the extremes.
NegativeControlPassed(d, tolerance, lower, upper) ==
    LET n == Cardinality(Indices(d))
    IN  /\ Total(d) <= n * tolerance /\ -Total(d) <= n * tolerance
        /\ lower <= 0 /\ 0 <= upper

-----------------------------------------------------------------------------
Pairs == 1..Seeds
Directions == {"INCREASE", "DECREASE", "TWO_SIDED"}
Families == [kind: {"family"}, p: [1..Hypotheses -> 0..Denominator], alpha: 1..(Denominator - 1)]
Comparisons == [kind: {"comparison"}, d: [Pairs -> Values]]
\* two parameters, of which the first is bound to evidence; the cells in the order of
\* their outcomes
Designs == [kind: {"design"}, a: [1..3 -> Values], b: [1..3 -> Values],
            y: {y \in [1..3 -> Values] : y[1] <= y[2] /\ y[2] <= y[3]}, evidenceBound: {"a"}]
NoSample == [kind |-> "none"]
Samples == Families \cup Comparisons \cup Designs

StatisticsTypeOK == sample \in Samples \cup {NoSample}

\* Holm's step-down rejects exactly the hypotheses the closed Bonferroni test rejects,
\* and its adjusted p-values say the same as its rejections at every alpha
\* (holmBonferroni: the running maximum, and the loop that never reopens).
HolmIsClosedTest ==
    sample.kind = "family" =>
        LET p == sample.p
        IN  \A i \in Indices(p) :
                /\ Rejected(p, sample.alpha, i) <=> RejectedByClosedTest(p, sample.alpha, i)
                /\ AdjustedPValue(p, i) <= sample.alpha <=> Rejected(p, sample.alpha, i)

\* The sign test counts exactly the sign patterns at least as extreme as the observed
\* one, ignores pairs that do not differ, and answers the swapped comparison in the
\* opposite direction alike; the 2.5 % and 97.5 % percentiles are mirror images, in
\* order and within the sample; a control whose effect has one sign in every seed
\* cannot pass (exactMatchedSignPValue, _quantile, evaluateNegativeControl).
ComparisonsAreExact ==
    sample.kind = "comparison" =>
        LET d == sample.d
            mirrored == [i \in Indices(d) |-> -d[i]]
            low == Min({d[i] : i \in Indices(d)})
            high == Max({d[i] : i \in Indices(d)})
        IN  /\ \A r \in Directions :
                   ExactMatchedSignPValue(d, r) = AtLeastAsExtreme(d, r)
            /\ ExactMatchedSignPValue(d, "INCREASE")
                   = ExactMatchedSignPValue(mirrored, "DECREASE")
            /\ Quantile(d, 1) = -Quantile(mirrored, 39)
            /\ 40 * low <= Quantile(d, 1) /\ Quantile(d, 1) <= Quantile(d, 39)
            /\ Quantile(d, 39) <= 40 * high
            /\ (low > 0 \/ high < 0) =>
                   \A lower \in low..high, upper \in low..high :
                       ~NegativeControlPassed(d, high - low, lower, upper)

\* Average ranks depend on the order of the values alone, a parameter that orders the
\* outcomes as they are is never outranked, a constant one is never named, and a
\* finding is called model-internal only for a parameter bound to evidence
\* (rankCorrelationSensitivity, _averageRanks, _analyzeSensitivity).
RanksAreHonest ==
    sample.kind = "design" =>
        LET s == sample
            Flat(x) == \A i, j \in DOMAIN x : x[i] = x[j]
            SameOrder(x, y) == \A i, j \in DOMAIN x : x[i] < x[j] <=> y[i] < y[j]
            named == IF DominantParameter(s) = "a" THEN s.a ELSE s.b
            other == IF DominantParameter(s) = "a" THEN s.b ELSE s.a
        IN  /\ Total(AverageRanks(s.y)) = Cardinality(DOMAIN s.y) * (Cardinality(DOMAIN s.y) + 1)
            /\ SameOrder(s.a, s.b) <=> AverageRanks(s.a) = AverageRanks(s.b)
            /\ Covariance(s.a, s.y) * Covariance(s.a, s.y) <= Spread(s.a) * Spread(s.y)
            /\ SameOrder(other, s.y) /\ ~Flat(s.y) => SquaredCorrelation(named, s.y)[1]
                                                         = SquaredCorrelation(named, s.y)[2]
            /\ Interpretation(s) # "INCONCLUSIVE_NO_RANK_SIGNAL" => ~Flat(named) /\ ~Flat(s.y)
            /\ Interpretation(s) = "MODEL_INTERNAL" => DominantParameter(s) = s.evidenceBound

StatisticsAgree == HolmIsClosedTest /\ ComparisonsAreExact /\ RanksAreHonest
=============================================================================
