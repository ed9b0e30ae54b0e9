---------------------------- MODULE OrderStatistics ----------------------------
(* What numpy reads off a sorted sample: its order statistics, and the         *)
(* quantiles between two of them.  A sample is a function to integers.          *)
EXTENDS Integers, FiniteSets, Functions

Smaller(a, b) == IF a <= b THEN a ELSE b

\* Where the sample lies below v, and where it does not lie above it.
Below(sample, v) == {s \in DOMAIN sample : sample[s] < v}
UpTo(sample, v) == {s \in DOMAIN sample : sample[s] <= v}

\* np.sort(sample)[k - 1]
KthSmallest(sample, k) ==
    CHOOSE v \in Range(sample) : /\ Cardinality(Below(sample, v)) < k
                                 /\ k <= Cardinality(UpTo(sample, v))

\* np.quantile(sample, num / den), linear between two order statistics: den times it.
Interpolated(sample, num, den) ==
    LET n == Cardinality(DOMAIN sample)
        h == (n - 1) * num
        low == KthSmallest(sample, h \div den + 1)
        high == KthSmallest(sample, Smaller(h \div den + 2, n))
    IN  den * low + (h % den) * (high - low)
=============================================================================
