------------------------------- MODULE Medians -------------------------------
(***************************************************************************)
(* The average and the median of the values of a function, as the ensemble *)
(* (strategy/ensemble.py) and the weather scorer                           *)
(* (strategy/weather_scorer.py) compute them.                              *)
(***************************************************************************)
EXTENDS Integers, FiniteSetsExt, Functions, Totals

Average(f) == SumOf(f) \div Cardinality(DOMAIN f)

\* sorted(values)[k], by its rank: at most k of the values are smaller, and more
\* than k are not larger.
Nth(f, k) ==
    CHOOSE v \in Range(f) :
        /\ Cardinality({x \in DOMAIN f : f[x] < v}) <= k
        /\ Cardinality({x \in DOMAIN f : f[x] <= v}) > k

\* Faulty: the element after the middle.
Median_Off(f) ==
    LET n == Cardinality(DOMAIN f) IN Nth(f, Min({n - 1, n \div 2 + 1}))

Median(f) ==
    LET n == Cardinality(DOMAIN f)
    IN  IF n % 2 = 1
        THEN Nth(f, n \div 2)
        ELSE (Nth(f, n \div 2 - 1) + Nth(f, n \div 2)) \div 2

=============================================================================
