------------------------------- MODULE Totals -------------------------------
(***************************************************************************)
(* The sum of the values of a function into the naturals.  It is defined   *)
(* by counting instead of by recursion: f[x] units are laid down for every *)
(* x, and the total is the number of units.  A cardinality can be reasoned *)
(* about with the theorems on finite sets, which a recursive sum cannot.   *)
(***************************************************************************)
EXTENDS Naturals, FiniteSets

\* The units of f: f[x] distinct pairs for each x.
Units(f) == UNION {{x} \X (1 .. f[x]) : x \in DOMAIN f}

\* sum(f.values())
Total(f) == Cardinality(Units(f))

\* The same with fewer units to lay down: hundreds and what is left are counted
\* apart.
SumOf(f) ==
    100 * Total([x \in DOMAIN f |-> f[x] \div 100]) + Total([x \in DOMAIN f |-> f[x] % 100])

\* The sum of the values of f at the keys of S.
TotalOver(f, S) == Cardinality(UNION {{x} \X (1 .. f[x]) : x \in S})

=============================================================================
