--------------------------- MODULE MCContextFetcher ---------------------------
(* Two callers and two markets, both services and the feed.                *)
EXTENDS ContextFetcher, TLC

CONSTANTS c1, c2, m1, m2

Symmetry == Permutations(Caller) \cup Permutations(Market)

FirstBackoff == [s \in Service |-> 1]
LongestBackoff == [s \in Service |-> IF s = "news" THEN 4 ELSE 2]

=============================================================================
