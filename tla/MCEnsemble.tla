----------------------------- MODULE MCEnsemble -----------------------------
(* Three templates over a provider without a key and two with one, neither *)
(* of which has room for all the estimates.                                *)
EXTENDS Ensemble, SequencesExt

CONSTANTS t1, t2, t3, keyless, first, second

ThreeProviders == <<first, keyless, second>>
EveryMinute == first :> 1 @@ second :> 1 @@ keyless :> 1
EveryDay == first :> 2 @@ second :> 1 @@ keyless :> 1

\* An answer of a half, which is worth no confidence, and one in JSON with one
\* of the sections of the chain of thought.
SomeReplies ==
    {[prob |-> 5000, conf |-> NoAnswer, sections |-> {"for", "against"}],
     [prob |-> 1000, conf |-> "high", sections |-> {"for"}]}

\* The value at a rank is the one that sorting puts there, and the sum is the
\* one that adding one value after the other gives.
ASSUME ByDefinition ==
    \A n \in 1 .. 4 : \A f \in [1 .. n -> {0, 1, 99, 120}] :
        /\ \A k \in 0 .. n - 1 : Nth(f, k) = SortSeq(f, <)[k + 1]
        /\ SumOf(f) = FoldSeq(+, 0, f)

=============================================================================
