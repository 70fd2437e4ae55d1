-------------------------- MODULE MCRiskController --------------------------
(* RiskController on two markets, which TLC may swap.                      *)
EXTENDS RiskController, TLC

CONSTANTS m1, m2, c1, c2

MCSymmetry == Permutations(Market)

=============================================================================
