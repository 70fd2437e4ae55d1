-------------------------- MODULE MCPaperExecutor --------------------------
(* PaperExecutor on two positions, which TLC may swap.                     *)
EXTENDS PaperExecutor, TLC

CONSTANTS k1, k2

MCSymmetry == Permutations(Key)

=============================================================================
