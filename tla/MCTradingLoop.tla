--------------------------- MODULE MCTradingLoop ---------------------------
(* TradingLoop on two markets.  No symmetry: the run checks liveness.      *)
EXTENDS TradingLoop

CONSTANTS m1, m2

=============================================================================
