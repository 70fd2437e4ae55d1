----------------------------- MODULE MCPriceFeed -----------------------------
(* The price feed with two markets.                                        *)
EXTENDS PriceFeed

CONSTANTS m1, m2

=============================================================================
