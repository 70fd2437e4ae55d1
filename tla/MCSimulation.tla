---------------------------- MODULE MCSimulation ----------------------------
(* Simulation on two markets.                                              *)
EXTENDS Simulation

CONSTANTS m1, m2

=============================================================================
