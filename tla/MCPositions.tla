----------------------------- MODULE MCPositions -----------------------------
(* Positions on two markets, which are interchangeable, with a stop loss   *)
(* and take profit for some positions and a trailing stop for others.      *)
EXTENDS Positions, TLC

CONSTANTS m1, m2

Symmetry == Permutations(Market)

StopAndTake == [stop |-> 50, take |-> 50, trail |-> None]
Trailing == [stop |-> None, take |-> None, trail |-> [activation |-> 50, delta |-> 50]]
BarrierConfigs == {StopAndTake, Trailing}

=============================================================================
