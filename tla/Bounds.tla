-------------------------------- MODULE Bounds --------------------------------
(***************************************************************************)
(* min, max and abs of numbers, as the code uses them to keep a value      *)
(* within bounds.                                                          *)
(***************************************************************************)
EXTENDS Integers

AtMost(n, limit) == IF n > limit THEN limit ELSE n
AtLeast(n, limit) == IF n < limit THEN limit ELSE n
Abs(n) == IF n < 0 THEN -n ELSE n

=============================================================================
