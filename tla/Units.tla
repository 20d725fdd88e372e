------------------------------- MODULE Units -------------------------------
(***************************************************************************)
(* Confidence and severity are floats in [0.0, 1.0] in the code.  The      *)
(* modules count them in units, SCALE of them to 1.0, so that a comparison *)
(* with a threshold is the code's own comparison.                          *)
(***************************************************************************)
EXTENDS Integers

CONSTANT SCALE   \* units in 1.0

ASSUME ScaleAssumption == SCALE \in Nat \ {0}
=============================================================================
