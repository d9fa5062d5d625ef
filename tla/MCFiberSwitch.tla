--------------------------- MODULE MCFiberSwitch ----------------------------
(* The instance of the control transfers for TLC.                          *)
EXTENDS FiberSwitch, TLC

CONSTANTS a, b, c, x, y

Symmetry == Permutations(Fibers) \cup Permutations(Bare)
=============================================================================
