---------------------------- MODULE MCUcScheduler ----------------------------
(* Instances of the draft scheduler for TLC.                               *)
EXTENDS UcScheduler, TLC

\* Fibers, and the records of their operations, are interchangeable.
Symmetry == Permutations(Fibers) \cup Permutations(Ops)
=============================================================================
