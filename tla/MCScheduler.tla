---------------------------- MODULE MCScheduler -----------------------------
(* Instances of the reactor for TLC.                                       *)
EXTENDS SchedulerThreads, TLC

CONSTANTS root, a, b, c

\* The spawned fibers are interchangeable; the root is not.
Symmetry == Permutations(Fibers \ {Root})
=============================================================================
