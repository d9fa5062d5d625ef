----------------------------- MODULE MCIoCalls ------------------------------
(* Instances of the calls for TLC: an int of three bits, so that counts at *)
(* and past INT_MAX, 2^32 and SSIZE_MAX are small numbers.                 *)
EXTENDS IoCalls, TLC

CONSTANTS f1, f2

SomeInts == {-2, 1}

Symmetry == Permutations(Fibers)
=============================================================================
