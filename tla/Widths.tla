------------------------------- MODULE Widths -------------------------------
(* The widths of the machine's integers, and what is none of them.         *)
EXTENDS Integers

CONSTANTS
  Bits,        \* width of int and uint32_t; size_t is twice as wide
  Null

ASSUME BitsAssumption == Bits \in Nat \ {0} /\ Null \notin Int

\* Arithmetic of the powers of two within a size_t.
ASSUME PowerAssumption ==
  /\ 2^0 = 1 /\ 2^1 = 2
  /\ \A k \in 0 .. 2 * Bits : 2^k \in Nat \ {0}
  /\ \A j, k \in 0 .. 2 * Bits : j + k <= 2 * Bits => 2^(j + k) = 2^j * 2^k
=============================================================================
