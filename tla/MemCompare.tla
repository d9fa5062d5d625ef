----------------------------- MODULE MemCompare -----------------------------
(***************************************************************************)
(* memcmp of src/string/memcmp.c: whole blocks are skipped while they are  *)
(* equal, then scalars are compared as numbers, then single bytes.  The    *)
(* pointers l and r advance together, so one offset stands for both.  It   *)
(* shares nothing with MemMove's functions but the bytes: a behaviour is   *)
(* either one comparison or any sequence of their calls.                   *)
(***************************************************************************)
EXTENDS MemMove, FiniteSetsExt

CONSTANTS
  Block,       \* sizeof(block): 64 in the code
  Scalar,      \* sizeof(scalar): 8
  Longest      \* bound on n

ASSUME ObjectAssumption ==
  /\ {Block, Scalar, UcharRange} \subseteq Nat \ {0} /\ {Size, Longest} \subseteq Nat
  /\ Block % Scalar = 0

VARIABLES
  lhs, rhs,    \* the two objects, as long as the caller's n
  at,          \* l - lhs, and r - rhs
  left,        \* n, the bytes left
  phase,       \* "block", "scalar", "byte" or "done"; "idle" with no memcmp
  result

compareVars == <<lhs, rhs, at, left, phase, result>>

StringsInit ==
  /\ MoveInit /\ at = 0 /\ result = 0
  /\ \/ phase = "idle" /\ lhs = <<>> /\ rhs = <<>> /\ left = 0
     \/ /\ phase = "block" /\ mem = [a \in Addresses |-> 0]
        /\ \E length \in 0 .. Longest :
             /\ lhs \in [0 .. length - 1 -> Byte] /\ rhs \in [0 .. length - 1 -> Byte]
             /\ left = length

\* The numbers the leading digits make, the most significant digit first.
Leading(digit) ==
  LET v[k \in 0 .. Scalar] == IF k = 0 THEN 0 ELSE v[k - 1] * UcharRange + digit[k]
  IN v

Number(digit) == Leading(digit)[Scalar]

\* The number a little-endian load of Scalar bytes gives.
Load(object) == Number([k \in 1 .. Scalar |-> object[at + Scalar - k]])

\* x, and x shifted right by one byte, two bytes, ...
Shifted(x) ==
  LET v[k \in 0 .. Scalar] == IF k = 0 THEN x ELSE v[k - 1] \div UcharRange
  IN v

\* Mutation: the bytes stay in memory order.
BugBswap(x) == x

\* __builtin_bswapg: the bytes of x in the opposite order.
Bswap(x) == Number([k \in 1 .. Scalar |-> Shifted(x)[k - 1] % UcharRange])

BlocksEqual == \A k \in 0 .. Block - 1 : lhs[at + k] = rhs[at + k]

Advance(width) == at' = at + width /\ left' = left - width

Decide(less) == result' = (IF less THEN -1 ELSE 1) /\ phase' = "done"

SkipBlock ==
  /\ phase = "block" /\ left >= Block /\ BlocksEqual
  /\ Advance(Block)
  /\ UNCHANGED <<lhs, rhs, phase, result>>

\* Too little is left, or the break: the differing block is not consumed.
LeaveBlocks ==
  /\ phase = "block" /\ phase' = "scalar"
  /\ left >= Block => ~BlocksEqual
  /\ UNCHANGED <<lhs, rhs, at, left, result>>

CompareScalar ==
  /\ phase = "scalar" /\ left >= Scalar
  /\ IF Load(lhs) # Load(rhs)
     THEN Decide(Bswap(Load(lhs)) < Bswap(Load(rhs))) /\ UNCHANGED <<at, left>>
     ELSE Advance(Scalar) /\ UNCHANGED <<phase, result>>
  /\ UNCHANGED <<lhs, rhs>>

LeaveScalars ==
  /\ phase = "scalar" /\ left < Scalar /\ phase' = "byte"
  /\ UNCHANGED <<lhs, rhs, at, left, result>>

\* l[i] and r[i]: the index advances as the offset does before.
CompareByte ==
  /\ phase = "byte" /\ left > 0
  /\ IF lhs[at] # rhs[at]
     THEN Decide(lhs[at] < rhs[at]) /\ UNCHANGED <<at, left>>
     ELSE Advance(1) /\ UNCHANGED <<phase, result>>
  /\ UNCHANGED <<lhs, rhs>>

AllEqual ==
  /\ phase = "byte" /\ left = 0
  /\ phase' = "done" /\ result' = 0
  /\ UNCHANGED <<lhs, rhs, at, left>>

CompareNext ==
  /\ SkipBlock \/ LeaveBlocks \/ CompareScalar \/ LeaveScalars \/ CompareByte \/ AllEqual
  /\ UNCHANGED moveVars

MoveNext == phase = "idle" /\ MoveStep /\ UNCHANGED compareVars

StringsNext == CompareNext \/ MoveNext

StringsSpec == StringsInit /\ [][StringsNext]_<<moveVars, compareVars>>

-----------------------------------------------------------------------------
Differ == {k \in DOMAIN lhs : lhs[k] # rhs[k]}

\* The order the standard asks for: that of the first bytes that differ, as
\* unsigned chars.
Ordered ==
  IF Differ = {} THEN 0
  ELSE IF lhs[Min(Differ)] < rhs[Min(Differ)] THEN -1 ELSE 1

\* Whichever of the three loops meets the first difference, and wherever in its
\* block or scalar it is, the answer is the sign of that difference
\* (memcmp.c:14-47).
FirstDifferenceDecides == phase = "done" => result = Ordered
=============================================================================
