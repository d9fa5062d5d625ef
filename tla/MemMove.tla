------------------------------ MODULE MemMove -------------------------------
(***************************************************************************)
(* The byte loops of src/string: memmove.c, memcpy.c and memset.c, over    *)
(* one memory, a step for each byte stored.  Calls follow one another and  *)
(* name any ranges inside the memory; memcpy's ranges are disjoint, as its *)
(* restrict parameters demand.  MemCompare adds memcmp.                    *)
(***************************************************************************)
EXTENDS Integers

CONSTANTS
  Size,        \* bytes of memory
  UcharRange   \* values of an unsigned char: 256 in the code

VARIABLES
  mem,
  fn,          \* the running function, or "none"
  d, s, n, c,  \* its arguments
  i,           \* its loop index
  before       \* the memory when it was called

moveVars == <<mem, fn, d, s, n, c, i, before>>

Addresses == 0 .. Size - 1
Byte == 0 .. UcharRange - 1

\* What a caller passes as memset's int: every byte, and one out of range on
\* either side.
Values == -1 .. UcharRange

MoveInit ==
  /\ mem \in [Addresses -> Byte] /\ before = mem
  /\ fn = "none" /\ d = 0 /\ s = 0 /\ n = 0 /\ c = 0 /\ i = 0

\* The conversion of memset's value to unsigned char.
UnsignedChar(v) == v % UcharRange

Arguments(to, from, length, value) ==
  /\ fn = "none" /\ before' = mem
  /\ d' = to /\ s' = from /\ n' = length /\ c' = value
  /\ UNCHANGED mem

\* Mutation: the copy always ascends.
BugAscending == TRUE

\* The destination is below the source.
Ascends == d < s

Memmove(to, from, length) ==
  /\ Arguments(to, from, length, 0)
  /\ to + length <= Size /\ from + length <= Size
  /\ fn' = "memmove"
  /\ i' = IF Ascends' THEN 0 ELSE length

Memcpy(to, from, length) ==
  /\ Arguments(to, from, length, 0)
  /\ to + length <= Size /\ from + length <= Size
  /\ to + length <= from \/ from + length <= to
  /\ fn' = "memcpy" /\ i' = 0

Memset(to, value, length) ==
  /\ Arguments(to, 0, length, value)
  /\ to + length <= Size
  /\ fn' = "memset" /\ i' = 0

Up == fn \in {"memcpy", "memset"} \/ (fn = "memmove" /\ Ascends)

StoreUp ==
  /\ fn # "none" /\ Up /\ i < n
  /\ mem' = [mem EXCEPT ![d + i] =
               IF fn = "memset" THEN UnsignedChar(c) ELSE mem[s + i]]
  /\ i' = i + 1
  /\ UNCHANGED <<fn, d, s, n, c, before>>

StoreDown ==
  /\ fn = "memmove" /\ ~Ascends /\ i > 0
  /\ mem' = [mem EXCEPT ![d + i - 1] = mem[s + i - 1]]
  /\ i' = i - 1
  /\ UNCHANGED <<fn, d, s, n, c, before>>

\* The loop's condition fails.
Done == fn # "none" /\ IF Up THEN i >= n ELSE i = 0

MoveReturns ==
  /\ Done /\ fn' = "none"
  /\ UNCHANGED <<mem, d, s, n, c, i, before>>

MoveStep ==
  \/ \E to \in Addresses, length \in 0 .. Size :
       \/ \E from \in Addresses : Memmove(to, from, length) \/ Memcpy(to, from, length)
       \/ \E value \in Values : Memset(to, value, length)
  \/ StoreUp
  \/ StoreDown
  \/ MoveReturns

-----------------------------------------------------------------------------
\* What the standard promises of the byte at offset k of the destination.
Promised(k) == IF fn = "memset" THEN UnsignedChar(c) ELSE before[s + k]

\* A function returns with every byte of the destination as promised, computed
\* from the memory as it was at the call however the ranges overlap, and every
\* other byte untouched (memmove.c:8-16, memcpy.c:6-8, memset.c:5-7).
MovedWhole ==
  Done =>
    mem = [a \in Addresses |-> IF a \in d .. d + n - 1 THEN Promised(a - d) ELSE before[a]]
=============================================================================
