----------------------------- MODULE RingCreate -----------------------------
(***************************************************************************)
(* __libuc_ring_create (src/ring/ring.c:17-87): one step per system call,  *)
(* each of which may fail, and what is released on each early return.      *)
(* io_uring_setup's answer is modelled from how the code reads it.         *)
(***************************************************************************)
EXTENDS Widths

CONSTANTS
  SqeSize, CqeSize, WordSize

ASSUME SizeAssumption == {SqeSize, CqeSize, WordSize} \subseteq Nat \ {0}

VARIABLES
  step,        \* the next system call, then "created" or "failed"
  params,      \* struct io_uring_params as the kernel filled it in
  descriptors, \* open descriptors
  maps,        \* [area, length] of every mapping
  kept,        \* history: mappings whose munmap failed; its result is ignored
  ring         \* the created ring, or Null

ringVars == <<step, params, descriptors, maps, kept, ring>>

Word == 2^Bits

\* ckd_mul and ckd_add on size_t fail.
Overflows(n) == n >= 2^(2 * Bits)

\* What setup answers for the entries asked for: both sizes powers of two, the
\* shared words ahead of the CQE array, which NO_SQARRAY leaves last.  A kernel
\* without single_mmap, or with another mask, is one the code refuses.
Answers(entries) ==
  {[sq_entries |-> 2^k, cq_entries |-> 2^(k + 1),
    head |-> 0, tail |-> WordSize, ring_mask |-> 2 * WordSize,
    cqes |-> 4 * WordSize, single_mmap |-> single, mask |-> mask]
   : k \in {j \in 0 .. Bits - 2 : entries <= 2^j /\ (j = 0 \/ entries > 2^(j - 1))},
     single \in BOOLEAN, mask \in 0 .. Word \div 2 - 1}

\* The rings there can be; Null is none of them.
Rings ==
  [head : Nat, tail : Nat, cqes : Nat, sq_entries : Nat, cq_entries : Nat, cq_mask : Nat,
   ring_mapping_length : Nat, sqes_mapping_length : Nat]

ASSUME NullAssumption == Null \notin Rings

RingInit ==
  /\ step = "setup" /\ params = Null
  /\ descriptors = {} /\ maps = {} /\ kept = {} /\ ring = Null

Fails == step' = "failed" /\ UNCHANGED ring

Setup(entries) ==
  /\ step = "setup"
  /\ \/ Fails /\ UNCHANGED <<params, descriptors>>
     \/ /\ params' \in Answers(entries)
        /\ descriptors' = descriptors \cup {"ring"}
        /\ step' = "sizes" /\ UNCHANGED ring
  /\ UNCHANGED <<maps, kept>>

CqesLength == params.cq_entries * CqeSize

\* Mutation: the entries are counted and not what lies ahead of them.
BugRingLength == CqesLength

\* The CQE array is last, so its end is the mapping's length.
RingLength == params.cqes + CqesLength

SqesLength == params.sq_entries * SqeSize

\* The descriptor is not closed on any of the early returns.
Sizes ==
  /\ step = "sizes"
  /\ IF \/ ~params.single_mmap
        \/ Overflows(CqesLength) \/ Overflows(RingLength) \/ Overflows(SqesLength)
     THEN Fails
     ELSE step' = "map_ring" /\ UNCHANGED ring
  /\ UNCHANGED <<params, descriptors, maps, kept>>

RingMap == [area |-> "ring", length |-> RingLength]
SqesMap == [area |-> "sqes", length |-> SqesLength]

MapRing ==
  /\ step = "map_ring"
  /\ \/ Fails /\ UNCHANGED maps
     \/ /\ maps' = maps \cup {RingMap}
        /\ step' = "map_sqes" /\ UNCHANGED ring
  /\ UNCHANGED <<params, descriptors, kept>>

\* munmap is called once for each of the mappings; one that fails goes unnoticed.
Unmap(mappings) ==
  \E failed \in SUBSET mappings :
    maps' = maps \ (mappings \ failed) /\ kept' = kept \cup failed

\* Mutation: the first mapping stays when the second cannot be made.
BugMapSqes ==
  /\ step = "map_sqes"
  /\ \/ Fails /\ UNCHANGED <<maps, kept>>
     \/ /\ maps' = maps \cup {SqesMap}
        /\ step' = "mask" /\ UNCHANGED <<ring, kept>>
  /\ UNCHANGED <<params, descriptors>>

MapSqes ==
  /\ step = "map_sqes"
  /\ \/ Fails /\ Unmap({RingMap})
     \/ /\ maps' = maps \cup {SqesMap}
        /\ step' = "mask" /\ UNCHANGED <<ring, kept>>
  /\ UNCHANGED <<params, descriptors>>

Created ==
  [head |-> params.head, tail |-> params.tail, cqes |-> params.cqes,
   sq_entries |-> params.sq_entries, cq_entries |-> params.cq_entries,
   cq_mask |-> params.mask,
   ring_mapping_length |-> RingLength, sqes_mapping_length |-> SqesLength]

\* The mask is read from the mapping and compared before it is used.
CheckMask ==
  /\ step = "mask"
  /\ IF params.mask # params.cq_entries - 1
     THEN Fails /\ Unmap({RingMap, SqesMap})
     ELSE step' = "created" /\ ring' = Created /\ UNCHANGED <<maps, kept>>
  /\ UNCHANGED <<params, descriptors>>

RingStep(entries) ==
  Setup(entries) \/ Sizes \/ MapRing \/ MapSqes \/ CheckMask

-----------------------------------------------------------------------------
\* The entry reap() reads for a head index, head & cq_mask, and where it ends in
\* the mapping.  A created ring's mask is one less than a power of two, and &
\* with such a mask is the remainder.
Index(head) == head % (ring.cq_mask + 1)
EntryEnd(i) == ring.cqes + (i + 1) * CqeSize

\* A created ring is safe to use through every index it can meet: the shared
\* words and the entry behind every value of the wrapping head lie inside the
\* ring mapping, entries that can be unreaped together are different entries,
\* across the wrap too, and every SQE slot lies in the other (ring.c:66-85,
\* 94, 142).
RingUsable ==
  ring # Null =>
    /\ \A at \in {ring.head, ring.tail} : at + WordSize <= ring.cqes
    /\ \A head \in 0 .. Word - 1 : EntryEnd(Index(head)) <= ring.ring_mapping_length
    /\ \A head \in 0 .. Word - 1 : \A j, k \in 0 .. ring.cq_entries - 1 :
         j # k => Index((head + j) % Word) # Index((head + k) % Word)
    /\ ring.sq_entries * SqeSize <= ring.sqes_mapping_length
    /\ maps = {[area |-> "ring", length |-> ring.ring_mapping_length],
               [area |-> "sqes", length |-> ring.sqes_mapping_length]}

\* A creation that fails at any of its steps leaves no mapping behind but one
\* that munmap was called for and did not release (ring.c:58-61, 66-70), and
\* only a created ring is handed out.
FailureUnmaps ==
  /\ step = "failed" => maps = kept /\ ring = Null
  /\ ring # Null => step = "created"
=============================================================================
