---------------------------- MODULE ThreadLocal -----------------------------
(***************************************************************************)
(* Thread-local blocks (src/thread_local/thread_local.c and the placement  *)
(* of src/arch/*/thread_local_arch.h): the layout decoded once from the    *)
(* program headers, and blocks created and destroyed for the fibers.       *)
(*                                                                         *)
(* Sizes and addresses are words that wrap at Word, with the checked sums  *)
(* of the code.  The bytes of a block are abstracted to the intervals that *)
(* are written.                                                            *)
(***************************************************************************)
EXTENDS Integers, FiniteSets

CONSTANTS
  Bits,        \* width of size_t and uintptr_t
  Page,        \* what mmap aligns to
  PtrAlign,    \* alignof(void *), also of the TCB and of a program header
  TcbSize,     \* thread_local_tcb_size
  PhdrSize,    \* sizeof(Elf64_Phdr)
  Images,      \* executables: what the auxiliary vector and headers say
  Owners,      \* who holds a block
  Null

\* One more than SIZE_MAX.
Word == 2^Bits

ASSUME WordAssumption ==
  /\ {Bits, Page, PtrAlign, TcbSize, PhdrSize} \subseteq Nat \ {0}
  /\ Word % Page = 0 /\ Page % PtrAlign = 0 /\ TcbSize % PtrAlign = 0

\* What exponentiation is, on the powers that fit a word.
ASSUME PowerAssumption ==
  \A k \in 0 .. Bits : 2^k \in Nat \ {0} /\ (k > 0 => 2^k = 2 * 2^(k - 1))

\* Sizes in program headers are unsigned.
ASSUME ImagesAssumption ==
  \A e \in Images : \A i \in DOMAIN e.headers :
    LET s == e.headers[i] IN {s.vaddr, s.filesz, s.memsz, s.align} \subseteq Nat

VARIABLES
  arch,        \* "x86_64" or "aarch64"
  exe,         \* the running executable
  layout,      \* the cached layout, or Null
  block,       \* per owner, its __libuc_thread_local_block, or Null
  mappings     \* [start, length] of every anonymous mapping made here

vars == <<arch, exe, layout, block, mappings>>

Interval(from, length) == from .. from + length - 1
Bytes(m) == Interval(m.start, m.length)

PowerOfTwo(n) == \E k \in 0 .. Bits - 1 : n = 2^k

ASSUME PtrAlignAssumption == PowerOfTwo(PtrAlign)

\* x & ~(a - 1) for a power of two a.
AlignDown(x, a) == x - (x % a)

\* ckd_add and ckd_mul fail.
Overflows(n) == n >= Word

Init ==
  /\ arch \in {"x86_64", "aarch64"} /\ exe \in Images
  /\ layout = Null
  /\ block = [o \in Owners |-> Null]
  /\ mappings = {}

-----------------------------------------------------------------------------
(* __libuc_thread_local_layout.                                            *)

TableOk ==
  LET v == exe.auxv
  IN /\ v.found /\ v.address # 0 /\ v.address % PtrAlign = 0
     /\ v.entry_size = PhdrSize /\ v.count # 0
     /\ ~Overflows(v.count * PhdrSize)
     /\ ~Overflows(v.address + v.count * PhdrSize)

TlsSegments == {i \in DOMAIN exe.headers : exe.headers[i].type = "PT_TLS"}

Alignment(s) == IF s.align = 0 THEN 1 ELSE s.align

SegmentOk(s) ==
  /\ s.filesz <= s.memsz
  /\ ~Overflows(s.vaddr + s.memsz)
  /\ PowerOfTwo(Alignment(s))

LayoutOf(s) ==
  [image |-> IF s.filesz = 0 THEN Null ELSE s.vaddr,
   image_size |-> s.filesz, block_size |-> s.memsz, alignment |-> Alignment(s)]

\* Absence of PT_TLS is valid, a second one is not; a failure is not cached.
Layout ==
  IF layout # Null THEN layout
  ELSE IF ~TableOk \/ Cardinality(TlsSegments) > 1 THEN Null
  ELSE IF TlsSegments = {}
  THEN [image |-> Null, image_size |-> 0, block_size |-> 0, alignment |-> 1]
  ELSE LET s == exe.headers[CHOOSE i \in TlsSegments : TRUE]
       IN IF SegmentOk(s) THEN LayoutOf(s) ELSE Null

-----------------------------------------------------------------------------
(* thread_local_place of the two architectures; Null when a sum overflows. *)

BugPlaceX86(size, align) ==
  LET distance == AlignDown(size + (align - 1), align)
  IN IF Overflows(size + (align - 1)) \/ Overflows(distance + TcbSize)
     THEN Null
     ELSE [length |-> distance + TcbSize, block_offset |-> 0, tp_offset |-> distance]

\* Variant 2: the block ends at the thread pointer, the TCB is above it.
PlaceX86(size, align) ==
  LET distance == AlignDown(size + (align - 1), align)
      tp == AlignDown(distance + (PtrAlign - 1), PtrAlign)
  IN IF \/ Overflows(size + (align - 1))
        \/ Overflows(distance + (PtrAlign - 1))
        \/ Overflows(tp + TcbSize)
     THEN Null
     ELSE [length |-> tp + TcbSize, block_offset |-> tp - distance, tp_offset |-> tp]

\* Variant 1: the thread pointer is at the TCB, the block above it.
PlaceAarch64(size, align) ==
  LET at == AlignDown(TcbSize + (align - 1), align)
  IN IF Overflows(TcbSize + (align - 1)) \/ Overflows(at + size)
     THEN Null
     ELSE [length |-> at + size, block_offset |-> at, tp_offset |-> 0]

Place(size, align) ==
  IF arch = "x86_64" THEN PlaceX86(size, align) ELSE PlaceAarch64(size, align)

-----------------------------------------------------------------------------
(* Blocks.                                                                 *)

\* struct __libuc_thread_local_block.
ThreadLocalBlock == [start : Nat, length : Nat, block : Nat, thread_pointer : Nat]

ASSUME NoBlockAssumption == Null \notin ThreadLocalBlock

\* The base is a boundary of the block's alignment and of the TCB's.
BaseAlignment(l) == IF l.alignment < PtrAlign THEN PtrAlign ELSE l.alignment

BugMappingLength(l) == Place(l.block_size, l.alignment).length

\* Room to raise the start of the mapping to the base's alignment.
MappingLength(l) ==
  Place(l.block_size, l.alignment).length + (BaseAlignment(l) - 1)

\* mmap: a page-aligned range that is free, never at page zero.
Free(start, length) ==
  /\ start % Page = 0 /\ start >= Page /\ start + length <= Word
  /\ \A m \in mappings : Bytes(m) \cap Interval(start, length) = {}

\* Why creation can fail before it maps anything.
NoPlace(l) ==
  \/ l = Null
  \/ Place(l.block_size, l.alignment) = Null
  \/ Overflows(MappingLength(l))

BlockAt(l, start, length) ==
  LET p == Place(l.block_size, l.alignment)
      base == AlignDown(start + (BaseAlignment(l) - 1), BaseAlignment(l))
  IN [start |-> start, length |-> length,
      block |-> base + p.block_offset, thread_pointer |-> base + p.tp_offset]

\* It fails when there is no layout, no placement or no memory: the layout stays
\* cached and nothing else changes, as its caller sees (FiberMemory!SpawnUndone).
\* The last check of the code, that raising the base does not wrap
\* (thread_local.c:134-137), passes for every range that mmap can return, since
\* what is added is less than the length: RaiseFits, in FiberMemoryProofs.
Create(o) ==
  /\ block[o] = Null
  /\ layout' = Layout
  /\ ~NoPlace(Layout)
  /\ \E start \in {Page * k : k \in 1 .. Word \div Page} :
       LET length == MappingLength(Layout)
       IN /\ Free(start, length)
          /\ ~Overflows(start + (BaseAlignment(Layout) - 1))
          /\ mappings' = mappings \cup {[start |-> start, length |-> length]}
          /\ block' = [block EXCEPT ![o] = BlockAt(Layout, start, length)]
  /\ UNCHANGED <<arch, exe>>

Destroy(o) ==
  /\ block[o] # Null
  /\ mappings' = mappings \ {[start |-> block[o].start, length |-> block[o].length]}
  /\ block' = [block EXCEPT ![o] = Null]
  /\ UNCHANGED <<arch, exe, layout>>

-----------------------------------------------------------------------------
(* Properties.                                                             *)

Live == {o \in Owners : block[o] # Null}
Tcb(o) == Interval(block[o].thread_pointer, TcbSize)
Data(o) == Interval(block[o].block, layout.block_size)

\* Everything that is written for a block lies inside the block's own mapping:
\* the TCB, the zeroed data and the image copied over it; the TCB does not
\* overlap the data, and no owner's bytes are another's, nor does any sum wrap
\* (thread_local.c:139-151).
BlocksContained ==
  /\ layout # Null => PowerOfTwo(layout.alignment)
  /\ \A o \in Live :
       /\ Tcb(o) \cup Data(o) \subseteq Bytes(block[o])
       /\ Bytes(block[o]) \subseteq Page .. Word - 1
       /\ Tcb(o) \cap Data(o) = {}
       /\ Interval(block[o].block, layout.image_size) \subseteq Data(o)
  /\ \A o, q \in Live : o # q => (Tcb(o) \cup Data(o)) \cap (Tcb(q) \cup Data(q)) = {}

LeastMultiple(n, a) ==
  CHOOSE m \in n .. n + a : m % a = 0 /\ \A k \in n .. m - 1 : k % a # 0

\* Compiled thread-local accesses find the block: it is as far from the thread
\* pointer as the ABI of the architecture says, on the segment's alignment, and
\* the thread pointer is aligned for the TCB it points to.
BlockWhereCodeLooks ==
  \A o \in Live :
    /\ block[o].block % layout.alignment = 0
    /\ block[o].thread_pointer % PtrAlign = 0
    /\ arch = "x86_64" =>
         block[o].thread_pointer - block[o].block
           = LeastMultiple(layout.block_size, layout.alignment)
    /\ arch = "aarch64" =>
         block[o].block - block[o].thread_pointer
           = LeastMultiple(TcbSize, layout.alignment)
=============================================================================
