--------------------------- MODULE MCFiberMemory ----------------------------
(* The instance of the fibers' memory for TLC: words of seven bits,        *)
(* sixteen-byte pages and two-byte pointers, and executables with zero,    *)
(* one and two PT_TLS segments.                                            *)
EXTENDS FiberMemory, TLC

CONSTANTS a, b

Other == [type |-> "PT_LOAD", vaddr |-> 8, filesz |-> 8, memsz |-> 8, align |-> 8]

\* A segment at 120 runs out of the address space for the longer sizes.
Segments ==
  {s \in [type : {"PT_TLS"}, vaddr : {8, 120}, filesz : {0, 5},
          memsz : {0, 1, 5, 8, 119}, align : {0, 1, 3, 4, 16, 32, 64}] :
     s.vaddr = 120 => s.align = 4}

Auxv == [found |-> TRUE, address |-> 16, entry_size |-> PhdrSize, count |-> 2]

\* Auxiliary vectors that give no usable header table.
BadAuxv ==
  {[Auxv EXCEPT !.found = FALSE], [Auxv EXCEPT !.address = 0],
   [Auxv EXCEPT !.address = 17], [Auxv EXCEPT !.address = 118],
   [Auxv EXCEPT !.entry_size = PhdrSize + 2], [Auxv EXCEPT !.count = 0],
   [Auxv EXCEPT !.count = 22]}

Executables ==
  LET one == CHOOSE s \in Segments : s.memsz = 8 /\ s.align = 16
  IN {[auxv |-> Auxv, headers |-> <<Other, s>>] : s \in Segments}
     \cup {[auxv |-> Auxv, headers |-> h] : h \in {<<Other, Other>>, <<one, one>>}}
     \cup {[auxv |-> v, headers |-> <<Other, one>>] : v \in BadAuxv}

Symmetry == Permutations(Owners)
=============================================================================
