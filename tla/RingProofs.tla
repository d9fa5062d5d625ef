----------------------------- MODULE RingProofs -----------------------------
(***************************************************************************)
(* Proofs about UcRing for every number of operations, of slots and of     *)
(* completion entries: no operation is lost or doubled, and the slots and  *)
(* wrapping indices implement the queues of IoRing.                        *)
(***************************************************************************)
EXTENDS UcRing, DataLemmas, FiniteSetTheorems

\* Where the indices may point, and the loop of the draft's shift.
Shape ==
  /\ sqes \in [Slots -> Ops \cup {Zero}] /\ batch_count \in 0 .. SqEntries
  /\ cqes \in [Entries -> Ops \cup {Zero}]
  /\ cq_head \in 0 .. Word - 1 /\ cq_tail \in 0 .. Word - 1
  /\ pc \in {"caller", "submit", "wait", "shift"} /\ submitted \in Nat /\ index \in Nat
  /\ pc # "shift" => submitted = 0 /\ index = 0
  /\ pc = "shift" => submitted \in 1 .. batch_count - 1 /\ index \in 0 .. Remaining

\* The operations that are out are in one of four places, each once.
Separate(b, i, f, q, out) ==
  /\ b \in Seq(Ops) /\ i \subseteq Ops /\ f \in Seq(Ops) /\ q \in Seq(Ops)
  /\ IsInjective(b) /\ IsInjective(f) /\ IsInjective(q)
  /\ Range(b) \cap i = {} /\ Range(b) \cap Range(f) = {} /\ Range(b) \cap Range(q) = {}
  /\ i \cap Range(f) = {} /\ i \cap Range(q) = {} /\ Range(f) \cap Range(q) = {}
  /\ out = Range(b) \cup i \cup Range(f) \cup Range(q)
  /\ IsFiniteSet(out) /\ Cardinality(out) <= CqEntries

\* The inductive invariant: the places are separate, so that what is unreaped
\* fits the queue and the kernel never writes an entry the process has yet to
\* read.
RingInv ==
  /\ Shape /\ idle \subseteq Ops
  /\ Separate(Staged, inflight, finished, Posted, Ops \ idle)

-----------------------------------------------------------------------------
(* The four places, for any queues and sets.                               *)

\* A queue without duplicates is as long as its range is large.
LEMMA DistinctCardinality ==
  ASSUME NEW S, NEW s \in Seq(S), IsInjective(s)
  PROVE  IsFiniteSet(Range(s)) /\ Cardinality(Range(s)) = Len(s)
<1>1. s \in [1 .. Len(s) -> Range(s)] /\ Len(s) \in Nat
  BY RangeOfSeq
<1>2. \A i, j \in 1 .. Len(s) : s[i] = s[j] => i = j
  BY DEF IsInjective
<1>3. \A x \in Range(s) : \E i \in 1 .. Len(s) : s[i] = x
  BY RangeOfSeq
<1>4. s \in Bijection(1 .. Len(s), Range(s))
  BY <1>1, <1>2, <1>3 DEF Bijection, Injection, Surjection, IsInjective
<1>5. ExistsBijection(1 .. Len(s), Range(s))
  BY <1>4 DEF ExistsBijection
<1>6. Cardinality(Range(s)) = Len(s)
  BY <1>1, <1>5, FS_CountingElements
<1>7. IsFiniteSet(Range(s))
  BY <1>1, <1>5, FS_NatBijection
<1>. QED BY <1>6, <1>7
\* Separate places hold as many operations as are out.
LEMMA SeparateCount ==
  ASSUME NEW b, NEW i, NEW f, NEW q, NEW out, Separate(b, i, f, q, out)
  PROVE  /\ IsFiniteSet(i)
         /\ {Len(b), Cardinality(i), Len(f), Len(q), Cardinality(out)} \subseteq Nat
         /\ Len(b) + Cardinality(i) + Len(f) + Len(q) = Cardinality(out)
<1>1. /\ IsFiniteSet(Range(b)) /\ Cardinality(Range(b)) = Len(b)
      /\ IsFiniteSet(Range(f)) /\ Cardinality(Range(f)) = Len(f)
      /\ IsFiniteSet(Range(q)) /\ Cardinality(Range(q)) = Len(q)
  BY DistinctCardinality DEF Separate
<1>2. IsFiniteSet(i)
  BY FS_Subset DEF Separate
<1>. DEFINE bi == Range(b) \cup i
            bif == bi \cup Range(f)
<1>3. IsFiniteSet(bi) /\ Cardinality(bi) = Len(b) + Cardinality(i)
  <2>1. IsFiniteSet(bi) /\ Cardinality(bi) = Cardinality(Range(b)) + Cardinality(i)
                             - Cardinality(Range(b) \cap i)
    BY <1>1, <1>2, FS_Union
  <2>2. Cardinality(Range(b) \cap i) = 0
    BY ZenonT(60), FS_EmptySet DEF Separate
  <2>. QED
    BY <1>1, <1>2, <2>1, <2>2, FS_CardinalityType, SMTT(30)
<1>4. IsFiniteSet(bif) /\ Cardinality(bif) = Cardinality(bi) + Len(f)
  <2>1. IsFiniteSet(bif) /\ Cardinality(bif) = Cardinality(bi) + Cardinality(Range(f))
                              - Cardinality(bi \cap Range(f))
    BY ZenonT(60), <1>1, <1>3, FS_Union
  <2>2. bi \cap Range(f) = {}
    BY DEF Separate
  <2>3. Cardinality(bi \cap Range(f)) = 0
    BY <2>2, FS_EmptySet
  <2>4. Cardinality(bi) \in Nat /\ Len(f) \in Nat
    BY <1>1, <1>3, FS_CardinalityType
  <2>. QED
    BY <1>1, <2>1, <2>3, <2>4, SMTT(30)
<1>5. Cardinality(out) = Cardinality(bif) + Len(q)
  <2>1. out = bif \cup Range(q) /\ bif \cap Range(q) = {}
    BY DEF Separate
  <2>2. Cardinality(bif \cup Range(q)) = Cardinality(bif) + Cardinality(Range(q))
                                           - Cardinality(bif \cap Range(q))
    BY <1>1, <1>4, FS_Union
  <2>3. Cardinality(bif \cap Range(q)) = 0
    BY <2>1, FS_EmptySet
  <2>4. Cardinality(bif) \in Nat /\ Len(q) \in Nat
    BY SMTT(30), <1>1, <1>4, FS_CardinalityType
  <2>. QED
    BY <1>1, <2>1, <2>2, <2>3, <2>4, SMTT(30)
<1>6. /\ Len(b) \in Nat /\ Len(f) \in Nat /\ Len(q) \in Nat
      /\ Cardinality(i) \in Nat /\ Cardinality(out) \in Nat
  BY SMTT(30), <1>1, <1>2, FS_CardinalityType DEF Separate
<1>. QED
  BY <1>2, <1>3, <1>4, <1>5, <1>6, SMTT(30)

\* A staged operation that was idle joins the batch.
LEMMA SeparateAppend ==
  ASSUME NEW b, NEW i, NEW f, NEW q, NEW out, Separate(b, i, f, q, out),
         NEW op \in Ops, op \notin out, Cardinality(out) < CqEntries
  PROVE  Separate(Append(b, op), i, f, q, out \cup {op})
<1>1. /\ Append(b, op) \in Seq(Ops) /\ Range(Append(b, op)) = Range(b) \cup {op}
      /\ IsInjective(Append(b, op))
  BY DistinctAppend DEF Separate
<1>2. IsFiniteSet(out \cup {op}) /\ Cardinality(out \cup {op}) = Cardinality(out) + 1
  BY ZenonT(60), FS_AddElement DEF Separate
<1>3. Cardinality(out \cup {op}) <= CqEntries
  BY <1>2, SizeAssumption, FS_CardinalityType, SMTT(30) DEF Separate
<1>. QED
  BY <1>1, <1>2, <1>3 DEF Separate

\* The kernel takes the first n of the batch.
LEMMA SeparateSubmit ==
  ASSUME NEW b, NEW i, NEW f, NEW q, NEW out, Separate(b, i, f, q, out),
         NEW n \in 0 .. Len(b)
  PROVE  Separate(SubSeq(b, n + 1, Len(b)), i \cup Range(SubSeq(b, 1, n)), f, q, out)
<1>. DEFINE first == SubSeq(b, 1, n)
            rest == SubSeq(b, n + 1, Len(b))
<1>1. /\ first \in Seq(Ops) /\ rest \in Seq(Ops)
      /\ Range(b) = Range(first) \cup Range(rest)
      /\ IsInjective(rest) /\ Range(first) \cap Range(rest) = {}
  BY DistinctSplit DEF Separate
<1>2. Range(first) \subseteq Ops
  BY ZenonT(60), <1>1, RangeOfSeq
<1>. SUFFICES Separate(rest, i \cup Range(first), f, q, out)
  OBVIOUS
<1>. HIDE DEF first, rest
<1>. QED
  BY <1>1, <1>2, SMTT(30) DEF Separate

\* An operation of the kernel's is over.
LEMMA SeparateFinish ==
  ASSUME NEW b, NEW i, NEW f, NEW q, NEW out, Separate(b, i, f, q, out), NEW op \in i
  PROVE  Separate(b, i \ {op}, Append(f, op), q, out)
<1>1. /\ Append(f, op) \in Seq(Ops) /\ Range(Append(f, op)) = Range(f) \cup {op}
      /\ IsInjective(Append(f, op))
  BY DistinctAppend DEF Separate
<1>. QED
  BY <1>1, SMTT(30) DEF Separate

\* The oldest of the finished operations is posted.
LEMMA SeparatePost ==
  ASSUME NEW b, NEW i, NEW f, NEW q, NEW out, Separate(b, i, f, q, out), f # <<>>
  PROVE  Separate(b, i, Tail(f), Append(q, Head(f)), out) /\ Head(f) \in Ops
<1>1. /\ Tail(f) \in Seq(Ops) /\ IsInjective(Tail(f)) /\ Head(f) \in Range(f)
      /\ Range(Tail(f)) = Range(f) \ {Head(f)}
  BY DistinctTail DEF Separate
<1>2. Head(f) \in Ops /\ Head(f) \notin Range(q)
  BY <1>1, RangeOfSeq DEF Separate
<1>3. /\ Append(q, Head(f)) \in Seq(Ops) /\ IsInjective(Append(q, Head(f)))
      /\ Range(Append(q, Head(f))) = Range(q) \cup {Head(f)}
  BY <1>2, DistinctAppend DEF Separate
<1>. QED
  BY <1>1, <1>2, <1>3, SMTT(30) DEF Separate

\* The oldest posted completion is reaped, and its operation is out no longer.
LEMMA SeparateReap ==
  ASSUME NEW b, NEW i, NEW f, NEW q, NEW out, Separate(b, i, f, q, out), q # <<>>
  PROVE  Separate(b, i, f, Tail(q), out \ {Head(q)}) /\ Head(q) \in out
<1>1. /\ Tail(q) \in Seq(Ops) /\ IsInjective(Tail(q)) /\ Head(q) \in Range(q)
      /\ Range(Tail(q)) = Range(q) \ {Head(q)}
  BY DistinctTail DEF Separate
<1>2. /\ IsFiniteSet(out \ {Head(q)}) /\ Cardinality(out \ {Head(q)}) <= Cardinality(out)
      /\ Cardinality(out \ {Head(q)}) \in Nat /\ Cardinality(out) \in Nat
  BY FS_Subset, FS_CardinalityType DEF Separate
<1>3. Cardinality(out \ {Head(q)}) <= CqEntries
  BY <1>2, SizeAssumption, SMTT(30) DEF Separate
<1>. QED
  BY <1>1, <1>2, <1>3, SMTT(30) DEF Separate

-----------------------------------------------------------------------------
(* What the slots spell, and what each action does to it.                  *)

\* The staged operations as a sequence; outside a shift they are the first
\* batch_count slots.
LEMMA StagedIs ==
  ASSUME RingInv
  PROVE  /\ Remaining \in 0 .. SqEntries /\ Staged \in Seq(Ops)
         /\ DOMAIN Staged = 1 .. Remaining /\ Len(Staged) = Remaining
         /\ pc # "shift" => /\ Remaining = batch_count
                            /\ Staged = [i \in 1 .. batch_count |-> sqes[i - 1]]
<1>1. Remaining \in 0 .. SqEntries
  BY SizeAssumption, SMTT(30) DEF RingInv, Shape, Remaining
<1>2. Staged \in Seq(Ops) /\ DOMAIN Staged = 1 .. Remaining
  BY DEF RingInv, Separate, Staged
<1>3. Len(Staged) = Remaining
  BY <1>1, <1>2, SMTT(30)
<1>4. ASSUME pc # "shift"
      PROVE  Remaining = batch_count /\ Staged = [i \in 1 .. batch_count |-> sqes[i - 1]]
  <2>1. submitted = 0 /\ index = 0 /\ batch_count \in Nat
    BY SMTT(30), <1>4, SizeAssumption DEF RingInv, Shape
  <2>2. Remaining = batch_count
    BY <2>1, SMTT(30) DEF Remaining
  <2>3. \A i \in 1 .. batch_count : Staged[i] = sqes[i - 1]
    BY <2>1, <2>2, SMTT(30) DEF Staged
  <2>. QED
    BY SMTT(30), <2>2, <2>3 DEF Staged
<1>. QED
  BY SMTT(30), <1>1, <1>2, <1>3, <1>4

\* The posted completions as a sequence: they fit the queue, with room for one
\* more while the kernel has one to post.
LEMMA PostedIs ==
  ASSUME RingInv
  PROVE  /\ Unreaped \in 0 .. CqEntries /\ Posted \in Seq(Ops)
         /\ DOMAIN Posted = 1 .. Unreaped /\ Len(Posted) = Unreaped
         /\ finished # <<>> => Unreaped < CqEntries
         /\ cq_head = cq_tail <=> Posted = <<>>
<1>1. /\ cq_head \in 0 .. Word - 1 /\ cq_tail \in 0 .. Word - 1 /\ Word \in Nat \ {0}
      /\ finished \in Seq(Ops)
  BY SizeAssumption DEF RingInv, Shape, Separate
<1>2. Unreaped = IF cq_tail >= cq_head THEN cq_tail - cq_head ELSE cq_tail - cq_head + Word
  BY <1>1, CyclicDistance DEF Unreaped
<1>3. Unreaped \in Nat /\ (Unreaped = 0 <=> cq_head = cq_tail)
  BY <1>1, <1>2, SMTT(30)
<1>4. Posted \in Seq(Ops) /\ DOMAIN Posted = 1 .. Unreaped
  BY DEF RingInv, Separate, Posted
<1>5. Len(Posted) = Unreaped
  BY <1>3, <1>4, SMTT(30)
<1>6. /\ Len(Staged) \in Nat /\ Cardinality(inflight) \in Nat /\ Len(finished) \in Nat
      /\ Cardinality(Ops \ idle) \in Nat /\ Cardinality(Ops \ idle) <= CqEntries
      /\ Len(Staged) + Cardinality(inflight) + Len(finished) + Len(Posted)
           = Cardinality(Ops \ idle)
  <2>1. Separate(Staged, inflight, finished, Posted, Ops \ idle)
    BY DEF RingInv
  <2>2. Cardinality(Ops \ idle) <= CqEntries
    BY <2>1 DEF Separate
  <2>. QED
    BY SMTT(30), <2>1, <2>2, SeparateCount
<1>7. Unreaped + Len(finished) <= CqEntries
  BY <1>3, <1>5, <1>6, SizeAssumption, SMTT(30)
<1>8. finished # <<>> => Len(finished) >= 1
  BY <1>1, SMTT(30)
<1>9. cq_head = cq_tail <=> Posted = <<>>
  BY <1>3, <1>4, <1>5, SMTT(30)
<1>. QED
  BY <1>3, <1>4, <1>5, <1>6, <1>7, <1>8, <1>9, SizeAssumption, SMTT(30)

\* What leaves the queue's indices and entries alone leaves the completions.
LEMMA SamePosted ==
  ASSUME UNCHANGED <<cqes, cq_head, cq_tail>>
  PROVE  Posted' = Posted
BY DEF Posted, Unreaped

\* And what leaves the slots and the loop alone leaves the batch.
LEMMA SameStaged ==
  ASSUME UNCHANGED <<sqes, batch_count, submitted, index>>
  PROVE  Staged' = Staged
BY DEF Staged, Remaining

\* __libuc_ring_append_sqe fills the slot behind the batch.
LEMMA AppendStages ==
  ASSUME RingInv, NEW op \in Ops, AppendSqe(op), UNCHANGED shift
  PROVE  Staged' = Append(Staged, op) /\ Shape'
<1>1. /\ pc = "caller" /\ batch_count # SqEntries /\ submitted = 0 /\ index = 0
      /\ sqes \in [Slots -> Ops \cup {Zero}] /\ batch_count \in 0 .. SqEntries
      /\ sqes' = [sqes EXCEPT ![batch_count] = op] /\ batch_count' = batch_count + 1
      /\ UNCHANGED <<cqes, cq_head, cq_tail, pc, submitted, index>>
  BY DEF RingInv, Shape, AppendSqe, shift
<1>2. Staged = [i \in 1 .. batch_count |-> sqes[i - 1]] /\ Staged \in Seq(Ops)
  BY <1>1, StagedIs
<1>3. Staged' = [i \in 1 .. batch_count + 1 |-> sqes'[i - 1]]
  <2>1. Remaining' = batch_count + 1
    BY <1>1, SizeAssumption, SMTT(30) DEF Remaining
  <2>2. \A i \in 1 .. batch_count + 1 : Staged'[i] = sqes'[i - 1]
    BY <1>1, <2>1, SizeAssumption, SMTT(30) DEF Staged
  <2>. QED
    BY <2>1, <2>2 DEF Staged
<1>4. /\ \A i \in 1 .. batch_count : sqes'[i - 1] = sqes[i - 1]
      /\ sqes'[batch_count] = op /\ sqes' \in [Slots -> Ops \cup {Zero}]
  BY <1>1, SizeAssumption, SMTT(30) DEF Slots
<1>5. Staged' = Append(Staged, op)
  BY <1>1, <1>2, <1>3, <1>4, SizeAssumption, SMTT(30)
<1>6. Shape'
  BY <1>1, <1>4, SizeAssumption, SMTT(30) DEF RingInv, Shape
<1>. QED
  BY SMTT(30), <1>5, <1>6

\* The operations in the first n slots are the first n of the batch.
LEMMA TakenIs ==
  ASSUME RingInv, pc = "submit", NEW n \in 0 .. batch_count
  PROVE  Taken(n) = Range(SubSeq(Staged, 1, n)) /\ n \in 0 .. Len(Staged)
<1>1. /\ Staged = [i \in 1 .. batch_count |-> sqes[i - 1]] /\ Staged \in Seq(Ops)
      /\ Len(Staged) = batch_count /\ batch_count \in Nat
  BY StagedIs, SizeAssumption DEF RingInv, Shape
<1>. DEFINE first == SubSeq(Staged, 1, n)
<1>2. first \in Seq(Ops) /\ Len(first) = n /\ \A i \in 1 .. n : first[i] = sqes[i - 1]
  BY <1>1, SMTT(30)
<1>. HIDE DEF first
<1>3. \A x : x \in Range(first) <=> \E i \in 1 .. n : x = sqes[i - 1]
  <2>1. first \in Seq(Ops) /\ Len(first) = n
    BY <1>2
  <2>2. /\ \A i \in 1 .. Len(first) : first[i] \in Range(first)
        /\ \A x \in Range(first) : \E i \in 1 .. Len(first) : x = first[i]
    BY ONLY <2>1, RangeOfSeq, ZenonT(60)
  <2>. QED
    BY <1>2, <2>2, ZenonT(60)
<1>4. \A x : x \in Taken(n) <=> \E i \in 0 .. n - 1 : x = sqes[i]
  BY DEF Taken
<1>5. ASSUME NEW x PROVE x \in Taken(n) <=> x \in Range(first)
  <2>1. ASSUME NEW i \in 1 .. n, x = sqes[i - 1]
        PROVE  x \in Taken(n)
    <3>1. i - 1 \in 0 .. n - 1
      BY <1>1, SMTT(30)
    <3>. QED
      BY SMTT(30), <1>4, <2>1, <3>1
  <2>2. ASSUME NEW i \in 0 .. n - 1, x = sqes[i]
        PROVE  x \in Range(first)
    <3>1. i + 1 \in 1 .. n /\ (i + 1) - 1 = i
      BY <1>1, SMTT(30)
    <3>. QED
      BY ZenonT(60), <1>3, <2>2, <3>1
  <2>. QED
    BY SMTT(30), <1>3, <1>4, <2>1, <2>2
<1>. QED
  BY ZenonT(60), <1>1, <1>5 DEF first

\* The whole batch is taken.
LEMMA EnterAllTakes ==
  ASSUME RingInv, EnterAll, UNCHANGED shift
  PROVE  /\ Staged' = SubSeq(Staged, batch_count + 1, Len(Staged)) /\ Shape'
         /\ batch_count = Len(Staged)
<1>1. /\ pc = "submit" /\ pc' \in {"wait", "caller"} /\ batch_count' = 0
      /\ submitted = 0 /\ index = 0
      /\ UNCHANGED <<sqes, cqes, cq_head, cq_tail, submitted, index>>
  BY DEF RingInv, Shape, EnterAll, shift
<1>2. Len(Staged) = batch_count /\ batch_count \in Nat /\ Staged \in Seq(Ops)
  BY SMTT(30), <1>1, StagedIs, SizeAssumption DEF RingInv, Shape
<1>3. Staged' = <<>>
  <2>1. Remaining' = 0
    BY <1>1, SMTT(30) DEF Remaining
  <2>. QED
    BY <2>1, SMTT(30) DEF Staged
<1>4. SubSeq(Staged, batch_count + 1, Len(Staged)) = <<>>
  BY <1>2, SMTT(30)
<1>5. Shape'
  BY <1>1, SizeAssumption, SMTT(30) DEF RingInv, Shape
<1>. QED
  BY SMTT(30), <1>2, <1>3, <1>4, <1>5

\* memmove leaves the rest of the batch from slot zero on.
LEMMA EnterShortTakes ==
  ASSUME RingInv, NEW n \in 1 .. SqEntries, EnterShort(n), UNCHANGED shift
  PROVE  /\ Staged' = SubSeq(Staged, n + 1, Len(Staged)) /\ Shape'
         /\ n \in 0 .. batch_count
<1>1. /\ pc = "submit" /\ pc' = "submit" /\ submitted = 0 /\ index = 0
      /\ n \in 1 .. batch_count - 1 /\ batch_count' = batch_count - n
      /\ sqes' = MovedDown(n) /\ UNCHANGED <<cqes, cq_head, cq_tail, submitted, index>>
      /\ sqes \in [Slots -> Ops \cup {Zero}] /\ batch_count \in 0 .. SqEntries
  BY DEF RingInv, Shape, EnterShort, shift
<1>2. /\ Len(Staged) = batch_count /\ Staged \in Seq(Ops)
      /\ Staged = [i \in 1 .. batch_count |-> sqes[i - 1]]
  BY SMTT(30), <1>1, StagedIs
<1>3. /\ \A i \in 0 .. batch_count - n - 1 : sqes'[i] = sqes[i + n]
      /\ sqes' \in [Slots -> Ops \cup {Zero}]
  BY <1>1, SizeAssumption, SMTT(30) DEF MovedDown, Slots
<1>4. Remaining' = batch_count - n
  BY <1>1, SizeAssumption, SMTT(30) DEF Remaining
<1>5. \A i \in 1 .. batch_count - n : Staged'[i] = sqes[i + n - 1]
  BY <1>1, <1>3, <1>4, SizeAssumption, SMTT(30) DEF Staged
<1>6. DOMAIN Staged' = 1 .. batch_count - n /\ Staged' = [i \in 1 .. batch_count - n |-> Staged'[i]]
  BY <1>4 DEF Staged
<1>7. Staged' = SubSeq(Staged, n + 1, Len(Staged))
  BY <1>1, <1>2, <1>5, <1>6, SizeAssumption, SMTT(60)
<1>8. Shape'
  BY <1>1, <1>3, SizeAssumption, SMTT(30) DEF RingInv, Shape
<1>. QED
  BY <1>1, <1>7, <1>8, SMTT(30)

\* The draft has only noted where the rest of the batch begins.
LEMMA UcEnterShortTakes ==
  ASSUME RingInv, NEW n \in 1 .. SqEntries, UcEnterShort(n)
  PROVE  /\ Staged' = SubSeq(Staged, n + 1, Len(Staged)) /\ Shape'
         /\ n \in 0 .. batch_count
<1>1. /\ pc = "submit" /\ pc' = "shift" /\ submitted' = n /\ index' = 0
      /\ n \in 1 .. batch_count - 1
      /\ UNCHANGED <<sqes, batch_count, cqes, cq_head, cq_tail>>
      /\ batch_count \in 0 .. SqEntries
  BY DEF RingInv, Shape, UcEnterShort
<1>2. /\ Len(Staged) = batch_count /\ Staged \in Seq(Ops)
      /\ Staged = [i \in 1 .. batch_count |-> sqes[i - 1]]
  BY SMTT(30), <1>1, StagedIs
<1>4. Remaining' = batch_count - n
  BY <1>1, SizeAssumption, SMTT(30) DEF Remaining
<1>5. \A i \in 1 .. batch_count - n : Staged'[i] = sqes[i + n - 1]
  BY <1>1, <1>4, SizeAssumption, SMTT(30) DEF Staged
<1>6. Staged' = [i \in 1 .. batch_count - n |-> Staged'[i]]
  BY SMTT(30), <1>4 DEF Staged
<1>7. Staged' = SubSeq(Staged, n + 1, Len(Staged))
  BY <1>1, <1>2, <1>5, <1>6, SizeAssumption, SMTT(60)
<1>8. Shape'
  BY <1>1, <1>4, SizeAssumption, SMTT(30) DEF RingInv, Shape
<1>. QED
  BY <1>1, <1>7, <1>8, SMTT(30)

\* A pass of shift_unsubmitted moves one slot down and overwrites none that is
\* still to be moved.
LEMMA ShiftKeeps ==
  ASSUME RingInv, ShiftOne
  PROVE  Staged' = Staged /\ Shape'
<1>1. /\ pc = "shift" /\ pc' = "shift" /\ index' = index + 1 /\ index < Remaining
      /\ sqes' = [sqes EXCEPT ![index] = sqes[submitted + index]]
      /\ UNCHANGED <<batch_count, submitted, cqes, cq_head, cq_tail>>
      /\ sqes \in [Slots -> Ops \cup {Zero}] /\ batch_count \in 0 .. SqEntries
      /\ submitted \in 1 .. batch_count - 1 /\ index \in 0 .. Remaining
  BY DEF RingInv, Shape, ShiftOne
<1>2. Remaining' = Remaining /\ Remaining = batch_count - submitted
  BY <1>1 DEF Remaining
<1>3. sqes[submitted + index] \in Ops \cup {Zero} /\ index \in Slots
  BY <1>1, <1>2, SizeAssumption, SMTT(30) DEF Slots
<1>4. /\ sqes' \in [Slots -> Ops \cup {Zero}] /\ sqes'[index] = sqes[submitted + index]
      /\ \A k \in Slots : k # index => sqes'[k] = sqes[k]
  BY SMTT(30), <1>1, <1>3
<1>5. ASSUME NEW i \in 1 .. Remaining
      PROVE  Staged'[i] = Staged[i]
  <2>1. /\ Staged[i] = IF i <= index THEN sqes[i - 1] ELSE sqes[submitted + i - 1]
        /\ Staged'[i] = IF i <= index + 1 THEN sqes'[i - 1] ELSE sqes'[submitted + i - 1]
    BY SMTT(30), <1>1, <1>2 DEF Staged
  <2>2. /\ i - 1 \in Slots /\ submitted + i - 1 \in Slots
        /\ i > index => submitted + i - 1 # index
    BY <1>1, <1>2, SizeAssumption, SMTT(30) DEF Slots
  <2>3. CASE i <= index
    BY <1>1, <1>2, <1>4, <2>1, <2>2, <2>3, SizeAssumption, SMTT(60)
  <2>4. CASE i = index + 1
    BY <1>1, <1>2, <1>4, <2>1, <2>4, SizeAssumption, SMTT(60)
  <2>5. CASE i > index + 1
    BY <1>1, <1>2, <1>4, <2>1, <2>2, <2>5, SizeAssumption, SMTT(30)
  <2>. QED
    BY <1>1, <1>2, <2>3, <2>4, <2>5, SizeAssumption, SMTT(60)
<1>6. Staged' = Staged
  <2>1. /\ Staged = [i \in 1 .. Remaining |-> Staged[i]]
        /\ Staged' = [i \in 1 .. Remaining |-> Staged'[i]]
    BY SMTT(30), <1>2 DEF Staged
  <2>. QED
    BY SMTT(30), <1>5, <2>1
<1>7. Shape'
  BY <1>1, <1>2, <1>4, SizeAssumption, SMTT(30) DEF RingInv, Shape
<1>. QED
  BY <1>6, <1>7

\* The loop is over and the rest of the batch starts at slot zero.
LEMMA ShiftEndKeeps ==
  ASSUME RingInv, ShiftEnds
  PROVE  Staged' = Staged /\ Shape'
<1>1. /\ pc = "shift" /\ pc' = "submit" /\ index >= Remaining
      /\ batch_count' = Remaining /\ submitted' = 0 /\ index' = 0
      /\ UNCHANGED <<sqes, cqes, cq_head, cq_tail>>
      /\ sqes \in [Slots -> Ops \cup {Zero}] /\ batch_count \in 0 .. SqEntries
      /\ submitted \in 1 .. batch_count - 1 /\ index \in 0 .. Remaining
  BY DEF RingInv, Shape, ShiftEnds
<1>2. Remaining' = Remaining /\ Remaining \in 0 .. SqEntries
  BY <1>1, StagedIs, SizeAssumption, SMTT(30) DEF Remaining
<1>3. ASSUME NEW i \in 1 .. Remaining
      PROVE  Staged'[i] = Staged[i]
  <2>1. /\ Staged[i] = IF i <= index THEN sqes[i - 1] ELSE sqes[submitted + i - 1]
        /\ Staged'[i] = IF i <= 0 THEN sqes[i - 1] ELSE sqes[0 + i - 1]
    BY SMTT(30), <1>1, <1>2 DEF Staged
  <2>2. i <= index /\ ~(i <= 0) /\ 0 + i - 1 = i - 1
    BY <1>1, <1>2, SizeAssumption, SMTT(30)
  <2>. QED
    BY SMTT(30), <2>1, <2>2
<1>4. /\ Staged = [i \in 1 .. Remaining |-> Staged[i]]
      /\ Staged' = [i \in 1 .. Remaining |-> Staged'[i]]
  BY SMTT(30), <1>2 DEF Staged
<1>5. Shape'
  BY <1>1, <1>2, SizeAssumption, SMTT(30) DEF RingInv, Shape
<1>. QED
  BY SMTT(30), <1>3, <1>4, <1>5

\* Every index names an entry.
LEMMA EntryOfIndex ==
  ASSUME NEW x \in Int
  PROVE  x % CqEntries \in Entries
BY SizeAssumption, Division, SMTT(30) DEF Entries

\* An index names the same entry before and after it wraps.
LEMMA WrapEntry ==
  ASSUME NEW x \in Int
  PROVE  (x + Word) % CqEntries = x % CqEntries
<1>. DEFINE p == Word \div CqEntries
<1>1. p \in Int /\ Word = CqEntries * p
  BY SMTT(30), SizeAssumption, Division
<1>2. (x + CqEntries * p) % CqEntries = x % CqEntries
  BY ZenonT(60), <1>1, SizeAssumption, AddMultiple
<1>. QED
  BY SMTT(30), <1>1, <1>2

\* The entry behind the unreaped ones is the one at the tail.
LEMMA TailEntry ==
  ASSUME RingInv
  PROVE  (cq_head + Unreaped) % CqEntries = cq_tail % CqEntries
<1>1. cq_head \in 0 .. Word - 1 /\ cq_tail \in 0 .. Word - 1 /\ Word \in Nat \ {0}
  BY SizeAssumption DEF RingInv, Shape
<1>2. Unreaped = IF cq_tail >= cq_head THEN cq_tail - cq_head ELSE cq_tail - cq_head + Word
  BY <1>1, CyclicDistance DEF Unreaped
<1>3. /\ cq_tail \in Int
      /\ cq_head + Unreaped = cq_tail \/ cq_head + Unreaped = cq_tail + Word
  BY <1>1, <1>2, SMTT(30)
<1>. QED
  BY <1>3, WrapEntry

\* The kernel writes behind the unreaped entries and over none of them.
LEMMA PostAppends ==
  ASSUME RingInv, Post, UNCHANGED shift
  PROVE  Posted' = Append(Posted, Head(finished)) /\ Shape'
<1>1. /\ cq_head \in 0 .. Word - 1 /\ cq_tail \in 0 .. Word - 1 /\ Word \in Nat \ {0}
      /\ CqEntries \in Nat \ {0} /\ CqEntries < Word
      /\ cqes \in [Entries -> Ops \cup {Zero}] /\ finished # <<>>
      /\ cqes' = [cqes EXCEPT ![cq_tail % CqEntries] = Head(finished)]
      /\ cq_tail' = (cq_tail + 1) % Word /\ cq_head' = cq_head
      /\ UNCHANGED <<sqes, batch_count, pc, submitted, index>>
  BY SMTT(30), SizeAssumption DEF RingInv, Shape, Post, shift
<1>2. Head(finished) \in Ops
  BY SMTT(30), <1>1, SeparatePost DEF RingInv
<1>3. /\ Unreaped \in 0 .. CqEntries - 1 /\ Posted \in Seq(Ops)
      /\ DOMAIN Posted = 1 .. Unreaped /\ Len(Posted) = Unreaped
  BY <1>1, PostedIs, SMTT(60)
<1>4. /\ Unreaped = IF cq_tail >= cq_head THEN cq_tail - cq_head ELSE cq_tail - cq_head + Word
      /\ cq_tail' = IF cq_tail + 1 < Word THEN cq_tail + 1 ELSE 0
  BY SMTT(60), <1>1, CyclicDistance DEF Unreaped
<1>5. cq_tail' \in 0 .. Word - 1
  BY <1>1, <1>4, SMTT(30)
<1>6. Unreaped' = IF cq_tail' >= cq_head THEN cq_tail' - cq_head ELSE cq_tail' - cq_head + Word
  BY ZenonT(60), <1>1, <1>5, CyclicDistance DEF Unreaped
<1>7. Unreaped' = Unreaped + 1
  BY <1>1, <1>3, <1>4, <1>5, <1>6, SMTT(30)
<1>8. cq_tail % CqEntries \in Entries
  <2>1. cq_tail \in Int
    BY <1>1, SMTT(30)
  <2>. QED
    BY <2>1, EntryOfIndex
<1>9. /\ cqes' \in [Entries -> Ops \cup {Zero}] /\ cqes'[cq_tail % CqEntries] = Head(finished)
      /\ \A k \in Entries : k # cq_tail % CqEntries => cqes'[k] = cqes[k]
  BY SMTT(30), <1>1, <1>2, <1>8
<1>10. ASSUME NEW i \in 1 .. Unreaped
       PROVE  Posted'[i] = Posted[i]
  <2>1. /\ cq_head + i - 1 \in Int /\ cq_head + Unreaped \in Int
        /\ cq_head + i - 1 < cq_head + Unreaped
        /\ cq_head + Unreaped < cq_head + i - 1 + CqEntries /\ i \in 1 .. Unreaped + 1
    BY <1>1, <1>3, SMTT(30)
  <2>2. (cq_head + i - 1) % CqEntries # cq_tail % CqEntries
    BY ZenonT(60), <1>1, <2>1, NearbyRemainders, TailEntry
  <2>3. (cq_head + i - 1) % CqEntries \in Entries
    BY <2>1, EntryOfIndex
  <2>4. Posted'[i] = cqes'[(cq_head + i - 1) % CqEntries]
    BY SMTT(30), <1>1, <1>7, <2>1 DEF Posted
  <2>5. Posted[i] = cqes[(cq_head + i - 1) % CqEntries]
    BY DEF Posted
  <2>. QED
    BY SMTT(60), <1>9, <2>2, <2>3, <2>4, <2>5
<1>11. Posted'[Unreaped + 1] = Head(finished)
  <2>1. Unreaped + 1 \in 1 .. Unreaped + 1 /\ cq_head + (Unreaped + 1) - 1 = cq_head + Unreaped
    BY <1>1, <1>3, SMTT(30)
  <2>2. Posted'[Unreaped + 1] = cqes'[(cq_head + Unreaped) % CqEntries]
    BY SMTT(30), <1>1, <1>7, <2>1 DEF Posted
  <2>. QED
    BY SMTT(30), <1>9, <2>2, TailEntry
<1>12. Posted' = [i \in 1 .. Unreaped + 1 |-> Posted'[i]]
  BY SMTT(30), <1>7 DEF Posted
<1>13. Posted' = Append(Posted, Head(finished))
  BY <1>3, <1>10, <1>11, <1>12, SMTT(60)
<1>14. Shape'
  BY SMTT(30), <1>1, <1>5, <1>9 DEF RingInv, Shape, Remaining
<1>. QED
  BY SMTT(30), <1>13, <1>14

\* The oldest entry is read and the rest stay where they are.
LEMMA ReapTakes ==
  ASSUME RingInv, Reap, UNCHANGED shift
  PROVE  /\ Posted # <<>> /\ Posted' = Tail(Posted) /\ Shape'
         /\ idle' = idle \cup {Head(Posted)}
<1>1. /\ cq_head \in 0 .. Word - 1 /\ cq_tail \in 0 .. Word - 1 /\ Word \in Nat \ {0}
      /\ CqEntries \in Nat \ {0} /\ cq_head # cq_tail
      /\ idle' = idle \cup {cqes[cq_head % CqEntries]}
      /\ cq_head' = (cq_head + 1) % Word /\ cq_tail' = cq_tail
      /\ UNCHANGED <<cqes, sqes, batch_count, pc, submitted, index>>
  BY SMTT(30), SizeAssumption DEF RingInv, Shape, Reap, shift
<1>2. /\ Unreaped \in 0 .. CqEntries /\ Posted \in Seq(Ops) /\ Posted # <<>>
      /\ DOMAIN Posted = 1 .. Unreaped /\ Len(Posted) = Unreaped
  BY SMTT(30), <1>1, PostedIs
<1>3. /\ Unreaped = IF cq_tail >= cq_head THEN cq_tail - cq_head ELSE cq_tail - cq_head + Word
      /\ cq_head' = IF cq_head + 1 < Word THEN cq_head + 1 ELSE 0
  BY SMTT(60), <1>1, CyclicDistance DEF Unreaped
<1>4. cq_head' \in 0 .. Word - 1
  BY <1>1, <1>3, SMTT(30)
<1>5. Unreaped' = IF cq_tail >= cq_head' THEN cq_tail - cq_head' ELSE cq_tail - cq_head' + Word
  BY ZenonT(60), <1>1, <1>4, CyclicDistance DEF Unreaped
<1>6. Unreaped >= 1 /\ Unreaped' = Unreaped - 1
  BY <1>1, <1>3, <1>4, <1>5, SMTT(30)
<1>7. Head(Posted) = cqes[cq_head % CqEntries]
  <2>1. 1 \in 1 .. Unreaped /\ cq_head + 1 - 1 = cq_head /\ Head(Posted) = Posted[1]
    BY <1>1, <1>2, <1>6, SMTT(30)
  <2>2. Posted[1] = cqes[(cq_head + 1 - 1) % CqEntries]
    BY SMTT(30), <2>1 DEF Posted
  <2>. QED
    BY <2>1, <2>2
<1>8. ASSUME NEW i \in 1 .. Unreaped - 1
      PROVE  Posted'[i] = Posted[i + 1]
  <2>1. /\ i + 1 \in 1 .. Unreaped /\ cq_head + (i + 1) - 1 = cq_head + i
        /\ cq_head' + i - 1 \in Int
        /\ cq_head' + i - 1 = cq_head + i \/ cq_head' + i - 1 + Word = cq_head + i
    BY <1>1, <1>2, <1>3, <1>4, SMTT(60)
  <2>2. (cq_head' + i - 1) % CqEntries = (cq_head + i) % CqEntries
    BY SMTT(30), <2>1, WrapEntry
  <2>3. Posted'[i] = cqes[(cq_head' + i - 1) % CqEntries]
    BY SMTT(30), <1>1, <1>6 DEF Posted
  <2>4. Posted[i + 1] = cqes[(cq_head + (i + 1) - 1) % CqEntries]
    BY SMTT(30), <2>1 DEF Posted
  <2>. QED
    BY SMTT(60), <2>1, <2>2, <2>3, <2>4
<1>9. Posted' = [i \in 1 .. Unreaped - 1 |-> Posted'[i]]
  BY SMTT(30), <1>6 DEF Posted
<1>10. Posted' = Tail(Posted)
  BY <1>2, <1>6, <1>8, <1>9, SMTT(60)
<1>11. Shape'
  BY SMTT(30), <1>1, <1>4 DEF RingInv, Shape, Remaining
<1>. QED
  BY SMTT(30), <1>1, <1>2, <1>7, <1>10, <1>11

-----------------------------------------------------------------------------
(* The invariant, and the step of IoRing that each step is.                *)

\* An empty ring satisfies the invariant, and its queues are IoRing's at the start.
LEMMA RingInitially == UcInit => RingInv /\ Io!RingInit
<1>. SUFFICES ASSUME UcInit PROVE RingInv /\ Io!RingInit
  BY SMTT(30)
<1>. USE DEF UcInit, Init
<1>1. Shape
  BY SizeAssumption, SMTT(30) DEF Shape, Slots, Entries, Remaining
<1>2. Staged = <<>>
  <2>1. Remaining = 0
    BY SMTT(30) DEF Remaining
  <2>. QED
    BY <2>1, SMTT(30) DEF Staged
<1>3. Posted = <<>>
  <2>1. Unreaped = 0
    BY SizeAssumption, SmallRemainder, SMTT(30) DEF Unreaped
  <2>. QED
    BY <2>1, SMTT(30) DEF Posted
<1>4. Ops \ idle = {} /\ IsFiniteSet({}) /\ Cardinality({}) = 0
  BY FS_EmptySet
<1>5. <<>> \in Seq(Ops) /\ IsInjective(<<>>) /\ Range(<<>>) = {}
  BY SMTT(30) DEF IsInjective, Range
<1>6. Separate(Staged, inflight, finished, Posted, Ops \ idle)
  <2>1. 0 <= CqEntries
    BY SizeAssumption, SMTT(30)
  <2>2. Separate(<<>>, {}, <<>>, <<>>, {})
    BY <1>4, <1>5, <2>1, ZenonT(60) DEF Separate
  <2>. QED
    BY ZenonT(60), <1>2, <1>3, <1>4, <2>2
<1>. QED
  BY SMTT(30), <1>1, <1>2, <1>3, <1>6 DEF RingInv, Io!RingInit

\* The step is one of IoRing's.
Abstract == [Io!RingNext]_(Io!ringVars)

\* append_sqe (ring.c:89-99) fills the next slot, and adds to the abstract staged queue.
LEMMA AppendStep ==
  ASSUME RingInv, NEW op \in Ops, AppendSqe(op), UNCHANGED shift
  PROVE  RingInv' /\ Abstract
<1>1. Staged' = Append(Staged, op) /\ Shape'
  BY SMTT(30), AppendStages
<1>2. /\ op \in idle /\ idle' = idle \ {op} /\ Cardinality(Ops \ idle) < CqEntries
      /\ pc = "caller" /\ batch_count # SqEntries
      /\ UNCHANGED <<cqes, cq_head, cq_tail, inflight, finished>>
  BY DEF AppendSqe, Admits
<1>3. Posted' = Posted
  BY SMTT(30), <1>2, SamePosted
<1>4. Separate(Append(Staged, op), inflight, finished, Posted, (Ops \ idle) \cup {op})
  BY SMTT(30), <1>2, SeparateAppend DEF RingInv
<1>5. Ops \ idle' = (Ops \ idle) \cup {op}
  BY SMTT(30), <1>2
<1>6. RingInv'
  BY ZenonT(60), <1>1, <1>2, <1>3, <1>4, <1>5 DEF RingInv
<1>7. op \notin Io!Outstanding
  BY <1>2 DEF RingInv, Separate, Io!Outstanding, Range, Io!Range
<1>8. Len(Staged) # SqEntries
  BY <1>2, StagedIs
<1>9. Io!AppendSqe(op)
  BY SMTT(30), <1>1, <1>2, <1>3, <1>8 DEF Io!AppendSqe, Io!BatchFull
<1>. QED
  BY <1>6, <1>7, <1>9 DEF Abstract, Io!RingNext

\* An io_uring_enter that takes the first n slots takes the front of IoRing's queue.
LEMMA EnterStep ==
  ASSUME RingInv, NEW n \in 0 .. batch_count, pc = "submit",
         inflight' = inflight \cup Taken(n), n = 0 => batch_count = 0,
         Staged' = SubSeq(Staged, n + 1, Len(Staged)), Shape',
         UNCHANGED <<cqes, cq_head, cq_tail, finished, idle>>
  PROVE  RingInv' /\ Abstract
<1>1. Taken(n) = Range(SubSeq(Staged, 1, n)) /\ n \in 0 .. Len(Staged)
  BY TakenIs
<1>2. Posted' = Posted
  BY SMTT(30), SamePosted
<1>3. Separate(SubSeq(Staged, n + 1, Len(Staged)),
               inflight \cup Range(SubSeq(Staged, 1, n)), finished, Posted, Ops \ idle)
  BY SMTT(30), <1>1, SeparateSubmit DEF RingInv
<1>4. RingInv'
  BY SMTT(30), <1>1, <1>2, <1>3 DEF RingInv
<1>5. n = 0 => Staged = <<>>
  <2>1. Staged \in Seq(Ops) /\ Len(Staged) = batch_count
    BY SMTT(30), StagedIs
  <2>. QED
    BY <2>1, SMTT(30)
<1>6. Io!Submit(n)
  BY SMTT(30), <1>1, <1>2, <1>5 DEF Io!Submit, Range, Io!Range
<1>. QED
  BY SMTT(30), <1>1, <1>4, <1>6 DEF Abstract, Io!RingNext

\* __libuc_ring_submit (ring.c:101-131): whatever the kernel takes, it is the queue's
\* front that goes, and a refusal leaves the queue as it is.
LEMMA SubmitStep ==
  ASSUME RingInv,
         \/ /\ \/ StartSubmit \/ EnterAll \/ WaitReturns \/ EnterFails
               \/ \E n \in 1 .. SqEntries : EnterShort(n)
            /\ UNCHANGED shift
         \/ \E n \in 1 .. SqEntries : UcEnterShort(n)
  PROVE  RingInv' /\ Abstract
<1>1. CASE (StartSubmit \/ WaitReturns \/ EnterFails) /\ UNCHANGED shift
  <2>1. /\ pc' \in {"caller", "submit"} /\ pc # "shift"
        /\ UNCHANGED <<sqes, batch_count, cqes, cq_head, cq_tail, inflight, finished,
                       idle, submitted, index>>
    BY <1>1 DEF StartSubmit, WaitReturns, EnterFails, shift
  <2>2. Staged' = Staged /\ Posted' = Posted
    BY SMTT(30), <2>1, SameStaged, SamePosted
  <2>3. Shape'
    BY SMTT(30), <2>1 DEF RingInv, Shape, Remaining
  <2>. QED
    BY SMTT(30), <2>1, <2>2, <2>3 DEF RingInv, Abstract, Io!ringVars
<1>2. CASE EnterAll /\ UNCHANGED shift
  <2>1. /\ Staged' = SubSeq(Staged, batch_count + 1, Len(Staged)) /\ Shape'
        /\ batch_count = Len(Staged)
    BY SMTT(30), <1>2, EnterAllTakes
  <2>2. batch_count \in 0 .. batch_count
    BY SizeAssumption, SMTT(30) DEF RingInv, Shape
  <2>. QED
    BY SMTT(30), <1>2, <2>1, <2>2, EnterStep DEF EnterAll
<1>3. ASSUME NEW n \in 1 .. SqEntries, EnterShort(n), UNCHANGED shift
      PROVE  RingInv' /\ Abstract
  <2>1. /\ Staged' = SubSeq(Staged, n + 1, Len(Staged)) /\ Shape'
        /\ n \in 0 .. batch_count /\ n # 0
    BY <1>3, EnterShortTakes, SMTT(30)
  <2>. QED
    BY SMTT(30), <1>3, <2>1, EnterStep DEF EnterShort
<1>4. ASSUME NEW n \in 1 .. SqEntries, UcEnterShort(n)
      PROVE  RingInv' /\ Abstract
  <2>1. /\ Staged' = SubSeq(Staged, n + 1, Len(Staged)) /\ Shape'
        /\ n \in 0 .. batch_count /\ n # 0
    BY <1>4, UcEnterShortTakes, SMTT(30)
  <2>. QED
    BY SMTT(30), <1>4, <2>1, EnterStep DEF UcEnterShort
<1>. QED
  BY SMTT(30), <1>1, <1>2, <1>3, <1>4

\* A step of the loop that moves the slots not taken to the front (uc/scheduler/ring.c:102-105)
\* is no step of the queues.
LEMMA ShiftStep ==
  ASSUME RingInv, ShiftOne \/ ShiftEnds
  PROVE  RingInv' /\ Abstract
<1>1. Staged' = Staged /\ Shape'
  BY SMTT(30), ShiftKeeps, ShiftEndKeeps
<1>2. UNCHANGED <<cqes, cq_head, cq_tail, inflight, finished, idle>>
  BY DEF ShiftOne, ShiftEnds
<1>3. Posted' = Posted
  BY SMTT(30), <1>2, SamePosted
<1>. QED
  BY SMTT(30), <1>1, <1>2, <1>3 DEF RingInv, Abstract, Io!ringVars

\* The kernel finishes an operation or posts its completion behind the tail.
LEMMA KernelStep ==
  ASSUME RingInv, Post \/ \E op \in Ops : Finish(op), UNCHANGED shift
  PROVE  RingInv' /\ Abstract
<1>1. CASE Post /\ UNCHANGED shift
  <2>1. /\ finished # <<>> /\ finished' = Tail(finished)
        /\ UNCHANGED <<sqes, batch_count, inflight, idle, submitted, index>>
    BY <1>1 DEF Post, shift
  <2>2. Posted' = Append(Posted, Head(finished)) /\ Shape' /\ Staged' = Staged
    BY SMTT(30), <1>1, <2>1, PostAppends, SameStaged
  <2>3. Separate(Staged, inflight, Tail(finished), Append(Posted, Head(finished)), Ops \ idle)
    BY SMTT(30), <2>1, SeparatePost DEF RingInv
  <2>4. RingInv'
    BY SMTT(30), <2>1, <2>2, <2>3 DEF RingInv
  <2>5. /\ 1 \in 0 .. Len(finished) /\ Tail(finished) = SubSeq(finished, 2, Len(finished))
        /\ Append(Posted, Head(finished)) = Posted \o SubSeq(finished, 1, 1)
    <3>1. finished \in Seq(Ops) /\ Posted \in Seq(Ops) /\ finished # <<>>
      BY <2>1 DEF RingInv, Separate
    <3>2. SubSeq(finished, 1, 1) = <<Head(finished)>> /\ 1 \in 0 .. Len(finished)
      <4>1. Len(finished) \in Nat /\ Len(finished) >= 1 /\ finished[1] = Head(finished)
        BY <3>1, SMTT(30)
      <4>2. SubSeq(finished, 1, 1) = [i \in 1 .. 1 |-> finished[i]]
        BY <3>1, <4>1, SMTT(30)
      <4>3. [i \in 1 .. 1 |-> finished[i]] = <<finished[1]>>
        BY SMTT(30)
      <4>4. 1 \in 0 .. Len(finished)
        BY <4>1, SMTT(30)
      <4>. QED
        BY <4>1, <4>2, <4>3, <4>4, ZenonT(60)
    <3>3. Append(Posted, Head(finished)) = Posted \o <<Head(finished)>>
      BY <3>1, SMTT(30)
    <3>4. Tail(finished) = SubSeq(finished, 2, Len(finished))
      BY <3>1, SMTT(30)
    <3>. QED
      BY SMTT(30), <3>2, <3>3, <3>4
  <2>6. Io!Post(1)
    BY <2>1, <2>2, <2>5, SMTT(30) DEF Io!Post
  <2>. QED
    BY SMTT(30), <2>4, <2>5, <2>6 DEF Abstract, Io!RingNext
<1>2. ASSUME NEW op \in Ops, Finish(op), UNCHANGED shift
      PROVE  RingInv' /\ Abstract
  <2>1. /\ op \in inflight /\ inflight' = inflight \ {op} /\ finished' = Append(finished, op)
        /\ UNCHANGED <<sqes, batch_count, cqes, cq_head, cq_tail, idle, pc, submitted, index>>
    BY SMTT(30), <1>2 DEF Finish, shift
  <2>2. Staged' = Staged /\ Posted' = Posted
    BY SMTT(30), <2>1, SameStaged, SamePosted
  <2>3. Separate(Staged, inflight \ {op}, Append(finished, op), Posted, Ops \ idle)
    BY SMTT(30), <2>1, SeparateFinish DEF RingInv
  <2>4. Shape'
    BY SMTT(30), <2>1 DEF RingInv, Shape, Remaining
  <2>5. RingInv'
    BY SMTT(30), <2>1, <2>2, <2>3, <2>4 DEF RingInv
  <2>6. Io!Finish(op)
    BY SMTT(30), <2>1, <2>2 DEF Io!Finish
  <2>. QED
    BY SMTT(30), <2>5, <2>6 DEF Abstract, Io!RingNext
<1>. QED
  BY SMTT(30), <1>1, <1>2

\* __libuc_ring_reap (ring.c:133-146) takes the entry of the head, the oldest completion.
LEMMA ReapStep ==
  ASSUME RingInv, Reap, UNCHANGED shift
  PROVE  RingInv' /\ Abstract
<1>1. /\ Posted # <<>> /\ Posted' = Tail(Posted) /\ Shape'
      /\ idle' = idle \cup {Head(Posted)}
  BY SMTT(30), ReapTakes
<1>2. UNCHANGED <<sqes, batch_count, inflight, finished, submitted, index>>
  BY DEF Reap, shift
<1>3. Staged' = Staged
  BY SMTT(30), <1>2, SameStaged
<1>4. /\ Separate(Staged, inflight, finished, Tail(Posted), (Ops \ idle) \ {Head(Posted)})
      /\ Head(Posted) \in Ops \ idle
  BY ZenonT(60), <1>1, SeparateReap DEF RingInv
<1>5. Ops \ idle' = (Ops \ idle) \ {Head(Posted)} /\ idle' \subseteq Ops
  BY SMTT(30), <1>1, <1>4 DEF RingInv
<1>6. RingInv'
  BY ZenonT(60), <1>1, <1>2, <1>3, <1>4, <1>5 DEF RingInv
<1>7. Io!Reap
  BY <1>1, <1>2, <1>3 DEF Io!Reap
<1>. QED
  BY SMTT(30), <1>6, <1>7 DEF Abstract, Io!RingNext

\* Every step of the ring keeps the invariant, and is a step of IoRing or leaves
\* its queues alone.
LEMMA RingStep == RingInv /\ [UcNext]_ucVars => RingInv' /\ Abstract
<1>. SUFFICES ASSUME RingInv, [UcNext]_ucVars PROVE RingInv' /\ Abstract
  BY SMTT(30)
<1>1. CASE UNCHANGED ucVars
  <2>1. UNCHANGED <<sqes, batch_count, cqes, cq_head, cq_tail, inflight, finished, idle,
                    pc, submitted, index>>
    BY <1>1 DEF ucVars, vars
  <2>2. Staged' = Staged /\ Posted' = Posted
    BY SMTT(30), <2>1, SameStaged, SamePosted
  <2>. QED
    BY SMTT(30), <2>1, <2>2 DEF RingInv, Shape, Remaining, Abstract, Io!ringVars
<1>2. CASE UcNext
  <2>1. CASE Next /\ UNCHANGED shift
    BY SMTT(30), <2>1, AppendStep, SubmitStep, KernelStep, ReapStep DEF Next
  <2>2. CASE ShiftOne \/ ShiftEnds \/ \E n \in 1 .. SqEntries : UcEnterShort(n)
    BY SMTT(30), <2>2, SubmitStep, ShiftStep
  <2>. QED
    BY <1>2, <2>1, <2>2 DEF UcNext
<1>. QED
  BY <1>1, <1>2

\* Under submissions cut short at any point, failed and retried ones, the draft's
\* loop interrupted by completions, and indices that wrap, the staged slots, the
\* kernel's two stages, the unreaped entries and the idle operations are together
\* each operation once: for any number of operations and sizes of the queues.
THEOREM NoOperationLost == UcSpec => []EachOnce
<1>1. RingInv => EachOnce
  <2>. SUFFICES ASSUME RingInv PROVE EachOnce
    BY SMTT(30)
  <2>1. Separate(Staged, inflight, finished, Posted, Ops \ idle)
    BY DEF RingInv
  <2>2. /\ Len(Staged) + Cardinality(inflight) + Len(finished) + Len(Posted)
             = Cardinality(Ops \ idle)
        /\ Len(Staged) = Remaining /\ Len(Posted) = Unreaped
    BY SMTT(30), <2>1, SeparateCount, StagedIs, PostedIs
  <2>3. Range(Staged) \cup inflight \cup Range(finished) \cup Range(Posted) = Ops \ idle
    BY <2>1 DEF Separate
  <2>. QED
    BY SMTT(30), <2>2, <2>3 DEF EachOnce
<1>. QED
  BY <1>1, RingInitially, RingStep, PTL DEF UcSpec

\* The slots and indices of the rings implement the queues the reactor works
\* with: every step is a step of IoRing or leaves its queues as they were, those
\* of the draft's shift included, for any sizes.
THEOREM SlotsImplementQueues == UcSpec => ImplementsIoRing
BY RingInitially, RingStep, PTL DEF UcSpec, ImplementsIoRing, Io!RingSpec, Abstract
=============================================================================
