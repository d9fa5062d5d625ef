------------------------- MODULE FiberMemoryProofs --------------------------
(***************************************************************************)
(* Proofs about FiberMemory and ThreadLocal for every word width, page     *)
(* size, executable and number of fibers: where a block and a record lie,  *)
(* and which mappings there are.                                           *)
(***************************************************************************)
EXTENDS FiberMemory, DataLemmas, FiniteSetTheorems

-----------------------------------------------------------------------------
(* Alignment.                                                              *)

\* A multiple of a multiple of a is one of a.
LEMMA MultipleOfMultiple ==
  ASSUME NEW x \in Int, NEW a \in Nat \ {0}, NEW b \in Nat \ {0}, b % a = 0, x % b = 0
  PROVE  x % a = 0
<1>1. (x % b) % a = x % a
  BY ZenonT(60), RemainderOfRemainder
<1>2. 0 % a = 0
  BY SmallRemainder, SMTT(30)
<1>. QED
  BY <1>1, <1>2

\* Sums and differences of multiples of a.
LEMMA SumOfMultiples ==
  ASSUME NEW x \in Int, NEW y \in Int, NEW a \in Nat \ {0}, x % a = 0, y % a = 0
  PROVE  (x + y) % a = 0 /\ (x - y) % a = 0
<1>. DEFINE k == y \div a
<1>1. k \in Int /\ y = a * k + 0
  BY Division
<1>. HIDE DEF k
<1>2. -k \in Int
  BY <1>1, SMTT(30)
<1>3. (x + a * k) % a = x % a
  BY ZenonT(60), <1>1, AddMultiple
<1>4. (x + a * (-k)) % a = x % a
  BY SMTT(60), <1>2, AddMultiple
<1>5. x + a * k = x + y /\ x + a * (-k) = x - y
  BY ONLY x \in Int, y \in Int, a \in Nat, <1>1, SMTT(30)
<1>. QED
  BY <1>3, <1>4, <1>5

\* Two multiples of a that are less than a apart are one.
LEMMA OneMultiple ==
  ASSUME NEW x \in Int, NEW y \in Int, NEW a \in Nat \ {0}, x % a = 0, y % a = 0,
         x < y + a, y < x + a
  PROVE  x = y
<1>1. CASE x < y
  BY ZenonT(60), <1>1, NearbyRemainders
<1>2. CASE y < x
  BY ZenonT(60), <1>2, NearbyRemainders
<1>. QED
  BY <1>1, <1>2, SMTT(30)

\* x & ~(a - 1): the greatest multiple of a that is not above x.
LEMMA AlignedDown ==
  ASSUME NEW x \in Nat, NEW a \in Nat \ {0}
  PROVE  /\ AlignDown(x, a) \in Nat /\ AlignDown(x, a) % a = 0
         /\ AlignDown(x, a) <= x /\ x < AlignDown(x, a) + a
         /\ \A s \in Nat : s % a = 0 /\ s <= x => s <= AlignDown(x, a)
<1>. DEFINE q == x \div a
            r == x % a
<1>1. q \in Int /\ r \in 0 .. a - 1 /\ x = a * q + r
  BY Division
<1>2. AlignDown(x, a) = x - r
  BY DEF AlignDown
<1>. HIDE DEF q, r
<1>3. x - r = a * q + 0 /\ a * q \in Int
  BY <1>1, SMTT(30)
<1>4. (x - r) % a = 0
  BY <1>1, <1>3, RemainderUnique, SMTT(30)
<1>5. x - r \in Nat
  <2>1. q >= 0
    <3>. SUFFICES ASSUME q <= -1 PROVE FALSE
      BY <1>1, SMTT(30)
    <3>1. a * q <= -a
      BY <1>1, SMTT(30)
    <3>. QED
      BY <1>1, <3>1, SMTT(30)
  <2>2. a * q >= 0
    BY <1>1, <2>1, SMTT(30)
  <2>. QED
    BY <1>1, <1>3, <2>2, SMTT(30)
<1>6. ASSUME NEW s \in Nat, s % a = 0, s <= x
      PROVE  s <= x - r
  <2>. SUFFICES ASSUME s > x - r PROVE FALSE
    BY <1>1, <1>5, SMTT(30)
  <2>1. s = x - r
    <3>1. s < (x - r) + a /\ x - r < s + a /\ x - r \in Int
      BY <1>1, <1>5, <1>6, SMTT(30)
    <3>2. s \in Int /\ a \in Nat \ {0}
      BY SMTT(30)
    <3>. QED
      BY ONLY <1>4, <1>6, <3>1, <3>2, OneMultiple, ZenonT(30)
  <2>. QED
    BY <1>5, <2>1, SMTT(30)
<1>. QED
  BY <1>1, <1>2, <1>4, <1>5, <1>6, SMTT(30)

\* (n + (a - 1)) & ~(a - 1): the least multiple of a that is not below n.
LEMMA AlignedUp ==
  ASSUME NEW n \in Nat, NEW a \in Nat \ {0}
  PROVE  LET up == AlignDown(n + (a - 1), a) IN
         up \in Nat /\ up % a = 0 /\ n <= up /\ up < n + a /\ up = LeastMultiple(n, a)
<1>. DEFINE up == AlignDown(n + (a - 1), a)
<1>1. n + (a - 1) \in Nat
  BY SMTT(30)
<1>2. up \in Nat /\ up % a = 0 /\ up <= n + (a - 1) /\ n + (a - 1) < up + a
  BY <1>1, AlignedDown
<1>. HIDE DEF up
<1>3. n <= up /\ up < n + a /\ up \in n .. n + a
  BY <1>1, <1>2, SMTT(30)
<1>. DEFINE least(m) == m % a = 0 /\ \A k \in n .. m - 1 : k % a # 0
<1>4. least(up)
  <2>. SUFFICES ASSUME NEW k \in n .. up - 1, k % a = 0 PROVE FALSE
    BY ZenonT(60), <1>2
  <2>1. k \in Int /\ k < up + a /\ up < k + a
    BY <1>2, <1>3, SMTT(30)
  <2>2. k = up
    <3>1. up \in Int /\ k % a = 0
      BY <1>2, SMTT(30)
    <3>. QED
      BY ONLY <1>2, <2>1, <3>1, a \in Nat \ {0}, OneMultiple, ZenonT(30)
  <2>. QED
    BY <1>2, <2>2, SMTT(30)
<1>5. ASSUME NEW m \in n .. n + a, least(m) PROVE m = up
  <2>1. CASE m < up
    <3>1. m \in n .. up - 1
      BY <1>2, <1>5, <2>1, SMTT(30)
    <3>. QED
      BY <1>4, <1>5, <3>1
  <2>2. CASE up < m
    <3>1. up \in n .. m - 1
      BY <1>2, <1>3, <1>5, <2>2, SMTT(30)
    <3>. QED
      BY ZenonT(60), <1>2, <1>5, <3>1
  <2>. QED
    BY <1>2, <2>1, <2>2, SMTT(30)
<1>6. LeastMultiple(n, a) = CHOOSE m \in n .. n + a : least(m)
  BY DEF LeastMultiple
<1>. HIDE DEF least
<1>7. up = LeastMultiple(n, a)
  BY <1>3, <1>4, <1>5, <1>6
<1>. QED
  BY <1>2, <1>3, <1>7 DEF up

\* Each power of two that fits a word divides the later ones.
LEMMA PowersDivide ==
  ASSUME NEW j \in 0 .. Bits, NEW k \in 0 .. Bits, j <= k
  PROVE  2^k % 2^j = 0
<1>0. Bits \in Nat
  BY WordAssumption
<1>. DEFINE T == {i \in 0 .. Bits : j <= i /\ 2^i % 2^j # 0}
<1>. SUFFICES ASSUME T # {} PROVE FALSE
  BY <1>0
<1>1. T \in SUBSET Nat
  BY <1>0, SMTT(30)
<1>2. PICK i \in T : \A y \in T : i <= y
  BY ZenonT(60), <1>1, LeastNatural
<1>3. i \in 0 .. Bits /\ j <= i /\ 2^i % 2^j # 0
  BY <1>2
<1>. DEFINE a == 2^j
            p == 2^(i - 1)
<1>4. a \in Nat \ {0}
  BY PowerAssumption
<1>5. i # j
  <2>1. a = a * 1 + 0
    BY <1>4, SMTT(30)
  <2>2. a % a = 0
    BY <1>4, <2>1, RemainderUnique, SMTT(30)
  <2>. QED
    BY <1>3, <2>2
<1>6. i - 1 \in 0 .. Bits /\ j <= i - 1 /\ i > 0 /\ ~(i <= i - 1)
  BY <1>0, <1>3, <1>5, SMTT(30)
<1>7. p % a = 0
  BY <1>2, <1>6
<1>8. p \in Nat \ {0} /\ 2^i = 2 * p
  BY <1>3, <1>6, PowerAssumption
<1>. HIDE DEF a, p
<1>9. (p + p) % a = 0
  <2>1. p \in Int
    BY <1>8
  <2>. QED
    BY ONLY <1>4, <1>7, <2>1, SumOfMultiples, ZenonT(30)
<1>10. p + p = 2 * p
  BY ONLY <1>8, SMTT(30)
<1>. QED
  BY <1>3, <1>8, <1>9, <1>10 DEF a

\* Of two alignments the smaller divides the larger.
LEMMA AlignmentsDivide ==
  ASSUME NEW a, NEW b, PowerOfTwo(a), PowerOfTwo(b)
  PROVE  a \in Nat \ {0} /\ b \in Nat \ {0} /\ (a <= b => b % a = 0)
<1>0. Bits \in Nat \ {0}
  BY WordAssumption
<1>1. PICK j \in 0 .. Bits - 1, k \in 0 .. Bits - 1 : a = 2^j /\ b = 2^k
  BY DEF PowerOfTwo
<1>2. j \in 0 .. Bits /\ k \in 0 .. Bits
  BY <1>0, <1>1, SMTT(30)
<1>3. a \in Nat \ {0} /\ b \in Nat \ {0}
  BY <1>1, <1>2, PowerAssumption
<1>4. CASE j <= k
  BY SMTT(30), <1>1, <1>2, <1>3, <1>4, PowersDivide
<1>5. CASE k <= j
  <2>1. a % b = 0
    BY <1>1, <1>2, <1>5, PowersDivide
  <2>2. ASSUME a <= b PROVE b % a = 0
    <3>1. a = b
      <4>1. b % b = 0 /\ 0 < a
        <5>1. b = b * 1 + 0
          BY <1>3, SMTT(30)
        <5>. QED
          BY <1>3, <5>1, RemainderUnique, SMTT(30)
      <4>2. CASE a < b
        BY <1>3, <2>1, <4>1, <4>2, SmallRemainder, SMTT(30)
      <4>. QED
        BY <1>3, <2>2, <4>2, SMTT(30)
    <3>. QED
      BY <2>1, <3>1
  <2>. QED
    BY <1>3, <2>2
<1>. QED
  BY <1>2, <1>4, <1>5, SMTT(30)

-----------------------------------------------------------------------------
(* Where a block lies.                                                     *)

\* What a placement of size bytes on align bytes must satisfy.
Placed(p, size, align) ==
  /\ p.length \in Nat /\ p.block_offset \in Nat /\ p.tp_offset \in Nat
  /\ p.block_offset % align = 0 /\ p.tp_offset % PtrAlign = 0
  /\ p.block_offset + size <= p.length /\ p.tp_offset + TcbSize <= p.length
  /\ \/ p.block_offset + size <= p.tp_offset
     \/ p.tp_offset + TcbSize <= p.block_offset
  /\ arch = "x86_64" => p.tp_offset - p.block_offset = LeastMultiple(size, align)
  /\ arch = "aarch64" => p.block_offset - p.tp_offset = LeastMultiple(TcbSize, align)

\* Variant 2: raising the thread pointer to the TCB's alignment moves the block
\* by a multiple of its own.
LEMMA PlacedX86 ==
  ASSUME NEW size \in Nat, NEW align, PowerOfTwo(align), arch = "x86_64",
         PlaceX86(size, align) # Null
  PROVE  Placed(PlaceX86(size, align), size, align)
<1>. DEFINE d == AlignDown(size + (align - 1), align)
            t == AlignDown(d + (PtrAlign - 1), PtrAlign)
            p == PlaceX86(size, align)
<1>1. /\ align \in Nat \ {0} /\ PtrAlign \in Nat \ {0} /\ TcbSize \in Nat
      /\ PtrAlign <= align => align % PtrAlign = 0
      /\ align <= PtrAlign => PtrAlign % align = 0
  BY SMTT(30), AlignmentsDivide, PtrAlignAssumption, WordAssumption
<1>2. d \in Nat /\ d % align = 0 /\ size <= d /\ d = LeastMultiple(size, align)
  BY SMTT(30), <1>1, AlignedUp
<1>. HIDE DEF d
<1>3. t \in Nat /\ t % PtrAlign = 0 /\ d <= t /\ t < d + PtrAlign
  BY ZenonT(60), <1>1, <1>2, AlignedUp
<1>4. p = [length |-> t + TcbSize, block_offset |-> t - d, tp_offset |-> t]
  BY DEF PlaceX86, d
<1>. HIDE DEF t, p
<1>5. t % align = 0
  <2>1. CASE align <= PtrAlign
    BY <1>1, <1>3, <2>1, MultipleOfMultiple
  <2>2. CASE PtrAlign <= align
    <3>1. d % PtrAlign = 0
      BY <1>1, <1>2, <2>2, MultipleOfMultiple
    <3>2. t = d
      <4>1. t \in Int /\ d \in Int /\ d < t + PtrAlign
        BY <1>1, <1>2, <1>3, SMTT(30)
      <4>. QED
        BY ONLY <1>1, <1>3, <3>1, <4>1, OneMultiple, ZenonT(30)
    <3>. QED
      BY <1>2, <3>2
  <2>. QED
    BY <1>1, <2>1, <2>2, SMTT(30)
<1>6. (t - d) % align = 0
  <2>1. t \in Int /\ d \in Int
    BY <1>2, <1>3
  <2>. QED
    BY ONLY <1>1, <1>2, <1>5, <2>1, SumOfMultiples, ZenonT(30)
<1>7. /\ t - d \in Nat /\ t + TcbSize \in Nat /\ t - d + size <= t /\ t - (t - d) = d
      /\ t - d + size <= t + TcbSize
  BY ONLY <1>1, <1>2, <1>3, size \in Nat, SMTT(30)
<1>8. /\ p.length = t + TcbSize /\ p.block_offset = t - d /\ p.tp_offset = t
  BY ONLY <1>4
<1>9. t + TcbSize <= t + TcbSize
  BY <1>7, SMTT(30)
<1>10. arch # "aarch64"
  OBVIOUS
<1>. QED
  BY ONLY <1>2, <1>3, <1>6, <1>7, <1>8, <1>9, <1>10, ZenonT(30) DEF Placed, p

\* Variant 1: the block starts on its alignment above the TCB.
LEMMA PlacedAarch64 ==
  ASSUME NEW size \in Nat, NEW align, PowerOfTwo(align), arch = "aarch64",
         PlaceAarch64(size, align) # Null
  PROVE  Placed(PlaceAarch64(size, align), size, align)
<1>. DEFINE d == AlignDown(TcbSize + (align - 1), align)
            p == PlaceAarch64(size, align)
<1>1. align \in Nat \ {0} /\ PtrAlign \in Nat \ {0} /\ TcbSize \in Nat
  BY AlignmentsDivide, PtrAlignAssumption, WordAssumption
<1>2. d \in Nat /\ d % align = 0 /\ TcbSize <= d /\ d = LeastMultiple(TcbSize, align)
  BY ZenonT(60), <1>1, AlignedUp
<1>3. p = [length |-> d + size, block_offset |-> d, tp_offset |-> 0]
  BY DEF PlaceAarch64
<1>. HIDE DEF d, p
<1>4. p.length = d + size /\ p.block_offset = d /\ p.tp_offset = 0
  BY ONLY <1>3
<1>5. 0 % PtrAlign = 0
  BY <1>1, SmallRemainder, SMTT(30)
<1>6. /\ d + size \in Nat /\ 0 \in Nat /\ d + size <= d + size
      /\ 0 + TcbSize <= d + size /\ 0 + TcbSize <= d /\ d - 0 = d
  <2>1. d \in Nat /\ TcbSize <= d /\ TcbSize \in Nat
    BY <1>1, <1>2
  <2>. QED
    BY ONLY <2>1, size \in Nat, SMTT(30)
<1>7. arch # "x86_64"
  OBVIOUS
<1>. QED
  BY ONLY <1>2, <1>4, <1>5, <1>6, <1>7, ZenonT(30) DEF Placed, p

\* The layout that is cached.
LayoutGood(l) ==
  /\ l.image_size \in Nat /\ l.block_size \in Nat /\ l.image_size <= l.block_size
  /\ PowerOfTwo(l.alignment)

\* Where b lies, for the layout l: in its own mapping, and where compiled code
\* looks for it.
BlockFits(b, l) ==
  /\ b \in ThreadLocalBlock /\ b.length > 0
  /\ Page <= b.start /\ b.start + b.length <= Word
  /\ b.start <= b.block /\ b.block + l.block_size <= b.start + b.length
  /\ b.start <= b.thread_pointer /\ b.thread_pointer + TcbSize <= b.start + b.length
  /\ \/ b.block + l.block_size <= b.thread_pointer
     \/ b.thread_pointer + TcbSize <= b.block
  /\ b.block % l.alignment = 0 /\ b.thread_pointer % PtrAlign = 0
  /\ arch = "x86_64" =>
       b.thread_pointer - b.block = LeastMultiple(l.block_size, l.alignment)
  /\ arch = "aarch64" =>
       b.block - b.thread_pointer = LeastMultiple(TcbSize, l.alignment)

\* What creation makes of a mapping lies as it should.
LEMMA CreatedFits ==
  ASSUME NEW l, LayoutGood(l), arch \in {"x86_64", "aarch64"}, ~NoPlace(l),
         NEW start \in Nat, Page <= start, start + MappingLength(l) <= Word
  PROVE  BlockFits(BlockAt(l, start, MappingLength(l)), l) /\ MappingLength(l) \in Nat \ {0}
<1>. DEFINE size == l.block_size
            align == l.alignment
            p == Place(size, align)
            A == BaseAlignment(l)
            base == AlignDown(start + (A - 1), A)
            length == MappingLength(l)
            b == BlockAt(l, start, length)
<1>1. /\ size \in Nat /\ PowerOfTwo(align) /\ p # Null
  BY DEF LayoutGood, NoPlace
<1>2. Placed(p, size, align)
  BY <1>1, PlacedX86, PlacedAarch64 DEF Place
<1>3. length = p.length + (A - 1)
  BY DEF MappingLength
<1>4. b = [start |-> start, length |-> length, block |-> base + p.block_offset,
           thread_pointer |-> base + p.tp_offset]
  BY DEF BlockAt
<1>5. /\ align \in Nat \ {0} /\ PtrAlign \in Nat \ {0} /\ TcbSize \in Nat \ {0}
      /\ PtrAlign <= align => align % PtrAlign = 0
      /\ align <= PtrAlign => PtrAlign % align = 0
  BY SMTT(30), <1>1, AlignmentsDivide, PtrAlignAssumption, WordAssumption
<1>6. A = (IF align < PtrAlign THEN PtrAlign ELSE align) /\ A \in Nat \ {0}
  BY <1>5 DEF BaseAlignment
<1>7. base \in Nat /\ base % A = 0 /\ start <= base /\ base < start + A
  BY ZenonT(60), <1>6, AlignedUp
<1>. HIDE DEF p, A, base, length, b, size, align
<1>8. base % align = 0 /\ base % PtrAlign = 0
  <2>1. CASE align < PtrAlign
    <3>1. A = PtrAlign /\ PtrAlign % align = 0
      BY <1>5, <1>6, <2>1, SMTT(30)
    <3>2. base \in Int
      BY <1>7
    <3>3. base % PtrAlign = 0
      BY <1>7, <3>1
    <3>. QED
      BY ONLY <1>5, <3>1, <3>2, <3>3, MultipleOfMultiple, ZenonT(30)
  <2>2. CASE ~(align < PtrAlign)
    <3>1. A = align /\ align % PtrAlign = 0
      BY <1>5, <1>6, <2>2, SMTT(30)
    <3>2. base \in Int
      BY <1>7
    <3>3. base % align = 0
      BY <1>7, <3>1
    <3>. QED
      BY ONLY <1>5, <3>1, <3>2, <3>3, MultipleOfMultiple, ZenonT(30)
  <2>. QED
    BY <2>1, <2>2
<1>9. /\ p.length \in Nat /\ p.block_offset \in Nat /\ p.tp_offset \in Nat
      /\ p.block_offset % align = 0 /\ p.tp_offset % PtrAlign = 0
      /\ p.block_offset + size <= p.length /\ p.tp_offset + TcbSize <= p.length
      /\ \/ p.block_offset + size <= p.tp_offset
         \/ p.tp_offset + TcbSize <= p.block_offset
  BY <1>2 DEF Placed
<1>10. /\ (base + p.block_offset) % align = 0
       /\ (base + p.tp_offset) % PtrAlign = 0
  <2>1. base \in Int /\ p.block_offset \in Int /\ p.tp_offset \in Int
    BY <1>7, <1>9
  <2>. QED
    BY ONLY <1>5, <1>8, <1>9, <2>1, SumOfMultiples, ZenonT(30)
<1>11. /\ b.start = start /\ b.length = length /\ b.block = base + p.block_offset
       /\ b.thread_pointer = base + p.tp_offset
  BY ONLY <1>4
<1>12. /\ length \in Nat \ {0} /\ base + p.block_offset \in Nat /\ base + p.tp_offset \in Nat
       /\ start <= base + p.block_offset /\ base + p.block_offset + size <= start + length
       /\ start <= base + p.tp_offset /\ base + p.tp_offset + TcbSize <= start + length
       /\ \/ base + p.block_offset + size <= base + p.tp_offset
          \/ base + p.tp_offset + TcbSize <= base + p.block_offset
       /\ (base + p.tp_offset) - (base + p.block_offset) = p.tp_offset - p.block_offset
       /\ (base + p.block_offset) - (base + p.tp_offset) = p.block_offset - p.tp_offset
  BY ONLY <1>1, <1>3, <1>5, <1>6, <1>7, <1>9, start \in Nat, SMTT(30)
<1>13. b \in ThreadLocalBlock
  BY ONLY <1>4, <1>12, start \in Nat DEF ThreadLocalBlock
<1>14. start + length <= Word
  BY DEF length
<1>15. length > 0
  BY <1>12, SMTT(30)
<1>16. /\ arch = "x86_64" => b.thread_pointer - b.block = LeastMultiple(size, align)
       /\ arch = "aarch64" => b.block - b.thread_pointer = LeastMultiple(TcbSize, align)
  BY <1>2, <1>11, <1>12, ZenonT(30) DEF Placed
<1>. QED
  BY <1>10, <1>11, <1>12, <1>13, <1>14, <1>15, <1>16, ZenonT(30)
     DEF BlockFits, b, length, size, align

\* The base of a block can be raised in every range that mmap returns: the check of
\* thread_local.c:134 never fails.
LEMMA RaiseFits ==
  ASSUME NEW l, LayoutGood(l), arch \in {"x86_64", "aarch64"}, ~NoPlace(l),
         NEW start \in Nat, start + MappingLength(l) <= Word
  PROVE  ~Overflows(start + (BaseAlignment(l) - 1))
<1>. DEFINE p == Place(l.block_size, l.alignment)
            A == BaseAlignment(l)
<1>1. l.block_size \in Nat /\ PowerOfTwo(l.alignment) /\ p # Null
  BY DEF LayoutGood, NoPlace
<1>2. Placed(p, l.block_size, l.alignment)
  BY <1>1, PlacedX86, PlacedAarch64 DEF Place
<1>3. TcbSize \in Nat \ {0} /\ PtrAlign \in Nat \ {0} /\ l.alignment \in Nat \ {0}
  BY SMTT(30), <1>1, AlignmentsDivide, PtrAlignAssumption, WordAssumption
<1>4. p.length \in Nat /\ p.tp_offset \in Nat /\ p.tp_offset + TcbSize <= p.length
  BY <1>2 DEF Placed
<1>5. A \in Nat \ {0}
  BY <1>3 DEF BaseAlignment
<1>6. start + (p.length + (A - 1)) <= Word /\ Word \in Nat
  BY WordAssumption, PowerAssumption, SMTT(30) DEF MappingLength, Word
<1>. HIDE DEF p, A
<1>7. ~(start + (A - 1) >= Word)
  BY ONLY <1>3, <1>4, <1>5, <1>6, start \in Nat, SMTT(30)
<1>. QED
  BY <1>7 DEF Overflows, A

\* What the program headers are decoded to.
LEMMA DecodedGood ==
  ASSUME exe \in Images, layout # Null => LayoutGood(layout), Layout # Null
  PROVE  LayoutGood(Layout)
<1>1. CASE layout # Null
  BY <1>1 DEF Layout
<1>2. CASE layout = Null /\ TlsSegments = {}
  <2>1. Layout = [image |-> Null, image_size |-> 0, block_size |-> 0, alignment |-> 1]
    BY <1>2 DEF Layout
  <2>2. 0 \in 0 .. Bits - 1 /\ 1 = 2^0
    BY WordAssumption, SMTT(30)
  <2>3. PowerOfTwo(1)
    BY ZenonT(60), <2>2 DEF PowerOfTwo
  <2>. QED
    BY <2>1, <2>3, SMTT(30) DEF LayoutGood
<1>3. CASE layout = Null /\ TlsSegments # {}
  <2>. DEFINE i == CHOOSE i \in TlsSegments : TRUE
              s == exe.headers[i]
  <2>1. i \in TlsSegments
    BY <1>3
  <2>2. Layout = LayoutOf(s) /\ SegmentOk(s)
    BY <1>3 DEF Layout
  <2>. HIDE DEF i
  <2>3. s.filesz \in Nat /\ s.memsz \in Nat
    BY <2>1, ImagesAssumption DEF TlsSegments
  <2>. QED
    BY <2>2, <2>3 DEF LayoutOf, SegmentOk, LayoutGood
<1>. QED
  BY <1>1, <1>2, <1>3

-----------------------------------------------------------------------------
(* Where a record lies.                                                    *)

\* The geometry of a fiber's stack.
StackFits(x) ==
  /\ x \in FiberMemoryRecord /\ x.stack_length > 0
  /\ x.stack <= x.sp /\ x.sp <= x.record /\ x.record + RecordSize <= x.stack + x.stack_length
  /\ x.record % RecordAlign = 0 /\ x.sp % StackAlign = 0

\* Spawning makes of a mapping what it should.
LEMMA SpawnedFits ==
  ASSUME NEW start \in Nat, NEW length \in Nat, start % Page = 0, HoldsRecord(length)
  PROVE  StackFits([stack |-> start, stack_length |-> length,
                    record |-> RecordAt(start, length), sp |-> StackTop(start, length)])
<1>. DEFINE r == RecordAt(start, length)
            t == StackTop(start, length)
            x == [stack |-> start, stack_length |-> length, record |-> r, sp |-> t]
            top == start + length - RecordSize
<1>1. /\ RecordSize \in Nat /\ RecordAlign \in Nat \ {0} /\ StackAlign \in Nat \ {0}
      /\ Page \in Nat \ {0} /\ Page % RecordAlign = 0 /\ Page % StackAlign = 0
  BY RecordAssumption, WordAssumption
<1>2. start % RecordAlign = 0 /\ start % StackAlign = 0
  <2>1. start \in Int
    OBVIOUS
  <2>. QED
    BY ONLY <1>1, <2>1, start % Page = 0, MultipleOfMultiple, ZenonT(30)
<1>3. length > RecordSize
  BY DEF HoldsRecord
<1>4. top \in Nat /\ start <= top /\ length > 0
  BY ONLY <1>1, <1>3, start \in Nat, length \in Nat, SMTT(30)
<1>5. r = AlignDown(top, RecordAlign) /\ t = AlignDown(r, StackAlign)
  BY DEF RecordAt, StackTop
<1>. HIDE DEF r, t
<1>6. r \in Nat /\ r % RecordAlign = 0 /\ r <= top /\ start <= r
  BY SMTT(30), <1>1, <1>2, <1>4, <1>5, AlignedDown
<1>7. t \in Nat /\ t % StackAlign = 0 /\ t <= r /\ start <= t
  BY SMTT(30), <1>1, <1>2, <1>5, <1>6, AlignedDown
<1>8. r + RecordSize <= start + length
  BY ONLY <1>1, <1>4, <1>6, start \in Nat, length \in Nat, SMTT(30)
<1>9. x \in FiberMemoryRecord /\ x.stack = start /\ x.stack_length = length
      /\ x.record = r /\ x.sp = t
  BY <1>6, <1>7 DEF FiberMemoryRecord
<1>. HIDE DEF x
<1>10. StackFits(x)
  BY ONLY <1>4, <1>6, <1>7, <1>8, <1>9, ZenonT(30) DEF StackFits
<1>. QED
  BY <1>10 DEF x, r, t

-----------------------------------------------------------------------------
(* Who holds which mapping, for any set of holders P, the mapping M[h] of  *)
(* each and the mappings there are.                                        *)

Mapping == [start : Nat, length : Nat \ {0}]

Apart(m, n) == m.start + m.length <= n.start \/ n.start + n.length <= m.start

Held(P, M, maps) ==
  /\ maps \subseteq Mapping
  /\ \A h \in P : M[h] \in maps
  /\ \A h, k \in P : h # k => Apart(M[h], M[k])

AllHeld(P, M, maps) == \A m \in maps : \E h \in P : M[h] = m

\* A mapping that lies apart from another is another.
LEMMA ApartDiffers ==
  ASSUME NEW m \in Mapping, NEW n \in Mapping, Apart(m, n)
  PROVE  m # n
BY SMTT(30) DEF Mapping, Apart

\* Mappings without a byte in common lie apart.
LEMMA DisjointApart ==
  ASSUME NEW m \in Mapping, NEW n \in Mapping, Bytes(m) \cap Bytes(n) = {}
  PROVE  Apart(m, n) /\ Apart(n, m)
<1>1. /\ m.start \in Nat /\ m.length \in Nat \ {0} /\ n.start \in Nat /\ n.length \in Nat \ {0}
  BY DEF Mapping
<1>. DEFINE x == IF m.start <= n.start THEN n.start ELSE m.start
<1>2. x \notin Bytes(m) \/ x \notin Bytes(n)
  BY SMTT(30)
<1>. QED
  BY <1>1, <1>2, SMTT(30) DEF Apart, Bytes, Interval

\* A holder is added with a mapping that was free.
LEMMA HolderAdded ==
  ASSUME NEW P, NEW M, NEW maps, Held(P, M, maps), NEW h, h \notin P, NEW m \in Mapping,
         \A n \in maps : Bytes(n) \cap Bytes(m) = {},
         NEW N, \A k \in P : N[k] = M[k], N[h] = m
  PROVE  /\ Held(P \cup {h}, N, maps \cup {m})
         /\ AllHeld(P, M, maps) => AllHeld(P \cup {h}, N, maps \cup {m})
<1>1. \A n \in maps : Apart(n, m) /\ Apart(m, n)
  BY DisjointApart DEF Held
<1>2. \A k, l \in P \cup {h} : k # l => Apart(N[k], N[l])
  BY <1>1 DEF Held
<1>3. \A k \in P \cup {h} : N[k] \in maps \cup {m}
  BY DEF Held
<1>4. maps \cup {m} \subseteq Mapping
  BY DEF Held
<1>5. AllHeld(P, M, maps) => AllHeld(P \cup {h}, N, maps \cup {m})
  BY DEF AllHeld
<1>. QED
  BY SMTT(30), <1>2, <1>3, <1>4, <1>5 DEF Held

\* A holder goes, with its mapping or without.
LEMMA HolderGone ==
  ASSUME NEW P, NEW M, NEW maps, Held(P, M, maps), NEW h \in P,
         NEW N, \A k \in P \ {h} : N[k] = M[k]
  PROVE  /\ Held(P \ {h}, N, maps) /\ Held(P \ {h}, N, maps \ {M[h]})
         /\ AllHeld(P, M, maps) => AllHeld(P \ {h}, N, maps \ {M[h]})
<1>1. \A k \in P \ {h} : N[k] # M[h]
  BY ApartDiffers DEF Held
<1>2. Held(P \ {h}, N, maps) /\ Held(P \ {h}, N, maps \ {M[h]})
  BY <1>1 DEF Held
<1>3. AllHeld(P, M, maps) => AllHeld(P \ {h}, N, maps \ {M[h]})
  BY DEF AllHeld
<1>. QED
  BY <1>2, <1>3

\* As many mappings as holders.
LEMMA HoldersCounted ==
  ASSUME NEW P, IsFiniteSet(P), NEW M, NEW maps, Held(P, M, maps), AllHeld(P, M, maps)
  PROVE  IsFiniteSet(maps) /\ Cardinality(maps) = Cardinality(P)
<1>. DEFINE f == [h \in P |-> M[h]]
<1>1. f \in [P -> maps]
  BY DEF Held
<1>2. \A h, k \in P : f[h] = f[k] => h = k
  BY ApartDiffers DEF Held
<1>3. \A m \in maps : \E h \in P : f[h] = m
  BY DEF AllHeld
<1>. HIDE DEF f
<1>4. f \in Bijection(P, maps)
  BY SMTT(30), <1>1, <1>2, <1>3 DEF Bijection, Injection, Surjection, IsInjective
<1>5. ExistsBijection(P, maps)
  BY SMTT(30), <1>4 DEF ExistsBijection
<1>. QED
  BY <1>5, FS_Bijection

-----------------------------------------------------------------------------
(* The invariant.                                                          *)

MemTyped ==
  /\ arch \in {"x86_64", "aarch64"} /\ exe \in Images /\ trapped \in BOOLEAN
  /\ block \in [Owners -> ThreadLocalBlock \cup {Null}]
  /\ fiber \in [Owners -> FiberMemoryRecord \cup {Null}]
  /\ call \in Calls \cup {Null}

\* The layout is decoded before the first block and lies behind every one.
Fitting ==
  /\ layout # Null => LayoutGood(layout)
  /\ Live # {} => layout # Null
  /\ \A o \in Live : BlockFits(block[o], layout)
  /\ \A o \in Spawned : StackFits(fiber[o])

\* Only the owner of the running call has a stack and no block.
Roles ==
  /\ Live \subseteq Spawned /\ IsFiniteSet(Spawned)
  /\ call # Null => call.owner \in Spawned \ Live
  /\ \A o \in Spawned \ Live : call # Null /\ call.owner = o
  /\ call # Null /\ call.fn = "spawn" => call.ok

\* The stacks and the blocks there are, and the mapping of each.
Holders == (Spawned \X {"stack"}) \cup (Live \X {"block"})

Maps ==
  [h \in Owners \X {"stack", "block"} |->
    IF h[2] = "stack" THEN StackMap(h[1])
    ELSE BlockMap(h[1])]

\* The mappings that no munmap failed to release.
Owned == mappings \ (lost \cup kept)

\* What could not be released is mapped still, and a destroy knows of its own.
Leaks ==
  /\ lost \cup kept \subseteq mappings
  /\ kept # {} <=> trapped \/ (call # Null /\ ~call.ok)

MemInv ==
  /\ MemTyped /\ Fitting /\ Roles /\ Leaks
  /\ Held(Holders, Maps, Owned) /\ AllHeld(Holders, Maps, Owned)

\* A stack comes, and a stack goes.
LEMMA StackChanges ==
  ASSUME MemTyped, NEW o \in Owners, NEW x \in FiberMemoryRecord \cup {Null},
         fiber' = [fiber EXCEPT ![o] = x], UNCHANGED block
  PROVE  /\ Live' = Live
         /\ x # Null => /\ Spawned' = Spawned \cup {o}
                        /\ Holders' = Holders \cup {<<o, "stack">>}
                        /\ Maps'[<<o, "stack">>] = [start |-> x.stack, length |-> x.stack_length]
         /\ x = Null => /\ Spawned' = Spawned \ {o}
                        /\ Holders' = Holders \ {<<o, "stack">>}
         /\ <<o, "stack">> \in Holders <=> o \in Spawned
         /\ \A k \in Holders \ {<<o, "stack">>} : Maps'[k] = Maps[k]
<1>1. fiber'[o] = x /\ \A q \in Owners \ {o} : fiber'[q] = fiber[q]
  BY DEF MemTyped
<1>2. Live' = Live
  BY DEF Live
<1>3. /\ x # Null => Spawned' = Spawned \cup {o}
      /\ x = Null => Spawned' = Spawned \ {o}
  BY <1>1 DEF Spawned
<1>4. Spawned \subseteq Owners /\ Live \subseteq Owners
  BY DEF Spawned, Live
<1>5. <<o, "stack">> \in Holders <=> o \in Spawned
  BY DEF Holders
<1>6. /\ x # Null => Holders' = Holders \cup {<<o, "stack">>}
      /\ x = Null => Holders' = Holders \ {<<o, "stack">>}
  BY SMTT(30), <1>2, <1>3 DEF Holders
<1>7. ASSUME NEW k \in Holders \ {<<o, "stack">>} PROVE Maps'[k] = Maps[k]
  <2>1. k \in Owners \X {"stack", "block"} /\ (k[2] = "stack" => k[1] # o)
    BY SMTT(30), <1>4, <1>7 DEF Holders
  <2>2. k[2] = "stack" => fiber'[k[1]] = fiber[k[1]]
    BY SMTT(30), <1>1, <2>1
  <2>. QED
    BY SMTT(30), <2>1, <2>2 DEF Maps, StackMap, BlockMap
<1>8. x # Null => Maps'[<<o, "stack">>] = [start |-> x.stack, length |-> x.stack_length]
  BY SMTT(30), <1>1 DEF Maps, StackMap, BlockMap
<1>. QED
  BY SMTT(30), <1>2, <1>3, <1>5, <1>6, <1>7, <1>8

\* A block comes, and a block goes.
LEMMA BlockChanges ==
  ASSUME MemTyped, NEW o \in Owners, NEW x \in ThreadLocalBlock \cup {Null},
         block' = [block EXCEPT ![o] = x], UNCHANGED fiber
  PROVE  /\ Spawned' = Spawned
         /\ x # Null => /\ Live' = Live \cup {o}
                        /\ Holders' = Holders \cup {<<o, "block">>}
                        /\ Maps'[<<o, "block">>] = [start |-> x.start, length |-> x.length]
         /\ x = Null => /\ Live' = Live \ {o}
                        /\ Holders' = Holders \ {<<o, "block">>}
         /\ <<o, "block">> \in Holders <=> o \in Live
         /\ \A k \in Holders \ {<<o, "block">>} : Maps'[k] = Maps[k]
<1>1. block'[o] = x /\ \A q \in Owners \ {o} : block'[q] = block[q]
  BY DEF MemTyped
<1>2. Spawned' = Spawned
  BY SMTT(30) DEF Spawned
<1>3. /\ x # Null => Live' = Live \cup {o}
      /\ x = Null => Live' = Live \ {o}
  BY <1>1 DEF Live
<1>4. Spawned \subseteq Owners /\ Live \subseteq Owners
  BY DEF Spawned, Live
<1>5. <<o, "block">> \in Holders <=> o \in Live
  BY DEF Holders
<1>6. /\ x # Null => Holders' = Holders \cup {<<o, "block">>}
      /\ x = Null => Holders' = Holders \ {<<o, "block">>}
  BY SMTT(30), <1>2, <1>3 DEF Holders
<1>7. ASSUME NEW k \in Holders \ {<<o, "block">>} PROVE Maps'[k] = Maps[k]
  <2>1. k \in Owners \X {"stack", "block"} /\ (k[2] # "stack" => k[1] # o)
    BY SMTT(30), <1>4, <1>7 DEF Holders
  <2>2. k[2] # "stack" => block'[k[1]] = block[k[1]]
    BY SMTT(30), <1>1, <2>1
  <2>. QED
    BY SMTT(30), <2>1, <2>2 DEF Maps, StackMap, BlockMap
<1>8. x # Null => Maps'[<<o, "block">>] = [start |-> x.start, length |-> x.length]
  BY SMTT(30), <1>1 DEF Maps, BlockMap
<1>. QED
  BY SMTT(30), <1>2, <1>3, <1>5, <1>6, <1>7, <1>8

\* What mmap returns.
LEMMA MappedFree ==
  ASSUME NEW start \in {Page * k : k \in 1 .. Word \div Page}, NEW length \in Nat \ {0},
         Free(start, length)
  PROVE  LET m == [start |-> start, length |-> length] IN
         /\ start \in Nat /\ start % Page = 0 /\ Page <= start /\ start + length <= Word
         /\ m \in Mapping /\ m \notin mappings
         /\ \A n \in mappings : Bytes(n) \cap Bytes(m) = {}
<1>1. start \in Nat
  <2>1. PICK k \in 1 .. Word \div Page : start = Page * k
    OBVIOUS
  <2>2. k \in Nat /\ Page \in Nat
    BY SMTT(30), WordAssumption
  <2>. QED
    BY <2>1, <2>2, SMTT(30)
<1>2. start % Page = 0 /\ Page <= start /\ start + length <= Word
  BY SMTT(30), <1>1, WordAssumption DEF Free
<1>3. [start |-> start, length |-> length] \in Mapping
  BY SMTT(30), <1>1 DEF Mapping
<1>4. Bytes([start |-> start, length |-> length]) = Interval(start, length)
  BY SMTT(60) DEF Bytes
<1>5. start \in Interval(start, length)
  BY <1>1, SMTT(30) DEF Interval
<1>6. \A n \in mappings : Bytes(n) \cap Bytes([start |-> start, length |-> length]) = {}
  BY SMTT(30), <1>4 DEF Free
<1>. QED
  BY ZenonT(60), <1>1, <1>2, <1>3, <1>4, <1>5, <1>6

-----------------------------------------------------------------------------
(* The steps.                                                              *)

\* The stack mapping of a spawn is a new one, which its owner now holds (fiber.c:41-57).
LEMMA SpawnMapsKeeps ==
  ASSUME MemInv, ~trapped, NEW o \in Owners, NEW length \in Lengths, SpawnMaps(o, length)
  PROVE  MemInv'
<1>1. PICK start \in {Page * k : k \in 1 .. Word \div Page} :
        /\ Free(start, length)
        /\ mappings' = mappings \cup {[start |-> start, length |-> length]}
        /\ fiber' = [fiber EXCEPT ![o] =
             [stack |-> start, stack_length |-> length,
              record |-> RecordAt(start, length), sp |-> StackTop(start, length)]]
  BY ZenonT(60) DEF SpawnMaps
<1>. DEFINE x == [stack |-> start, stack_length |-> length,
                  record |-> RecordAt(start, length), sp |-> StackTop(start, length)]
            c == [fn |-> "spawn", owner |-> o, ok |-> TRUE]
            m == [start |-> start, length |-> length]
            h == <<o, "stack">>
<1>2. /\ call = Null /\ fiber[o] = Null /\ HoldsRecord(length) /\ call' = c
      /\ UNCHANGED <<arch, exe, layout, block, trapped, lost, kept>>
  BY ZenonT(60) DEF SpawnMaps, leaks
<1>3. length \in Nat \ {0}
  <2>1. length \in Nat /\ RecordSize \in Nat /\ length > RecordSize
    BY SMTT(60), <1>2, RecordAssumption DEF HoldsRecord
  <2>. QED
    BY ONLY <2>1, SMTT(30)
<1>4. /\ start \in Nat /\ start % Page = 0
      /\ m \in Mapping /\ m \notin mappings
      /\ \A n \in mappings : Bytes(n) \cap Bytes(m) = {}
  BY ZenonT(60), <1>1, <1>3, MappedFree
<1>5. StackFits(x)
  BY ZenonT(60), <1>2, <1>3, <1>4, SpawnedFits
<1>6. x.stack = start /\ x.stack_length = length
  BY ZenonT(60)
<1>. HIDE DEF x
<1>7. x \in FiberMemoryRecord /\ x # Null
  BY <1>5, NoFiberAssumption DEF StackFits
<1>8. c \in Calls /\ c # Null /\ c.owner = o /\ c.ok
  <2>1. c \in Calls /\ c.owner = o
    BY SMTT(30) DEF Calls
  <2>2. c.ok = TRUE
    BY ZenonT(30)
  <2>. QED
    BY <2>1, <2>2, NoFiberAssumption, ZenonT(30)
<1>. HIDE DEF c
<1>9. /\ MemTyped /\ Fitting /\ Roles /\ Leaks
      /\ Held(Holders, Maps, Owned) /\ AllHeld(Holders, Maps, Owned)
  BY SMTT(60) DEF MemInv
<1>10. /\ Live' = Live /\ Spawned' = Spawned \cup {o}
       /\ Holders' = Holders \cup {h} /\ Maps'[h] = [start |-> x.stack, length |-> x.stack_length]
       /\ h \in Holders <=> o \in Spawned
       /\ \A k \in Holders \ {h} : Maps'[k] = Maps[k]
  BY ZenonT(60), <1>1, <1>2, <1>7, <1>9, StackChanges DEF x
<1>11. o \notin Spawned /\ o \notin Live
  BY <1>2, <1>9 DEF Spawned, Roles
<1>12. MemTyped'
  <2>1. /\ arch' = arch /\ exe' = exe /\ trapped' = trapped /\ block' = block
        /\ call' = c /\ fiber' = [fiber EXCEPT ![o] = x]
    BY ZenonT(60), <1>1, <1>2 DEF x
  <2>2. fiber' \in [Owners -> FiberMemoryRecord \cup {Null}]
    BY ONLY <1>7, <1>9, <2>1, o \in Owners, SMTT(30) DEF MemTyped
  <2>. QED
    BY ONLY <1>8, <1>9, <2>1, <2>2, ZenonT(60) DEF MemTyped
<1>13. fiber'[o] = x /\ \A q \in Owners \ {o} : fiber'[q] = fiber[q]
  BY ZenonT(60), <1>1, <1>9 DEF MemTyped, x
<1>14. Fitting'
  <2>1. \A q \in Spawned' : StackFits(fiber'[q])
    BY ZenonT(60), <1>5, <1>9, <1>10, <1>13 DEF Fitting, Spawned
  <2>2. \A q \in Live' : BlockFits(block[q], layout)'
    BY ZenonT(60), <1>2, <1>9, <1>10 DEF Fitting, BlockFits
  <2>3. (layout # Null => LayoutGood(layout))' /\ (Live # {} => layout # Null)'
    BY ZenonT(60), <1>2, <1>9, <1>10 DEF Fitting
  <2>. QED
    BY SMTT(60), <2>1, <2>2, <2>3 DEF Fitting, StackFits
<1>15. Roles'
  <2>1. IsFiniteSet(Spawned')
    BY ZenonT(60), <1>9, <1>10, FS_AddElement DEF Roles
  <2>. QED
    BY ZenonT(60), <1>2, <1>8, <1>9, <1>10, <1>11, <2>1 DEF Roles
<1>16. /\ Held(Holders \cup {h}, Maps', Owned \cup {m})
       /\ AllHeld(Holders \cup {h}, Maps', Owned \cup {m})
  <2>1. h \notin Holders /\ Maps'[h] = m /\ \A k \in Holders : Maps'[k] = Maps[k]
    BY ZenonT(60), <1>6, <1>10, <1>11
  <2>2. m \in Mapping /\ \A n \in Owned : Bytes(n) \cap Bytes(m) = {}
    BY <1>4, ZenonT(60) DEF Owned
  <2>. QED
    BY ONLY <1>9, <2>1, <2>2, HolderAdded, ZenonT(60)
<1>17. Owned' = Owned \cup {m} /\ Leaks'
  <2>1. /\ mappings' = mappings \cup {m} /\ lost' = lost /\ kept' = kept
        /\ lost \cup kept \subseteq mappings /\ m \notin mappings
    BY ZenonT(60), <1>1, <1>2, <1>4, <1>9 DEF Leaks
  <2>2. (kept # {} <=> trapped \/ (call # Null /\ ~call.ok))'
    BY ZenonT(60), <1>2, <1>8, <1>9 DEF Leaks, Roles
  <2>. QED
    BY ONLY <2>1, <2>2, ZenonT(60) DEF Owned, Leaks
<1>. QED
  <2>1. Held(Holders, Maps, Owned)'
    BY ZenonT(60), <1>10, <1>16, <1>17 DEF Held
  <2>2. AllHeld(Holders, Maps, Owned)'
    BY ZenonT(60), <1>10, <1>16, <1>17 DEF AllHeld
  <2>. QED
    BY ONLY <1>12, <1>14, <1>15, <1>17, <2>1, <2>2, ZenonT(60) DEF MemInv

\* A block created over free memory fits its mapping, which its owner now holds
\* (fiber.c:64-75, thread_local.c:99-160).
LEMMA SpawnDoneKeeps ==
  ASSUME MemInv, ~trapped, NEW o \in Owners, SpawnDone(o)
  PROVE  MemInv'
<1>. DEFINE l == Layout
            length == MappingLength(l)
            h == <<o, "block">>
<1>0. call # Null /\ call.fn = "spawn" /\ call.owner = o /\ Create(o) /\ call' = Null
      /\ UNCHANGED <<fiber, trapped, lost, kept>>
  BY SMTT(60) DEF SpawnDone, leaks
<1>1. block[o] = Null /\ layout' = l /\ ~NoPlace(l) /\ UNCHANGED <<arch, exe>>
  BY ZenonT(60), <1>0 DEF Create
<1>2. PICK start \in {Page * k : k \in 1 .. Word \div Page} :
        /\ Free(start, length)
        /\ mappings' = mappings \cup {[start |-> start, length |-> length]}
        /\ block' = [block EXCEPT ![o] = BlockAt(l, start, length)]
  BY ZenonT(60), <1>0 DEF Create
<1>. DEFINE b == BlockAt(l, start, length)
            m == [start |-> start, length |-> length]
<1>3. b.start = start /\ b.length = length
  BY DEF BlockAt
<1>4. /\ MemTyped /\ Fitting /\ Roles /\ Leaks
      /\ Held(Holders, Maps, Owned) /\ AllHeld(Holders, Maps, Owned)
  BY SMTT(60) DEF MemInv
<1>5. l # Null /\ LayoutGood(l) /\ (layout # Null => l = layout)
  BY ZenonT(60), <1>1, <1>4, DecodedGood DEF NoPlace, Fitting, MemTyped, Layout
<1>. HIDE DEF l
<1>6. start \in Nat /\ Page <= start /\ start + length <= Word
  <2>1. PICK k \in 1 .. Word \div Page : start = Page * k
    BY SMTT(30)
  <2>2. k \in Nat /\ Page \in Nat
    BY SMTT(30), WordAssumption
  <2>3. start \in Nat
    BY <2>1, <2>2, SMTT(60)
  <2>. QED
    BY ZenonT(60), <1>2, <2>2, <2>3 DEF Free
<1>7. BlockFits(b, l) /\ length \in Nat \ {0}
  BY SMTT(60), <1>1, <1>4, <1>5, <1>6, CreatedFits DEF MemTyped
<1>. HIDE DEF length, b
<1>8. /\ m \in Mapping /\ m \notin mappings
      /\ \A n \in mappings : Bytes(n) \cap Bytes(m) = {}
  BY ZenonT(60), <1>2, <1>7, MappedFree
<1>9. b \in ThreadLocalBlock /\ b # Null
  BY SMTT(60), <1>7, NoBlockAssumption DEF BlockFits
<1>10. /\ Spawned' = Spawned /\ Live' = Live \cup {o}
       /\ Holders' = Holders \cup {h} /\ Maps'[h] = [start |-> b.start, length |-> b.length]
       /\ h \in Holders <=> o \in Live
       /\ \A k \in Holders \ {h} : Maps'[k] = Maps[k]
  BY ZenonT(60), <1>0, <1>2, <1>4, <1>9, BlockChanges DEF b
<1>11. o \notin Live /\ o \in Spawned
  BY ZenonT(60), <1>0, <1>1, <1>4 DEF Live, Roles
<1>12. MemTyped'
  BY ZenonT(60), <1>0, <1>1, <1>2, <1>4, <1>9 DEF MemTyped, b
<1>13. block'[o] = b /\ \A q \in Owners \ {o} : block'[q] = block[q]
  BY ZenonT(60), <1>2, <1>4 DEF MemTyped, b
<1>14. Fitting'
  <2>1. ASSUME NEW q \in Live' PROVE BlockFits(block[q], layout)'
    <3>1. BlockFits(block'[q], l)
      <4>1. CASE q = o
        BY ZenonT(60), <1>7, <1>13, <4>1
      <4>2. CASE q # o
        <5>1. q \in Live /\ q \in Owners
          BY ZenonT(60), <1>10, <4>2 DEF Live
        <5>2. l = layout
          BY ZenonT(60), <1>4, <1>5, <5>1 DEF Fitting
        <5>. QED
          BY ZenonT(60), <1>4, <1>13, <4>2, <5>1, <5>2 DEF Fitting
      <4>. QED
        BY SMTT(60), <4>1, <4>2
    <3>. QED
      BY ZenonT(60), <1>1, <3>1 DEF BlockFits
  <2>2. \A q \in Spawned' : StackFits(fiber[q])'
    BY ZenonT(60), <1>0, <1>4, <1>10 DEF Fitting, StackFits
  <2>3. (layout # Null => LayoutGood(layout))' /\ (Live # {} => layout # Null)'
    BY ZenonT(60), <1>1, <1>5 DEF LayoutGood
  <2>. QED
    BY SMTT(60), <2>1, <2>2, <2>3 DEF Fitting
<1>15. Roles'
  BY ZenonT(60), <1>0, <1>4, <1>10, <1>11 DEF Roles
<1>16. /\ Held(Holders \cup {h}, Maps', Owned \cup {m})
       /\ AllHeld(Holders \cup {h}, Maps', Owned \cup {m})
  <2>1. h \notin Holders /\ Maps'[h] = m /\ \A k \in Holders : Maps'[k] = Maps[k]
    BY ZenonT(60), <1>3, <1>10, <1>11
  <2>2. m \in Mapping /\ \A n \in Owned : Bytes(n) \cap Bytes(m) = {}
    BY <1>8, ZenonT(60) DEF Owned
  <2>. QED
    BY ONLY <1>4, <2>1, <2>2, HolderAdded, ZenonT(60)
<1>17. Owned' = Owned \cup {m} /\ Leaks'
  <2>1. /\ mappings' = mappings \cup {m} /\ lost' = lost /\ kept' = kept
        /\ lost \cup kept \subseteq mappings /\ m \notin mappings
    BY ZenonT(60), <1>0, <1>2, <1>4, <1>8 DEF Leaks
  <2>2. (kept # {} <=> trapped \/ (call # Null /\ ~call.ok))'
    BY ZenonT(60), <1>0, <1>4 DEF Leaks, Roles
  <2>. QED
    BY ONLY <2>1, <2>2, ZenonT(60) DEF Owned, Leaks
<1>. QED
  <2>1. Held(Holders, Maps, Owned)'
    BY ZenonT(60), <1>10, <1>16, <1>17 DEF Held
  <2>2. AllHeld(Holders, Maps, Owned)'
    BY ZenonT(60), <1>10, <1>16, <1>17 DEF AllHeld
  <2>. QED
    BY ONLY <1>12, <1>14, <1>15, <1>17, <2>1, <2>2, ZenonT(60) DEF MemInv

\* A spawn without a block gives its stack mapping back, or loses it (fiber.c:64-67).
LEMMA SpawnUndoneKeeps ==
  ASSUME MemInv, ~trapped, NEW o \in Owners, SpawnUndone(o)
  PROVE  MemInv'
<1>. DEFINE h == <<o, "stack">>
<1>1. /\ call # Null /\ call.fn = "spawn" /\ call.owner = o /\ call' = Null
      /\ layout' = Layout /\ fiber' = [fiber EXCEPT ![o] = Null]
      /\ \/ mappings' = mappings \ {StackMap(o)} /\ lost' = lost
         \/ lost' = lost \cup {StackMap(o)} /\ mappings' = mappings
      /\ UNCHANGED <<arch, exe, block, trapped, kept>>
  BY SMTT(30) DEF SpawnUndone
<1>2. /\ MemTyped /\ Fitting /\ Roles /\ Leaks
      /\ Held(Holders, Maps, Owned) /\ AllHeld(Holders, Maps, Owned)
  BY SMTT(30) DEF MemInv
<1>3. o \in Spawned /\ o \notin Live
  BY SMTT(60), <1>1, <1>2 DEF Roles
<1>4. /\ Live' = Live /\ Spawned' = Spawned \ {o} /\ Holders' = Holders \ {h}
      /\ h \in Holders /\ \A k \in Holders \ {h} : Maps'[k] = Maps[k]
  BY ZenonT(60), <1>1, <1>2, <1>3, StackChanges
<1>5. Maps[h] = StackMap(o)
  BY DEF Maps
<1>6. MemTyped'
  BY <1>1, <1>2 DEF MemTyped
<1>7. /\ layout' # Null => LayoutGood(layout')
      /\ layout # Null => layout' = layout
  BY ZenonT(60), <1>1, <1>2, DecodedGood DEF Fitting, MemTyped, Layout
<1>8. Fitting'
  <2>1. \A q \in Live' : BlockFits(block[q], layout)'
    BY ZenonT(60), <1>1, <1>2, <1>4, <1>7 DEF Fitting, BlockFits
  <2>2. \A q \in Owners \ {o} : fiber'[q] = fiber[q]
    BY SMTT(60), <1>1, <1>2 DEF MemTyped
  <2>3. \A q \in Spawned' : StackFits(fiber'[q])
    BY ZenonT(60), <1>2, <1>4, <2>2 DEF Fitting, Spawned
  <2>. QED
    BY ZenonT(60), <1>2, <1>4, <1>7, <2>1, <2>3 DEF Fitting, StackFits, LayoutGood
<1>9. Roles'
  <2>1. IsFiniteSet(Spawned')
    BY ZenonT(60), <1>2, <1>4, FS_RemoveElement DEF Roles
  <2>. QED
    BY ZenonT(60), <1>1, <1>2, <1>3, <1>4, <2>1 DEF Roles
<1>10. /\ Held(Holders \ {h}, Maps', Owned \ {Maps[h]})
       /\ AllHeld(Holders \ {h}, Maps', Owned \ {Maps[h]})
  BY ONLY <1>2, <1>4, HolderGone, ZenonT(60)
<1>11. Owned' = Owned \ {Maps[h]} /\ Leaks'
  <2>1. Maps[h] \in Owned
    BY ONLY <1>2, <1>4, ZenonT(60) DEF Held
  <2>2. Owned' = Owned \ {Maps[h]} /\ lost' \cup kept' \subseteq mappings'
    BY <1>1, <1>2, <1>5, <2>1, SMTT(60) DEF Owned, Leaks
  <2>3. (kept # {} <=> trapped \/ (call # Null /\ ~call.ok))'
    BY <1>1, <1>2, ZenonT(60) DEF Leaks, Roles
  <2>. QED
    BY ONLY <2>2, <2>3, ZenonT(60) DEF Leaks
<1>. QED
  <2>1. Held(Holders, Maps, Owned)'
    BY ZenonT(60), <1>4, <1>10, <1>11 DEF Held
  <2>2. AllHeld(Holders, Maps, Owned)'
    BY ZenonT(60), <1>4, <1>10, <1>11 DEF AllHeld
  <2>. QED
    BY ONLY <1>6, <1>8, <1>9, <1>11, <2>1, <2>2, ZenonT(60) DEF MemInv

\* The first half of a destroy gives the block's mapping back, or remembers that it
\* could not (fiber.c:77-79).
LEMMA DestroyBlockKeeps ==
  ASSUME MemInv, ~trapped, NEW o \in Owners, DestroyBlock(o)
  PROVE  MemInv'
<1>. DEFINE h == <<o, "block">>
            m == BlockMap(o)
<1>1. /\ call = Null /\ fiber[o] # Null /\ block' = [block EXCEPT ![o] = Null]
      /\ UNCHANGED <<arch, exe, layout, fiber, trapped, lost>>
      /\ \/ /\ call' = [fn |-> "destroy", owner |-> o, ok |-> TRUE]
            /\ mappings' = mappings \ {m} /\ kept' = kept
         \/ /\ call' = [fn |-> "destroy", owner |-> o, ok |-> FALSE]
            /\ mappings' = mappings /\ kept' = kept \cup {m}
  BY ZenonT(60) DEF DestroyBlock, Destroy, BlockMap
<1>2. /\ MemTyped /\ Fitting /\ Roles /\ Leaks
      /\ Held(Holders, Maps, Owned) /\ AllHeld(Holders, Maps, Owned)
  BY ZenonT(60) DEF MemInv
<1>3. o \in Spawned /\ o \in Live
  BY ZenonT(60), <1>1, <1>2 DEF Roles, Spawned
<1>4. /\ Spawned' = Spawned /\ Live' = Live \ {o} /\ Holders' = Holders \ {h}
      /\ h \in Holders /\ \A k \in Holders \ {h} : Maps'[k] = Maps[k]
  BY ZenonT(60), <1>1, <1>2, <1>3, BlockChanges
<1>5. Maps[h] = m
  BY DEF Maps
<1>6. call' \in Calls /\ call' # Null /\ call'.owner = o /\ call'.fn = "destroy"
  <2>0. PICK ok \in BOOLEAN : call' = [fn |-> "destroy", owner |-> o, ok |-> ok]
    BY <1>1, ZenonT(30)
  <2>1. call' \in Calls /\ call'.owner = o /\ call'.fn = "destroy"
    BY ONLY <2>0, o \in Owners, SMTT(30) DEF Calls
  <2>. QED
    BY <2>1, NoFiberAssumption, ZenonT(30)
<1>7. MemTyped'
  BY ZenonT(60), <1>1, <1>2, <1>6 DEF MemTyped
<1>8. Fitting'
  <2>1. \A q \in Owners \ {o} : block'[q] = block[q]
    BY SMTT(60), <1>1, <1>2 DEF MemTyped
  <2>2. \A q \in Live' : BlockFits(block'[q], layout)
    BY SMTT(60), <1>2, <1>4, <2>1 DEF Fitting, Live
  <2>3. \A q \in Live' : BlockFits(block[q], layout)'
    BY ZenonT(60), <1>1, <2>2 DEF BlockFits
  <2>4. \A q \in Spawned' : StackFits(fiber[q])'
    BY ZenonT(60), <1>1, <1>2, <1>4 DEF Fitting, StackFits
  <2>. QED
    BY ZenonT(60), <1>1, <1>2, <1>4, <2>3, <2>4 DEF Fitting, LayoutGood
<1>9. Roles'
  BY <1>1, <1>2, <1>3, <1>4, <1>6, ZenonT(60) DEF Roles
<1>10. /\ Held(Holders \ {h}, Maps', Owned \ {Maps[h]})
       /\ AllHeld(Holders \ {h}, Maps', Owned \ {Maps[h]})
  BY ONLY <1>2, <1>4, HolderGone, ZenonT(60)
<1>11. Owned' = Owned \ {Maps[h]} /\ Leaks'
  <2>1. Maps[h] \in Owned
    BY ONLY <1>2, <1>4, ZenonT(60) DEF Held
  <2>2. Owned' = Owned \ {Maps[h]} /\ lost' \cup kept' \subseteq mappings'
    BY <1>1, <1>2, <1>5, <2>1, SMTT(60) DEF Owned, Leaks
  <2>3. kept = {} /\ ~trapped'
    BY <1>1, <1>2, ZenonT(60) DEF Leaks
  <2>4. CASE call' = [fn |-> "destroy", owner |-> o, ok |-> TRUE] /\ kept' = kept
    <3>1. call'.ok = TRUE
      BY <2>4, ZenonT(30)
    <3>. QED
      BY <2>2, <2>3, <2>4, <3>1, ZenonT(30) DEF Leaks
  <2>5. CASE call' = [fn |-> "destroy", owner |-> o, ok |-> FALSE] /\ kept' = kept \cup {m}
    <3>1. call'.ok = FALSE
      BY <2>5, ZenonT(30)
    <3>. QED
      BY <1>6, <2>2, <2>5, <3>1, ZenonT(30) DEF Leaks
  <2>. QED
    BY <1>1, <2>4, <2>5, ZenonT(30)
<1>12. Held(Holders, Maps, Owned)' /\ AllHeld(Holders, Maps, Owned)'
  BY ZenonT(60), <1>4, <1>10, <1>11 DEF Held, AllHeld
<1>. QED
  BY SMTT(60), <1>7, <1>8, <1>9, <1>11, <1>12 DEF MemInv

\* The second half gives the stack's mapping back, or the caller traps (fiber.c:83-88).
LEMMA DestroyStackKeeps ==
  ASSUME MemInv, ~trapped, DestroyStack
  PROVE  MemInv'
<1>. DEFINE o == call.owner
            h == <<o, "stack">>
<1>1. PICK released \in BOOLEAN :
        /\ mappings' = IF released THEN mappings \ {StackMap(o)} ELSE mappings
        /\ kept' = IF released THEN kept ELSE kept \cup {StackMap(o)}
        /\ trapped' = ~Reported(released)
  BY SMTT(30) DEF DestroyStack
<1>2. /\ call # Null /\ call.fn = "destroy" /\ fiber' = [fiber EXCEPT ![o] = Null]
      /\ call' = Null /\ UNCHANGED <<arch, exe, layout, block, lost>>
  BY DEF DestroyStack
<1>3. /\ MemTyped /\ Fitting /\ Roles /\ Leaks
      /\ Held(Holders, Maps, Owned) /\ AllHeld(Holders, Maps, Owned)
  BY SMTT(30) DEF MemInv
<1>4. o \in Spawned /\ o \notin Live /\ o \in Owners
  BY SMTT(60), <1>2, <1>3 DEF Roles, Spawned
<1>. HIDE DEF o
<1>5. /\ Live' = Live /\ Spawned' = Spawned \ {o} /\ Holders' = Holders \ {h}
      /\ h \in Holders /\ \A k \in Holders \ {h} : Maps'[k] = Maps[k]
  BY ZenonT(60), <1>2, <1>3, <1>4, StackChanges
<1>6. Maps[h] = StackMap(o)
  BY <1>4 DEF Maps
<1>7. MemTyped'
  <2>1. trapped' \in BOOLEAN
    BY <1>1
  <2>. QED
    BY ZenonT(60), <1>2, <1>3, <2>1 DEF MemTyped
<1>8. Fitting'
  <2>1. \A q \in Live' : BlockFits(block[q], layout)'
    BY ZenonT(60), <1>2, <1>3, <1>5 DEF Fitting, BlockFits
  <2>2. \A q \in Owners \ {o} : fiber'[q] = fiber[q]
    BY SMTT(60), <1>2, <1>3 DEF MemTyped
  <2>3. \A q \in Spawned' : StackFits(fiber'[q])
    BY ZenonT(60), <1>3, <1>5, <2>2 DEF Fitting, Spawned
  <2>. QED
    BY ZenonT(60), <1>2, <1>3, <1>5, <2>1, <2>3 DEF Fitting, StackFits, LayoutGood
<1>9. Roles'
  <2>1. IsFiniteSet(Spawned')
    BY ZenonT(60), <1>3, <1>5, FS_RemoveElement DEF Roles
  <2>2. Spawned' \ Live' = {}
    BY SMTT(30), <1>3, <1>5 DEF Roles, o
  <2>. QED
    BY ZenonT(60), <1>2, <1>3, <1>4, <1>5, <2>1, <2>2 DEF Roles
<1>10. /\ Held(Holders \ {h}, Maps', Owned \ {Maps[h]})
       /\ AllHeld(Holders \ {h}, Maps', Owned \ {Maps[h]})
  BY ONLY <1>3, <1>5, HolderGone, ZenonT(60)
<1>11. Owned' = Owned \ {Maps[h]} /\ Leaks'
  <2>1. Maps[h] \in Owned
    BY ONLY <1>3, <1>5, ZenonT(60) DEF Held
  <2>2. Owned' = Owned \ {Maps[h]} /\ lost' \cup kept' \subseteq mappings'
    BY <1>1, <1>2, <1>3, <1>6, <2>1, SMTT(60) DEF Owned, Leaks
  <2>3. kept # {} <=> ~call.ok
    BY <1>2, <1>3, ZenonT(60) DEF Leaks
  <2>4. kept' # {} <=> ~call.ok \/ ~released
    BY <1>1, <2>3, ZenonT(60)
  <2>. QED
    BY <1>1, <1>2, <2>2, <2>4, ZenonT(60) DEF Leaks, Reported
<1>12. Held(Holders, Maps, Owned)' /\ AllHeld(Holders, Maps, Owned)'
  BY ZenonT(60), <1>5, <1>10, <1>11 DEF Held, AllHeld
<1>. QED
  BY SMTT(30), <1>7, <1>8, <1>9, <1>11, <1>12 DEF MemInv

\* The invariant at the start.
LEMMA MemInitially == MemoryInit => MemInv
<1>. SUFFICES ASSUME MemoryInit PROVE MemInv
  OBVIOUS
<1>1. MemTyped
  BY ZenonT(60) DEF MemoryInit, Init, MemTyped
<1>2. /\ Live = {} /\ Spawned = {} /\ mappings = {} /\ layout = Null /\ call = Null
      /\ lost = {} /\ kept = {} /\ trapped = FALSE
  BY DEF MemoryInit, Init, Live, Spawned
<1>3. Fitting
  BY <1>2 DEF Fitting
<1>4. Roles
  BY <1>2, FS_EmptySet DEF Roles
<1>5. Holders = {}
  BY <1>2 DEF Holders
<1>. QED
  BY SMTT(30), <1>1, <1>2, <1>3, <1>4, <1>5 DEF MemInv, Held, AllHeld, Leaks, Owned

\* Every step keeps the invariant.
LEMMA MemStep == MemInv /\ [MemoryNext]_memoryVars => MemInv'
<1>. SUFFICES ASSUME MemInv, [MemoryNext]_memoryVars PROVE MemInv'
  BY SMTT(30)
<1>1. CASE MemoryNext
  <2>1. ~trapped
    BY <1>1 DEF MemoryNext
  <2>2. ASSUME NEW o \in Owners, NEW length \in Lengths, SpawnMaps(o, length) PROVE MemInv'
    BY SMTT(30), <2>1, <2>2, SpawnMapsKeeps
  <2>3. ASSUME NEW o \in Owners, SpawnDone(o) PROVE MemInv'
    BY SMTT(30), <2>1, <2>3, SpawnDoneKeeps
  <2>4. ASSUME NEW o \in Owners, SpawnUndone(o) PROVE MemInv'
    BY SMTT(30), <2>1, <2>4, SpawnUndoneKeeps
  <2>5. ASSUME NEW o \in Owners, DestroyBlock(o) PROVE MemInv'
    BY SMTT(30), <2>1, <2>5, DestroyBlockKeeps
  <2>6. CASE DestroyStack
    BY SMTT(30), <2>1, <2>6, DestroyStackKeeps
  <2>. QED
    BY SMTT(30), <1>1, <2>2, <2>3, <2>4, <2>5, <2>6 DEF MemoryNext
<1>2. CASE UNCHANGED memoryVars
  <2>1. UNCHANGED <<arch, exe, layout, block, mappings, fiber, call, trapped, lost, kept>>
    BY SMTT(60), <1>2 DEF memoryVars, vars, leaks
  <2>2. /\ Live' = Live /\ Spawned' = Spawned /\ Holders' = Holders /\ Maps' = Maps
        /\ Owned' = Owned
    BY ZenonT(60), <2>1 DEF Live, Spawned, Holders, Maps, StackMap, BlockMap, Owned
  <2>3. MemTyped' /\ Roles' /\ Leaks'
    BY SMTT(60), <2>1, <2>2 DEF MemInv, MemTyped, Roles, Leaks
  <2>4. Fitting'
    BY ZenonT(60), <2>1, <2>2 DEF MemInv, Fitting, BlockFits, StackFits, LayoutGood
  <2>. QED
    BY SMTT(30), <2>1, <2>2, <2>3, <2>4 DEF MemInv, Held, AllHeld
<1>. QED
  BY <1>1, <1>2

\* The invariant holds in every reachable state.
LEMMA MemAlways == MemorySpec => []MemInv
BY MemInitially, MemStep, PTL DEF MemorySpec

-----------------------------------------------------------------------------
\* For every word width, page size, executable and number of fibers, all that is
\* written for a block lies inside the block's own mapping, the TCB apart from
\* the data, and no owner's bytes are another's (thread_local.c:90-151).
THEOREM BlocksAreContained == MemorySpec => []BlocksContained
<1>1. MemInv => BlocksContained
  <2>. SUFFICES ASSUME MemInv PROVE BlocksContained
    OBVIOUS
  <2>1. MemTyped /\ Fitting /\ Held(Holders, Maps, Owned)
    BY SMTT(30) DEF MemInv
  <2>2. TcbSize \in Nat /\ Page \in Nat /\ Word \in Nat
    BY WordAssumption, PowerAssumption, SMTT(30) DEF Word
  <2>3. ASSUME NEW o \in Live
        PROVE  /\ Tcb(o) \cup Data(o) \subseteq Bytes(block[o])
               /\ Bytes(block[o]) \subseteq Page .. Word - 1
               /\ Tcb(o) \cap Data(o) = {}
               /\ Interval(block[o].block, layout.image_size) \subseteq Data(o)
    <3>. DEFINE b == block[o]
    <3>1. BlockFits(b, layout) /\ LayoutGood(layout)
      BY SMTT(60), <2>1, <2>3 DEF Fitting
    <3>2. /\ b.start \in Nat /\ b.length \in Nat /\ b.block \in Nat /\ b.thread_pointer \in Nat
      BY ZenonT(60), <3>1 DEF BlockFits, ThreadLocalBlock
    <3>3. /\ layout.image_size \in Nat /\ layout.block_size \in Nat
          /\ layout.image_size <= layout.block_size
      BY SMTT(60), <3>1 DEF LayoutGood
    <3>4. /\ Page <= b.start /\ b.start + b.length <= Word
          /\ b.start <= b.block /\ b.block + layout.block_size <= b.start + b.length
          /\ b.start <= b.thread_pointer /\ b.thread_pointer + TcbSize <= b.start + b.length
          /\ \/ b.block + layout.block_size <= b.thread_pointer
             \/ b.thread_pointer + TcbSize <= b.block
      BY ZenonT(60), <3>1 DEF BlockFits
    <3>. HIDE DEF b
    <3>5. /\ Interval(b.thread_pointer, TcbSize) \subseteq Interval(b.start, b.length)
          /\ Interval(b.block, layout.block_size) \subseteq Interval(b.start, b.length)
          /\ Interval(b.start, b.length) \subseteq Page .. Word - 1
          /\ Interval(b.thread_pointer, TcbSize) \cap Interval(b.block, layout.block_size) = {}
          /\ Interval(b.block, layout.image_size) \subseteq Interval(b.block, layout.block_size)
      BY ONLY <2>2, <3>2, <3>3, <3>4, SMTT(60) DEF Interval
    <3>. QED
      BY <3>5, ZenonT(30) DEF Tcb, Data, Bytes, b
  <2>4. ASSUME NEW o \in Live, NEW q \in Live, o # q
        PROVE  Bytes(block[o]) \cap Bytes(block[q]) = {}
    <3>. DEFINE h == <<o, "block">>
                k == <<q, "block">>
    <3>1. o \in Owners /\ q \in Owners /\ h \in Holders /\ k \in Holders /\ h # k
      BY <2>4 DEF Holders, Live
    <3>2. Apart(Maps[h], Maps[k])
      BY ONLY <2>1, <3>1, ZenonT(30) DEF Held
    <3>3. /\ Maps[h] = [start |-> block[o].start, length |-> block[o].length]
          /\ Maps[k] = [start |-> block[q].start, length |-> block[q].length]
      BY SMTT(30), <3>1 DEF Maps, BlockMap
    <3>4. \/ block[o].start + block[o].length <= block[q].start
          \/ block[q].start + block[q].length <= block[o].start
      BY ONLY <3>2, <3>3, SMTT(60) DEF Apart
    <3>5. block[o] \in ThreadLocalBlock /\ block[q] \in ThreadLocalBlock
      BY ZenonT(60), <2>1 DEF Fitting, BlockFits
    <3>6. /\ block[o].start \in Nat /\ block[o].length \in Nat
          /\ block[q].start \in Nat /\ block[q].length \in Nat
      BY <3>5 DEF ThreadLocalBlock
    <3>. QED
      BY ONLY <3>4, <3>6, SMTT(30) DEF Bytes, Interval
  <2>5. \A o, q \in Live :
          o # q => (Tcb(o) \cup Data(o)) \cap (Tcb(q) \cup Data(q)) = {}
    BY <2>3, <2>4, ZenonT(60)
  <2>6. layout # Null => PowerOfTwo(layout.alignment)
    BY SMTT(60), <2>1 DEF Fitting, LayoutGood
  <2>. QED
    BY SMTT(30), <2>3, <2>5, <2>6 DEF BlocksContained
<1>. QED
  BY <1>1, MemAlways, PTL

\* For every word width, alignment and executable a block lies as far from the
\* thread pointer as the ABI says, both on their alignments
\* (arch/*/thread_local_arch.h, thread_local.c:90-151).
THEOREM BlocksAreFound == MemorySpec => []BlockWhereCodeLooks
<1>1. MemInv => BlockWhereCodeLooks
  BY ZenonT(60) DEF MemInv, Fitting, BlockFits, BlockWhereCodeLooks
<1>. QED
  BY <1>1, MemAlways, PTL

\* For every record size, alignment, page size and accepted length, the record
\* and the first stack pointer lie aligned inside the stack mapping, the stack
\* below the record (fiber.c:35-73).
THEOREM RecordsAreAboveStacks == MemorySpec => []RecordAboveStack
<1>1. MemInv => RecordAboveStack
  <2>. SUFFICES ASSUME MemInv, NEW o \in Spawned
                PROVE  /\ Interval(fiber[o].record, RecordSize) \subseteq Bytes(StackMap(o))
                       /\ fiber[o].record % RecordAlign = 0 /\ fiber[o].sp % StackAlign = 0
                       /\ fiber[o].stack <= fiber[o].sp /\ fiber[o].sp <= fiber[o].record
    BY ZenonT(60) DEF RecordAboveStack
  <2>. DEFINE x == fiber[o]
  <2>1. StackFits(x)
    BY SMTT(60) DEF MemInv, Fitting
  <2>2. /\ x.stack \in Nat /\ x.stack_length \in Nat /\ x.record \in Nat /\ x.sp \in Nat
    BY ZenonT(60), <2>1 DEF StackFits, FiberMemoryRecord
  <2>3. /\ x.stack <= x.sp /\ x.sp <= x.record
        /\ x.record + RecordSize <= x.stack + x.stack_length
        /\ x.record % RecordAlign = 0 /\ x.sp % StackAlign = 0
    BY SMTT(30), <2>1 DEF StackFits
  <2>4. RecordSize \in Nat
    BY SMTT(30), RecordAssumption
  <2>5. Bytes(StackMap(o)) = Interval(x.stack, x.stack_length)
    BY SMTT(30) DEF Bytes, StackMap
  <2>. HIDE DEF x
  <2>6. Interval(x.record, RecordSize) \subseteq Interval(x.stack, x.stack_length)
    BY ONLY <2>2, <2>3, <2>4, SMTT(60) DEF Interval
  <2>. QED
    BY ZenonT(60), <2>3, <2>5, <2>6 DEF x
<1>. QED
  BY <1>1, MemAlways, PTL

\* For every number of fibers, and through every failed mmap and munmap, the
\* mappings are the stacks and blocks of the fibers there are, each its own, and
\* those a munmap failed to release: a destroy reports failure exactly when one of
\* its own is among them, a refused spawn does not (fiber.c:35-89,
\* thread_local.c:99-166).
THEOREM MappingsAreOwned == MemorySpec => []MappingsOwned
<1>1. MemInv => MappingsOwned
  <2>. SUFFICES ASSUME MemInv PROVE MappingsOwned
    OBVIOUS
  <2>1. /\ Roles /\ MemTyped /\ Leaks
        /\ Held(Holders, Maps, Owned) /\ AllHeld(Holders, Maps, Owned)
    BY SMTT(30) DEF MemInv
  <2>. DEFINE S == Spawned \X {"stack"}
              B == Live \X {"block"}
  <2>2. Spawned \subseteq Owners /\ Live \subseteq Owners
    BY SMTT(30) DEF Spawned, Live
  <2>3. \A o \in Spawned : <<o, "stack">> \in Holders /\ Maps[<<o, "stack">>] = StackMap(o)
    BY SMTT(30), <2>2 DEF Holders, Maps
  <2>4. \A o \in Live : <<o, "block">> \in Holders /\ Maps[<<o, "block">>] = BlockMap(o)
    BY SMTT(30), <2>2 DEF Holders, Maps
  <2>5. \A h \in Holders : \/ \E o \in Spawned : h = <<o, "stack">>
                           \/ \E o \in Live : h = <<o, "block">>
    BY SMTT(30) DEF Holders
  <2>6. \A m \in Owned : (\E o \in Spawned : m = StackMap(o)) \/ \E o \in Live : m = BlockMap(o)
    <3>. SUFFICES ASSUME NEW m \in Owned
                  PROVE  (\E o \in Spawned : m = StackMap(o)) \/ \E o \in Live : m = BlockMap(o)
      BY ZenonT(30)
    <3>1. PICK h \in Holders : Maps[h] = m
      BY <2>1, ZenonT(30) DEF AllHeld
    <3>2. CASE \E o \in Spawned : h = <<o, "stack">>
      BY <2>3, <3>1, <3>2, ZenonT(30)
    <3>3. CASE \E o \in Live : h = <<o, "block">>
      BY <2>4, <3>1, <3>3, ZenonT(30)
    <3>. QED
      BY SMTT(30), <2>5, <3>2, <3>3
  <2>7. (\A o \in Spawned : StackMap(o) \in Owned) /\ \A o \in Live : BlockMap(o) \in Owned
    BY ONLY <2>1, <2>3, <2>4, ZenonT(60) DEF Held
  <2>8. Owned = {StackMap(o) : o \in Spawned} \cup {BlockMap(o) : o \in Live}
    BY ONLY <2>6, <2>7, ZenonT(60)
  <2>9. IsFiniteSet(Spawned) /\ IsFiniteSet(Live)
    BY SMTT(30), <2>1, FS_Subset DEF Roles
  <2>10. IsFiniteSet({"stack"}) /\ IsFiniteSet({"block"})
         /\ Cardinality({"stack"}) = 1 /\ Cardinality({"block"}) = 1
    BY ZenonT(60), FS_Singleton
  <2>11. /\ IsFiniteSet(S) /\ Cardinality(S) = Cardinality(Spawned) * 1
         /\ IsFiniteSet(B) /\ Cardinality(B) = Cardinality(Live) * 1
    BY SMTT(30), <2>9, <2>10, FS_Product
  <2>12. S \cap B = {} /\ Holders = S \cup B
    BY DEF Holders
  <2>. HIDE DEF S, B
  <2>13. IsFiniteSet(Holders) /\ Cardinality(Holders)
           = Cardinality(S) + Cardinality(B) - Cardinality({})
    BY SMTT(30), <2>11, <2>12, FS_Union
  <2>14. Cardinality(Spawned) \in Nat /\ Cardinality(Live) \in Nat /\ Cardinality({}) = 0
    BY SMTT(30), <2>9, FS_CardinalityType, FS_EmptySet
  <2>15. Cardinality(Holders) = Cardinality(Spawned) + Cardinality(Live)
    BY ONLY <2>11, <2>13, <2>14, SMTT(30)
  <2>16. Cardinality(Owned) = Cardinality(Holders)
    BY <2>1, <2>13, HoldersCounted
  <2>. QED
    BY ZenonT(60), <2>1, <2>8, <2>15, <2>16 DEF MappingsOwned, Roles, Leaks, Owned
<1>. QED
  BY <1>1, MemAlways, PTL
=============================================================================
