----------------------------- MODULE DataLemmas -----------------------------
(***************************************************************************)
(* Facts about the data the modules are built from: sequences without      *)
(* duplicates, the form every queue here has, and the remainders that      *)
(* wrapping indices and alignments are.                                    *)
(***************************************************************************)
EXTENDS Integers, Sequences, Functions, WellFoundedInduction, TLAPS

\* What a sequence's range is, element by element.
LEMMA RangeOfSeq ==
  ASSUME NEW S, NEW s \in Seq(S)
  PROVE  /\ Range(s) \subseteq S
         /\ \A i \in 1 .. Len(s) : s[i] \in Range(s)
         /\ \A x \in Range(s) : \E i \in 1 .. Len(s) : x = s[i]
         /\ s = <<>> <=> Range(s) = {}
<1>1. DOMAIN s = 1 .. Len(s) /\ Len(s) \in Nat /\ \A i \in 1 .. Len(s) : s[i] \in S
  OBVIOUS
<1>2. Range(s) = {s[i] : i \in 1 .. Len(s)}
  BY <1>1 DEF Range
<1>3. s = <<>> <=> Len(s) = 0
  OBVIOUS
<1>4. Len(s) # 0 => s[1] \in Range(s)
  BY <1>1, <1>2
<1>5. Len(s) = 0 => Range(s) = {}
  BY <1>1, <1>2
<1>. QED BY <1>1, <1>2, <1>3, <1>4, <1>5

\* The entries of a concatenation.
LEMMA ConcatEntries ==
  ASSUME NEW S, NEW s \in Seq(S), NEW t \in Seq(S)
  PROVE  /\ s \o t \in Seq(S) /\ Len(s \o t) = Len(s) + Len(t)
         /\ \A i \in 1 .. Len(s) : (s \o t)[i] = s[i]
         /\ \A i \in 1 .. Len(t) : (s \o t)[Len(s) + i] = t[i]
OBVIOUS

\* Concatenation of two queues that share no element.
LEMMA DistinctConcat ==
  ASSUME NEW S, NEW s \in Seq(S), NEW t \in Seq(S)
  PROVE  /\ s \o t \in Seq(S) /\ Len(s \o t) = Len(s) + Len(t)
         /\ Range(s \o t) = Range(s) \cup Range(t)
         /\ IsInjective(s) /\ IsInjective(t) /\ Range(s) \cap Range(t) = {}
              => IsInjective(s \o t)
<1>. DEFINE u == s \o t
<1>1. /\ u \in Seq(S) /\ Len(u) = Len(s) + Len(t)
      /\ \A i \in 1 .. Len(s) : u[i] = s[i]
      /\ \A i \in 1 .. Len(t) : u[Len(s) + i] = t[i]
  OBVIOUS
<1>. HIDE DEF u
<1>2. \A i \in Len(s) + 1 .. Len(s) + Len(t) :
        i - Len(s) \in 1 .. Len(t) /\ u[i] = t[i - Len(s)]
  <2>. TAKE i \in Len(s) + 1 .. Len(s) + Len(t)
  <2>1. Len(s) \in Nat /\ Len(t) \in Nat
    OBVIOUS
  <2>2. i - Len(s) \in 1 .. Len(t) /\ Len(s) + (i - Len(s)) = i
    BY ONLY <2>1, i \in Len(s) + 1 .. Len(s) + Len(t)
  <2>. QED BY <1>1, <2>2
<1>3. Range(u) = Range(s) \cup Range(t)
  <2>1. \A i \in 1 .. Len(u) : u[i] \in Range(u)
    BY ZenonT(60), <1>1, RangeOfSeq
  <2>2. \A i \in 1 .. Len(s) : s[i] \in Range(u)
    BY SMTT(60), <1>1, <2>1
  <2>3. \A i \in 1 .. Len(t) : t[i] \in Range(u)
    BY <1>1, <2>1
  <2>4. \A x \in Range(u) : \E i \in 1 .. Len(u) : x = u[i]
    BY SMTT(30), <1>1, RangeOfSeq
  <2>5. \A i \in 1 .. Len(u) : u[i] \in Range(s) \cup Range(t)
    <3>1. \A i \in 1 .. Len(s) : u[i] \in Range(s)
      BY SMTT(30), <1>1, RangeOfSeq
    <3>2. \A i \in 1 .. Len(t) : t[i] \in Range(t)
      BY RangeOfSeq
    <3>3. \A i \in Len(s) + 1 .. Len(s) + Len(t) : u[i] \in Range(t)
      BY SMTT(30), <1>2, <3>2
    <3>4. \A i \in 1 .. Len(u) :
            i \in 1 .. Len(s) \/ i \in Len(s) + 1 .. Len(s) + Len(t)
      BY <1>1
    <3>. QED BY <3>1, <3>3, <3>4
  <2>6. Range(s) \cup Range(t) \subseteq Range(u)
    <3>1. /\ \A x \in Range(s) : \E i \in 1 .. Len(s) : x = s[i]
          /\ \A x \in Range(t) : \E i \in 1 .. Len(t) : x = t[i]
      BY RangeOfSeq
    <3>. QED BY ONLY <2>2, <2>3, <3>1
  <2>. QED BY <2>4, <2>5, <2>6
<1>4. ASSUME IsInjective(s), IsInjective(t), Range(s) \cap Range(t) = {}
      PROVE  IsInjective(u)
  <2>. SUFFICES ASSUME NEW i \in 1 .. Len(u), NEW j \in 1 .. Len(u), u[i] = u[j]
                PROVE  i = j
    BY <1>1 DEF IsInjective
  <2>1. \A k, l \in 1 .. Len(s) : s[k] = s[l] => k = l
    BY <1>4 DEF IsInjective
  <2>2. \A k, l \in 1 .. Len(t) : t[k] = t[l] => k = l
    BY <1>4 DEF IsInjective
  <2>3. \A k \in 1 .. Len(s), l \in 1 .. Len(t) : s[k] # t[l]
    BY SMTT(30), <1>4, RangeOfSeq
  <2>. DEFINE front == 1 .. Len(s)
              back == Len(s) + 1 .. Len(s) + Len(t)
  <2>4. i \in front \cup back /\ j \in front \cup back
    BY <1>1
  <2>5. \A k \in front : u[k] = s[k]
    BY <1>1
  <2>6. \A k \in back : u[k] = t[k - Len(s)] /\ k - Len(s) \in 1 .. Len(t)
    BY <1>2
  <2>7. CASE i \in front /\ j \in front
    BY <2>1, <2>5, <2>7
  <2>8. CASE i \in front /\ j \in back
    BY <2>3, <2>5, <2>6, <2>8
  <2>9. CASE i \in back /\ j \in front
    BY <2>3, <2>5, <2>6, <2>9
  <2>10. CASE i \in back /\ j \in back
    <3>1. i - Len(s) = j - Len(s)
      BY ZenonT(60), <2>2, <2>6, <2>10
    <3>. QED BY <3>1
  <2>. QED BY <2>4, <2>7, <2>8, <2>9, <2>10
<1>. QED BY <1>1, <1>3, <1>4 DEF u

\* Appending a new element at the tail.
LEMMA DistinctAppend ==
  ASSUME NEW S, NEW s \in Seq(S), NEW e \in S
  PROVE  /\ Append(s, e) \in Seq(S) /\ Len(Append(s, e)) = Len(s) + 1
         /\ Range(Append(s, e)) = Range(s) \cup {e}
         /\ IsInjective(s) /\ e \notin Range(s) => IsInjective(Append(s, e))
<1>. DEFINE t == <<e>>
<1>1. Append(s, e) = s \o t
  OBVIOUS
<1>2. t \in Seq(S) /\ Len(t) = 1 /\ Range(t) = {e} /\ IsInjective(t)
  BY DEF Range, IsInjective
<1>. HIDE DEF t
<1>3. /\ s \o t \in Seq(S) /\ Len(s \o t) = Len(s) + 1
      /\ Range(s \o t) = Range(s) \cup {e}
      /\ IsInjective(s) /\ Range(s) \cap {e} = {} => IsInjective(s \o t)
  <2>1. /\ s \o t \in Seq(S) /\ Len(s \o t) = Len(s) + Len(t)
        /\ Range(s \o t) = Range(s) \cup Range(t)
        /\ IsInjective(s) /\ IsInjective(t) /\ Range(s) \cap Range(t) = {}
             => IsInjective(s \o t)
    BY ZenonT(60), <1>2, DistinctConcat
  <2>. QED BY <1>2, <2>1
<1>. QED BY <1>1, <1>3

\* Cutting a queue in two: its first n elements and the rest.
LEMMA DistinctSplit ==
  ASSUME NEW S, NEW s \in Seq(S), NEW n \in 0 .. Len(s)
  PROVE  LET a == SubSeq(s, 1, n)  b == SubSeq(s, n + 1, Len(s)) IN
         /\ a \in Seq(S) /\ b \in Seq(S)
         /\ Len(a) = n /\ Len(b) = Len(s) - n
         /\ Range(s) = Range(a) \cup Range(b)
         /\ IsInjective(s) => /\ IsInjective(a) /\ IsInjective(b)
                              /\ Range(a) \cap Range(b) = {}
<1>. DEFINE a == SubSeq(s, 1, n)
            b == SubSeq(s, n + 1, Len(s))
<1>1. /\ a \in Seq(S) /\ Len(a) = n
      /\ \A i \in 1 .. n : a[i] = s[i]
  OBVIOUS
<1>2. /\ b \in Seq(S) /\ Len(b) = Len(s) - n
      /\ \A i \in 1 .. Len(s) - n : b[i] = s[n + i]
  OBVIOUS
<1>. HIDE DEF a, b
<1>3. Range(s) = Range(a) \cup Range(b)
  <2>1. \A i \in 1 .. Len(s) : s[i] \in Range(a) \cup Range(b)
    <3>1. \A i \in 1 .. n : s[i] \in Range(a)
      BY SMTT(30), <1>1, RangeOfSeq
    <3>2. \A i \in n + 1 .. Len(s) : i - n \in 1 .. Len(b) /\ s[i] = b[i - n]
      <4>. TAKE i \in n + 1 .. Len(s)
      <4>1. Len(s) \in Nat /\ n \in Nat
        OBVIOUS
      <4>2. i - n \in 1 .. Len(s) - n /\ n + (i - n) = i
        BY ONLY <4>1, i \in n + 1 .. Len(s)
      <4>. QED BY SMTT(30), <1>2, <4>2
    <3>3. \A i \in 1 .. Len(b) : b[i] \in Range(b)
      BY <1>2, RangeOfSeq
    <3>4. \A i \in n + 1 .. Len(s) : s[i] \in Range(b)
      BY <3>2, <3>3
    <3>. QED BY <3>1, <3>4
  <2>2. \A i \in 1 .. Len(a) : a[i] \in Range(s)
    BY <1>1, RangeOfSeq
  <2>3. \A i \in 1 .. Len(b) : b[i] \in Range(s)
    BY SMTT(30), <1>2, RangeOfSeq
  <2>4. Range(a) \subseteq Range(s) /\ Range(b) \subseteq Range(s)
    <3>1. \A x \in Range(a) : \E i \in 1 .. Len(a) : x = a[i]
      BY <1>1, RangeOfSeq
    <3>2. \A x \in Range(b) : \E i \in 1 .. Len(b) : x = b[i]
      BY <1>2, RangeOfSeq
    <3>. QED BY <2>2, <2>3, <3>1, <3>2
  <2>5. Range(s) \subseteq Range(a) \cup Range(b)
    BY <2>1, RangeOfSeq
  <2>. QED BY <2>4, <2>5
<1>4. ASSUME IsInjective(s)
      PROVE  IsInjective(a) /\ IsInjective(b) /\ Range(a) \cap Range(b) = {}
  <2>1. \A i, j \in 1 .. Len(s) : s[i] = s[j] => i = j
    BY <1>4 DEF IsInjective
  <2>2. IsInjective(a) /\ IsInjective(b)
    <3>1. \A i, j \in 1 .. Len(a) : a[i] = a[j] => i = j
      BY SMTT(30), <1>1, <2>1
    <3>2. ASSUME NEW i \in 1 .. Len(b), NEW j \in 1 .. Len(b), b[i] = b[j]
          PROVE  i = j
      <4>1. /\ n + i \in 1 .. Len(s) /\ n + j \in 1 .. Len(s)
            /\ b[i] = s[n + i] /\ b[j] = s[n + j]
        BY <1>2
      <4>2. n + i = n + j
        BY ZenonT(60), <2>1, <3>2, <4>1
      <4>. QED BY <4>2
    <3>3. DOMAIN a = 1 .. Len(a) /\ DOMAIN b = 1 .. Len(b)
      BY <1>1, <1>2
    <3>. QED BY SMTT(30), <3>1, <3>2, <3>3 DEF IsInjective
  <2>3. \A i \in 1 .. Len(a), j \in 1 .. Len(b) : a[i] # b[j]
    BY <1>1, <1>2, <2>1
  <2>4. Range(a) \cap Range(b) = {}
    BY SMTT(30), <1>1, <1>2, <2>3, RangeOfSeq
  <2>. QED BY <2>2, <2>4
<1>. QED BY <1>1, <1>2, <1>3, <1>4 DEF a, b

\* Taking the head off a queue.
LEMMA DistinctTail ==
  ASSUME NEW S, NEW s \in Seq(S), s # <<>>
  PROVE  /\ Tail(s) \in Seq(S) /\ Len(s) \in Nat \ {0}
         /\ Len(Tail(s)) = Len(s) - 1
         /\ \A i \in 1 .. Len(s) - 1 : Tail(s)[i] = s[i + 1]
         /\ Head(s) \in Range(s)
         /\ IsInjective(s) => /\ IsInjective(Tail(s))
                              /\ Range(Tail(s)) = Range(s) \ {Head(s)}
<1>1. /\ Tail(s) \in Seq(S) /\ Len(s) \in Nat \ {0}
      /\ Len(Tail(s)) = Len(s) - 1
      /\ \A i \in 1 .. Len(s) - 1 : Tail(s)[i] = s[i + 1]
      /\ Head(s) = s[1]
  OBVIOUS
<1>. DEFINE t == Tail(s)
<1>. HIDE DEF t
<1>2. t \in Seq(S) /\ Len(t) = Len(s) - 1 /\ \A i \in 1 .. Len(t) : t[i] = s[i + 1]
  BY <1>1 DEF t
<1>3. Range(s) = {s[1]} \cup Range(t)
  <2>1. \A i \in 2 .. Len(s) : i - 1 \in 1 .. Len(t) /\ s[i] = t[i - 1]
    BY <1>1, <1>2
  <2>2. \A i \in 1 .. Len(s) : s[i] \in {s[1]} \cup Range(t)
    <3>1. \A i \in 1 .. Len(t) : t[i] \in Range(t)
      BY <1>2, RangeOfSeq
    <3>2. \A i \in 2 .. Len(s) : s[i] \in Range(t)
      BY <2>1, <3>1
    <3>. QED BY <1>1, <3>2
  <2>3. s[1] \in Range(s) /\ \A i \in 1 .. Len(t) : t[i] \in Range(s)
    BY <1>1, <1>2, RangeOfSeq
  <2>4. Range(t) \subseteq Range(s)
    BY SMTT(30), <1>2, <2>3, RangeOfSeq
  <2>5. Range(s) \subseteq {s[1]} \cup Range(t)
    BY <2>2, RangeOfSeq
  <2>. QED BY <2>3, <2>4, <2>5
<1>4. ASSUME IsInjective(s) PROVE IsInjective(t) /\ s[1] \notin Range(t)
  <2>1. \A i, j \in 1 .. Len(s) : s[i] = s[j] => i = j
    BY <1>4 DEF IsInjective
  <2>2. \A i, j \in 1 .. Len(t) : t[i] = t[j] => i = j
    BY <1>1, <1>2, <2>1
  <2>3. IsInjective(t)
    BY <1>2, <2>2 DEF IsInjective
  <2>4. \A i \in 1 .. Len(t) : t[i] # s[1]
    BY <1>1, <1>2, <2>1
  <2>. QED BY <1>2, <2>3, <2>4, RangeOfSeq
<1>5. /\ Head(s) \in Range(s)
      /\ IsInjective(s) => IsInjective(t) /\ Range(t) = Range(s) \ {Head(s)}
  BY <1>1, <1>3, <1>4
<1>. QED BY <1>1, <1>5 DEF t

-----------------------------------------------------------------------------
(* Division, and the order of the naturals.                                *)

\* Every nonempty set of naturals has a least element.
LEMMA LeastNatural ==
  ASSUME NEW T \in SUBSET Nat, T # {}
  PROVE  \E x \in T : \A y \in T : x <= y
<1>. DEFINE R == {p \in Nat \X Nat : p[1] < p[2]}
<1>1. IsWellFoundedOn(R, Nat)
  BY NatLessThanWellFounded, ZenonT(20) DEF OpToRel
<1>2. \A x, y \in Nat : x < y => <<x, y>> \in R
  BY SMTT(30)
<1>. HIDE DEF R
<1>3. PICK x \in T : \A y \in T : <<y, x>> \notin R
  BY <1>1, WFMin, ZenonT(20)
<1>4. ASSUME NEW y \in T PROVE x <= y
  <2>1. x \in Nat /\ y \in Nat
    OBVIOUS
  <2>2. ~(y < x)
    BY ZenonT(60), <1>2, <1>3, <2>1
  <2>. QED
    BY <2>1, <2>2, SMTT(30)
<1>. QED
  BY <1>3, <1>4

\* Quotient and remainder of an integer.
LEMMA Division ==
  ASSUME NEW n \in Int, NEW m \in Nat \ {0}
  PROVE  /\ n \div m \in Int /\ n % m \in 0 .. m - 1
         /\ n = m * (n \div m) + (n % m)
BY SMTT(30)

\* The only multiple of m strictly between -m and m is 0.
LEMMA SmallMultiple ==
  ASSUME NEW m \in Nat \ {0}, NEW k \in Int, -m < m * k, m * k < m
  PROVE  k = 0
<1>1. CASE k >= 1
  <2>1. m * k >= m 
    BY <1>1, SMTT(30)
  <2>2. QED BY <2>1, SMTT(30)
<1>2. CASE k <= -1
  <2>1. m * k <= -m 
    BY <1>2, SMTT(30)
  <2>2. QED BY <2>1, SMTT(30)
<1>3. QED BY <1>1, <1>2, SMTT(30)

\* Quotient and remainder are the only ones.
LEMMA RemainderUnique ==
  ASSUME NEW m \in Nat \ {0}, NEW q \in Int, NEW r \in 0 .. m - 1
  PROVE  (m * q + r) % m = r /\ (m * q + r) \div m = q
<1>. DEFINE n == m * q + r
<1>1. n \in Int
  BY SMTT(30)
<1>2. n \div m \in Int /\ n % m \in 0 .. m - 1 /\ n = m * (n \div m) + (n % m)
  BY SMTT(60), <1>1, Division
<1>. HIDE DEF n
<1>. DEFINE k == q - n \div m
<1>3. m * k = m * q - m * (n \div m)
  BY <1>2, SMTT(30)
<1>4. -m < m * k /\ m * k < m
  BY <1>1, <1>2, <1>3, SMTT(30) DEF n
<1>5. k = 0
  BY <1>2, <1>4, SmallMultiple
<1>. QED
  BY <1>2, <1>5, SMTT(30) DEF n

\* Adding a multiple of the modulus leaves the remainder.
LEMMA AddMultiple ==
  ASSUME NEW n \in Int, NEW m \in Nat \ {0}, NEW k \in Int
  PROVE  (n + m * k) % m = n % m
<1>. DEFINE q == n \div m
            r == n % m
<1>1. q \in Int /\ r \in 0 .. m - 1 /\ n = m * q + r
  BY Division
<1>. HIDE DEF q, r
<1>2. n + m * k = m * (q + k) + r
  BY <1>1, SMTT(30)
<1>3. (m * (q + k) + r) % m = r
  BY <1>1, RemainderUnique
<1>. QED
  BY <1>2, <1>3 DEF r

\* A word that wraps at a multiple of m has the remainders of the number it
\* stands for.
LEMMA RemainderOfRemainder ==
  ASSUME NEW n \in Int, NEW m \in Nat \ {0}, NEW w \in Nat \ {0}, w % m = 0
  PROVE  (n % w) % m = n % m
<1>. DEFINE q == n \div w
            p == w \div m
<1>1. q \in Int /\ n % w \in Int /\ n = w * q + (n % w)
  BY Division
<1>2. p \in Int /\ w = m * p
  BY Division
<1>. HIDE DEF q, p
<1>3. w * q = m * (p * q) /\ p * q \in Int
  BY <1>1, <1>2, SMTT(30)
<1>. DEFINE k == p * q
<1>4. n = (n % w) + m * k /\ k \in Int
  BY <1>1, <1>3, SMTT(30)
<1>. HIDE DEF k
<1>5. ((n % w) + m * k) % m = (n % w) % m
  BY ZenonT(60), <1>1, <1>4, AddMultiple
<1>. QED
  BY <1>4, <1>5

\* A number below the modulus is its own remainder.
LEMMA SmallRemainder ==
  ASSUME NEW m \in Nat \ {0}, NEW n \in 0 .. m - 1
  PROVE  n % m = n
<1>1. m * 0 + n = n
  BY SMTT(30)
<1>. QED
  BY <1>1, RemainderUnique

\* Numbers less than the modulus apart have different remainders.
LEMMA NearbyRemainders ==
  ASSUME NEW m \in Nat \ {0}, NEW a \in Int, NEW b \in Int, a < b, b < a + m
  PROVE  a % m # b % m
<1>. SUFFICES ASSUME a % m = b % m PROVE FALSE
  OBVIOUS
<1>. DEFINE qa == a \div m
            qb == b \div m
            k == qb - qa
<1>1. qa \in Int /\ qb \in Int /\ a % m \in Int /\ a = m * qa + (a % m) /\ b = m * qb + (b % m)
  BY Division
<1>. HIDE DEF qa, qb
<1>2. m * k = m * qb - m * qa
  BY <1>1, SMTT(30)
<1>3. m * k = b - a
  BY <1>1, <1>2, SMTT(30)
<1>4. k \in Int /\ k = 0
  BY <1>1, <1>3, SmallMultiple, SMTT(30)
<1>. QED
  BY <1>3, <1>4, SMTT(30)

\* The distance between two wrapping indices, and the successor of one.
LEMMA CyclicDistance ==
  ASSUME NEW w \in Nat \ {0}, NEW t \in 0 .. w - 1, NEW h \in 0 .. w - 1
  PROVE  /\ (t - h) % w = IF t >= h THEN t - h ELSE t - h + w
         /\ (h + 1) % w = IF h + 1 < w THEN h + 1 ELSE 0
<1>1. CASE t >= h
  BY <1>1, SmallRemainder, SMTT(30)
<1>2. CASE t < h
  <2>1. (t - h + w * 1) % w = (t - h) % w
    BY AddMultiple
  <2>2. t - h + w * 1 = t - h + w /\ t - h + w \in 0 .. w - 1
    BY <1>2, SMTT(30)
  <2>. QED
    BY <1>2, <2>1, <2>2, SmallRemainder, SMTT(30)
<1>3. (h + 1) % w = IF h + 1 < w THEN h + 1 ELSE 0
  <2>1. CASE h + 1 < w
    BY <2>1, SmallRemainder, SMTT(30)
  <2>2. CASE h + 1 = w
    <3>1. h + 1 = w * 1 + 0
      BY <2>2, SMTT(30)
    <3>. QED BY <2>2, <3>1, RemainderUnique, SMTT(30)
  <2>. QED BY <2>1, <2>2, SMTT(30)
<1>. QED BY <1>1, <1>2, <1>3, SMTT(30)

\* A part of a sequence, by its entries.
LEMMA SubSeqIs ==
  ASSUME NEW S, NEW q \in Seq(S), NEW f \in Seq(S), NEW m \in Nat,
         m + Len(f) <= Len(q),
         \A k \in 1 .. Len(f) : q[m + k] = f[k]
  PROVE  SubSeq(q, m + 1, m + Len(f)) = f
<1>. DEFINE part == SubSeq(q, m + 1, m + Len(f))
<1>1. /\ Len(f) \in Nat /\ Len(q) \in Nat
  OBVIOUS
<1>2. part \in Seq(S) /\ Len(part) = Len(f)
  BY <1>1
<1>3. \A k \in 1 .. Len(f) : part[k] = f[k]
  BY <1>1
<1>. HIDE DEF part
<1>4. part = [k \in 1 .. Len(f) |-> part[k]] /\ f = [k \in 1 .. Len(f) |-> f[k]]
  BY <1>2
<1>5. part = f
  BY ONLY <1>3, <1>4, ZenonT(60)
<1>. QED BY <1>5 DEF part

\* A recursion over 0 .. N has exactly one solution: the least length without
\* one would extend the solution of the length before, and two solutions have no
\* least place where they part.
LEMMA IterationExists ==
  ASSUME NEW N \in Nat, NEW x \in Nat, NEW G \in [1 .. N -> [Nat -> Nat]]
  PROVE  \E v \in [0 .. N -> Nat] : v[0] = x /\ \A k \in 1 .. N : v[k] = G[k][v[k - 1]]
<1>. DEFINE Solves(v, j) == v[0] = x /\ \A k \in 1 .. j : v[k] = G[k][v[k - 1]]
            Solved(j) == \E v \in [0 .. j -> Nat] : Solves(v, j)
            Lacking == {j \in 0 .. N : ~Solved(j)}
<1>1. Solved(0)
  <2>1. [k \in 0 .. 0 |-> x] \in [0 .. 0 -> Nat] /\ Solves([k \in 0 .. 0 |-> x], 0)
    OBVIOUS
  <2>. QED BY <2>1, ZenonT(60)
<1>2. ASSUME NEW j \in 1 .. N, Solved(j - 1) PROVE Solved(j)
  <2>1. PICK v \in [0 .. j - 1 -> Nat] : Solves(v, j - 1)
    BY <1>2, ZenonT(60)
  <2>2. j - 1 \in 0 .. j - 1 /\ j \in Nat
    BY SMTT(30)
  <2>3. v[j - 1] \in Nat
    BY <2>2
  <2>. DEFINE last == G[j][v[j - 1]]
              w == [k \in 0 .. j |-> IF k = j THEN last ELSE v[k]]
  <2>4. last \in Nat
    BY <2>3, ZenonT(60)
  <2>. HIDE DEF last
  <2>5. w \in [0 .. j -> Nat]
    <3>1. ASSUME NEW k \in 0 .. j, k # j PROVE v[k] \in Nat
      <4>1. k \in 0 .. j - 1
        BY <3>1, <2>2, SMTT(30)
      <4>. QED BY <4>1, ZenonT(60)
    <3>. QED BY <2>4, <3>1, ZenonT(60)
  <2>6. w[0] = x
    BY <2>1, <2>2
  <2>7. ASSUME NEW k \in 1 .. j PROVE w[k] = G[k][w[k - 1]]
    <3>1. k - 1 \in 0 .. j /\ k - 1 # j /\ k \in 0 .. j
      BY <2>2, SMTT(30)
    <3>2. w[k - 1] = v[k - 1]
      BY <3>1
    <3>3. CASE k = j
      BY <3>1, <3>2, <3>3, ZenonT(60) DEF last
    <3>4. CASE k # j
      <4>1. k \in 1 .. j - 1
        BY <2>2, <3>4, SMTT(30)
      <4>2. w[k] = v[k]
        BY <3>1, <3>4
      <4>. QED BY <2>1, <3>2, <4>1, <4>2, ZenonT(60)
    <3>. QED BY <3>3, <3>4
  <2>. HIDE DEF w
  <2>. QED BY <2>5, <2>6, <2>7, ZenonT(60)
<1>. HIDE DEF Solved
<1>3. Lacking = {}
  <2>. SUFFICES ASSUME Lacking # {} PROVE FALSE
    OBVIOUS
  <2>1. Lacking \in SUBSET Nat
    OBVIOUS
  <2>2. PICK j \in Lacking : \A y \in Lacking : j <= y
    <3>. HIDE DEF Lacking
    <3>. QED BY <2>1, LeastNatural, ZenonT(60)
  <2>3. j # 0
    BY <1>1
  <2>4. j \in 1 .. N /\ j - 1 \in 0 .. N /\ ~(j <= j - 1)
    BY <2>3
  <2>5. Solved(j - 1)
    BY <2>2, <2>4, ZenonT(60)
  <2>. QED BY <1>2, <2>4, <2>5
<1>4. N \in 0 .. N
  OBVIOUS
<1>5. Solved(N)
  BY <1>3, <1>4, ZenonT(60)
<1>. QED BY <1>5, ZenonT(60) DEF Solved

\* It has no other, so that whatever obeys the recursion is of naturals: there
\* is no least place where it parts from the solution.
LEMMA IterationUnique ==
  ASSUME NEW N \in Nat, NEW x \in Nat, NEW G \in [1 .. N -> [Nat -> Nat]],
         NEW u, u = [k \in 0 .. N |-> u[k]], u[0] = x,
         \A k \in 1 .. N : u[k - 1] \in Nat => u[k] = G[k][u[k - 1]]
  PROVE  u \in [0 .. N -> Nat]
<1>1. PICK v \in [0 .. N -> Nat] : v[0] = x /\ \A k \in 1 .. N : v[k] = G[k][v[k - 1]]
  BY IterationExists, ZenonT(120)
<1>. DEFINE Parts == {k \in 0 .. N : u[k] # v[k]}
<1>2. Parts = {}
  <2>. SUFFICES ASSUME Parts # {} PROVE FALSE
    OBVIOUS
  <2>1. Parts \in SUBSET Nat
    OBVIOUS
  <2>2. PICK j \in Parts : \A y \in Parts : j <= y
    <3>. HIDE DEF Parts
    <3>. QED BY <2>1, LeastNatural, ZenonT(60)
  <2>3. j # 0
    BY <1>1
  <2>4. j \in 1 .. N /\ j - 1 \in 0 .. N /\ ~(j <= j - 1)
    BY <2>3
  <2>5. u[j - 1] = v[j - 1] /\ v[j - 1] \in Nat
    BY <2>2, <2>4, ZenonT(60)
  <2>6. u[j] = v[j]
    BY <1>1, <2>4, <2>5, ZenonT(60)
  <2>. QED BY <2>6
<1>3. \A k \in 0 .. N : u[k] \in Nat
  BY <1>2, ZenonT(60)
<1>. QED BY <1>3, ZenonT(60)
=============================================================================
