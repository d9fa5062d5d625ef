------------------------- MODULE UcSchedulerProofs --------------------------
(***************************************************************************)
(* Proofs about UcScheduler for every number of fibers, operations and     *)
(* completions of one request: what a record serves, who waits for what,   *)
(* and in which order the completions of a request reach its owner.        *)
(***************************************************************************)
EXTENDS UcScheduler, DataLemmas

Completion == [op : Ops, item : Nat, more : BOOLEAN]

\* What the fields and queues hold.
Typed ==
  /\ current \in [Fibers -> Ops \cup {NoOp}]
  /\ state \in [Ops -> {"PREPARED", "IN_FLIGHT", "COMPLETE"}]
  /\ owner \in [Ops -> Fibers \cup {None}]
  /\ batch \in Seq(Ops) /\ inflight \subseteq Ops
  /\ finished \in Seq(Completion) /\ cq \in Seq(Completion)
  /\ items \in [Ops -> Nat] /\ got \in [Ops -> Nat]

\* With the ring: staged or accepted.
WithRing == Range(batch) \cup inflight

\* With st for the operations' states: an operation in flight has an owner.
Owned(st) == \A o \in Ops : st[o] = "IN_FLIGHT" => owner[o] \in Fibers

\* Each fiber that is suspended waits for an operation of its own in flight.
Waits(st, who) ==
  ~trapped => \A f \in who : current[f] # NoOp =>
    st[current[f]] = "IN_FLIGHT" /\ owner[current[f]] = f

Places(o, way) == {i \in DOMAIN way : way[i].op = o}

\* An operation the ring holds is in flight, and one in flight is staged, with
\* the kernel, or its last completion is on its way; nothing of a staged one has
\* completed, and nothing follows a last completion.
RingHolds(st, g, way) ==
  /\ IsInjective(batch) /\ Range(batch) \cap inflight = {}
  /\ \A o \in WithRing : st[o] = "IN_FLIGHT"
  /\ \A o \in Range(batch) : items[o] = 0 /\ g[o] = 0
  /\ \A i \in DOMAIN way :
       st[way[i].op] = "IN_FLIGHT" /\ (~way[i].more => way[i].op \notin WithRing)
  /\ \A o \in Ops : st[o] = "IN_FLIGHT" /\ o \notin WithRing =>
       \E i \in Places(o, way) : ~way[i].more

\* The completions of o on the way are those after the first g, up to the n-th.
InOrder(o, g, n, way) ==
  /\ g <= n
  /\ {way[i].item : i \in Places(o, way)} = g + 1 .. n
  /\ \A i, j \in Places(o, way) : i < j => way[i].item < way[j].item
  /\ \A i \in Places(o, way) : ~way[i].more => way[i].item = n

AllInOrder(st, g, way) ==
  \A o \in Ops : st[o] = "IN_FLIGHT" => InOrder(o, g[o], items[o], way)

\* The inductive invariant.  The parameters are for the moment inside a step at
\* which a completion is noted and its owner has yet to run.
UcInv ==
  /\ Typed /\ Owned(state) /\ Waits(state, Fibers)
  /\ RingHolds(state, got, Way) /\ AllInOrder(state, got, Way)

-----------------------------------------------------------------------------
(* Completions on their way, for any sequence of them.                     *)

\* The oldest completion is handed over: it is the next one its operation's
\* owner has not seen, and no other follows a last one.
LEMMA HandedOver ==
  ASSUME NEW way \in Seq(Completion), way # <<>>, NEW g \in Nat, NEW n \in Nat,
         InOrder(way[1].op, g, n, way)
  PROVE  /\ way[1].item = g + 1 /\ InOrder(way[1].op, way[1].item, n, Tail(way))
         /\ ~way[1].more => Places(way[1].op, Tail(way)) = {}
<1>. DEFINE c == way[1]
            o == c.op
            rest == Tail(way)
<1>1. /\ Len(way) \in Nat \ {0} /\ DOMAIN way = 1 .. Len(way) /\ rest \in Seq(Completion)
      /\ DOMAIN rest = 1 .. Len(way) - 1
      /\ \A i \in 1 .. Len(way) - 1 : rest[i] = way[i + 1]
  BY SMTT(30)
<1>2. 1 \in Places(o, way) /\ Places(o, way) \subseteq 1 .. Len(way)
  BY <1>1, SMTT(30) DEF Places
<1>3. \A i \in 1 .. Len(way) - 1 : i \in Places(o, rest) <=> i + 1 \in Places(o, way)
  BY <1>1, SMTT(30) DEF Places
<1>4. Places(o, rest) \subseteq 1 .. Len(way) - 1
  BY <1>1 DEF Places
<1>. DEFINE P == Places(o, way)
            Q == Places(o, rest)
<1>5. /\ g <= n /\ \A i \in P : way[i].item \in g + 1 .. n
      /\ \A k \in g + 1 .. n : \E i \in P : way[i].item = k
      /\ \A i, j \in P : i < j => way[i].item < way[j].item
      /\ \A i \in P : ~way[i].more => way[i].item = n
  BY ZenonT(60) DEF InOrder
<1>. HIDE DEF rest
<1>6. c.item \in g + 1 .. n
  BY <1>2, <1>5
<1>7. c.item = g + 1
  <2>1. PICK i \in P : way[i].item = g + 1
    BY <1>5, <1>6, SMTT(30)
  <2>2. i \in 1 .. Len(way)
    BY <1>2
  <2>3. i # 1 => c.item < g + 1
    BY <1>1, <1>2, <1>5, <2>1, <2>2, SMTT(30)
  <2>. QED
    BY <1>6, <2>1, <2>3, SMTT(30)
<1>8. \A i \in Q : i \in Nat /\ i + 1 \in P /\ rest[i] = way[i + 1] /\ 1 < i + 1
  BY <1>1, <1>3, <1>4, SMTT(30)
<1>9. \A i \in Q : rest[i].item \in c.item + 1 .. n
  <2>. SUFFICES ASSUME NEW i \in Q PROVE rest[i].item \in c.item + 1 .. n
    OBVIOUS
  <2>1. i + 1 \in P /\ rest[i] = way[i + 1] /\ 1 < i + 1
    BY <1>8
  <2>2. c.item < way[i + 1].item /\ way[i + 1].item \in g + 1 .. n
    BY <1>2, <1>5, <2>1
  <2>. QED
    BY <1>6, <2>1, <2>2, SMTT(30)
<1>10. \A k \in c.item + 1 .. n : \E i \in Q : rest[i].item = k
  <2>. SUFFICES ASSUME NEW k \in c.item + 1 .. n PROVE \E i \in Q : rest[i].item = k
    OBVIOUS
  <2>1. k \in g + 1 .. n /\ k # c.item
    BY <1>7, SMTT(30)
  <2>2. PICK i \in P : way[i].item = k
    BY <1>5, <2>1
  <2>3. i \in 1 .. Len(way) /\ i # 1
    BY <1>2, <2>1, <2>2
  <2>4. i - 1 \in 1 .. Len(way) - 1 /\ (i - 1) + 1 = i
    BY <1>1, <2>3, SMTT(30)
  <2>5. i - 1 \in Q /\ rest[i - 1] = way[i]
    BY SMTT(30), <1>1, <1>3, <2>4
  <2>. QED
    BY <2>2, <2>5
<1>11. \A i, j \in Q : i < j => rest[i].item < rest[j].item
  BY <1>5, <1>8, SMTT(60)
<1>12. \A i \in Q : ~rest[i].more => rest[i].item = n
  BY SMTT(30), <1>5, <1>8
<1>13. InOrder(o, c.item, n, rest)
  <2>1. c.item <= n
    BY <1>6, SMTT(30)
  <2>2. {rest[i].item : i \in Q} = c.item + 1 .. n
    BY <1>9, <1>10
  <2>. QED
    BY <1>11, <1>12, <2>1, <2>2 DEF InOrder
<1>14. ASSUME ~c.more PROVE Q = {}
  <2>1. c.item = n
    BY <1>2, <1>5, <1>14
  <2>2. \A i \in Q : FALSE
    BY <1>9, <2>1, SMTT(30)
  <2>. QED
    BY <2>2
<1>. QED
  BY <1>7, <1>13, <1>14 DEF rest

\* The completions of the other operations stay as they are.
LEMMA OthersKept ==
  ASSUME NEW way \in Seq(Completion), way # <<>>, NEW o \in Ops, way[1].op # o
  PROVE  /\ \A g, n \in Nat : InOrder(o, g, n, way) => InOrder(o, g, n, Tail(way))
         /\ (\E i \in Places(o, way) : ~way[i].more)
              => \E i \in Places(o, Tail(way)) : ~Tail(way)[i].more
<1>. DEFINE rest == Tail(way)
            P == Places(o, way)
            Q == Places(o, rest)
<1>1. /\ Len(way) \in Nat \ {0} /\ DOMAIN way = 1 .. Len(way)
      /\ DOMAIN rest = 1 .. Len(way) - 1
      /\ \A i \in 1 .. Len(way) - 1 : rest[i] = way[i + 1]
  BY SMTT(30)
<1>. HIDE DEF rest
<1>2. \A i \in P : i \in 1 .. Len(way) /\ i # 1
  BY <1>1 DEF Places
<1>3. \A i \in Q : i \in Nat /\ i + 1 \in P /\ rest[i] = way[i + 1]
  BY <1>1, SMTT(30) DEF Places
<1>4. \A i \in P : i - 1 \in Q /\ rest[i - 1] = way[i]
  <2>. SUFFICES ASSUME NEW i \in P PROVE i - 1 \in Q /\ rest[i - 1] = way[i]
    OBVIOUS
  <2>1. i - 1 \in 1 .. Len(way) - 1 /\ (i - 1) + 1 = i
    BY <1>1, <1>2, SMTT(30)
  <2>2. rest[i - 1] = way[i] /\ way[i].op = o
    BY <1>1, <2>1 DEF Places
  <2>. QED
    BY <1>1, <2>1, <2>2 DEF Places
<1>5. ASSUME NEW g \in Nat, NEW n \in Nat, InOrder(o, g, n, way)
      PROVE  InOrder(o, g, n, rest)
  <2>1. /\ g <= n /\ {way[i].item : i \in P} = g + 1 .. n
        /\ \A i, j \in P : i < j => way[i].item < way[j].item
        /\ \A i \in P : ~way[i].more => way[i].item = n
    BY <1>5 DEF InOrder
  <2>2. {rest[i].item : i \in Q} = {way[i].item : i \in P}
    <3>1. \A x \in {rest[i].item : i \in Q} : x \in {way[i].item : i \in P}
      BY <1>3
    <3>2. \A x \in {way[i].item : i \in P} : x \in {rest[i].item : i \in Q}
      BY <1>4
    <3>. QED
      BY ZenonT(60), <3>1, <3>2
  <2>3. \A i, j \in Q : i < j => rest[i].item < rest[j].item
    BY <1>3, <2>1, SMTT(30)
  <2>4. \A i \in Q : ~rest[i].more => rest[i].item = n
    BY <1>3, <2>1
  <2>. QED
    BY ZenonT(60), <2>1, <2>2, <2>3, <2>4 DEF InOrder
<1>6. (\E i \in P : ~way[i].more) => \E i \in Q : ~rest[i].more
  BY <1>4
<1>. QED
  BY ZenonT(60), <1>5, <1>6 DEF rest

\* A completion the kernel makes is the newest of its operation.
LEMMA CompletionAdded ==
  ASSUME NEW way \in Seq(Completion), NEW c \in Completion, NEW o \in Ops
  PROVE  LET longer == Append(way, c) IN
         /\ \A g, n \in Nat :
              /\ c.op # o /\ InOrder(o, g, n, way) => InOrder(o, g, n, longer)
              /\ /\ c.op = o /\ c.item = n + 1 /\ InOrder(o, g, n, way)
                 /\ \A i \in Places(o, way) : way[i].more
                 => InOrder(o, g, n + 1, longer)
         /\ (\E i \in Places(o, way) : ~way[i].more)
              => \E i \in Places(o, longer) : ~longer[i].more
         /\ c.op = o /\ ~c.more => \E i \in Places(o, longer) : ~longer[i].more
<1>. DEFINE longer == Append(way, c)
            m == Len(way)
            P == Places(o, way)
            Q == Places(o, longer)
<1>1. /\ m \in Nat /\ DOMAIN way = 1 .. m /\ DOMAIN longer = 1 .. m + 1
      /\ \A i \in 1 .. m : longer[i] = way[i]
      /\ longer[m + 1] = c
  BY SMTT(30)
<1>. HIDE DEF longer, m
<1>2. \A i \in P : i \in 1 .. m /\ i \in Q /\ longer[i] = way[i]
  BY <1>1, SMTT(30) DEF Places
<1>3. \A i \in Q : i \in P \/ (i = m + 1 /\ c.op = o)
  BY <1>1, SMTT(30) DEF Places
<1>4. c.op = o => m + 1 \in Q /\ longer[m + 1] = c
  BY <1>1, SMTT(30) DEF Places
<1>5. ASSUME NEW g \in Nat, NEW n \in Nat, c.op # o, InOrder(o, g, n, way)
      PROVE  InOrder(o, g, n, longer)
  <2>1. P = Q /\ \A i \in P : longer[i] = way[i]
    BY ZenonT(60), <1>2, <1>3, <1>5
  <2>2. {longer[i].item : i \in Q} = {way[i].item : i \in P}
    BY <2>1
  <2>. QED
    BY SMTT(30), <1>5, <2>1, <2>2 DEF InOrder
<1>6. ASSUME NEW g \in Nat, NEW n \in Nat, c.op = o, c.item = n + 1, InOrder(o, g, n, way),
             \A i \in P : way[i].more
      PROVE  InOrder(o, g, n + 1, longer)
  <2>1. /\ g <= n /\ \A i \in P : way[i].item \in g + 1 .. n
        /\ \A k \in g + 1 .. n : \E i \in P : way[i].item = k
        /\ \A i, j \in P : i < j => way[i].item < way[j].item
    BY <1>6, ZenonT(60) DEF InOrder
  <2>2. \A i \in Q : longer[i].item \in g + 1 .. n + 1
    BY <1>1, <1>2, <1>3, <1>6, <2>1, SMTT(30)
  <2>3. \A k \in g + 1 .. n + 1 : \E i \in Q : longer[i].item = k
    <3>. SUFFICES ASSUME NEW k \in g + 1 .. n + 1 PROVE \E i \in Q : longer[i].item = k
      OBVIOUS
    <3>1. CASE k = n + 1
      BY <1>4, <1>6, <3>1
    <3>2. CASE k \in g + 1 .. n
      BY ZenonT(60), <1>2, <2>1, <3>2
    <3>. QED
      BY <3>1, <3>2, SMTT(30)
  <2>4. \A i, j \in Q : i < j => longer[i].item < longer[j].item
    BY <1>1, <1>2, <1>3, <1>6, <2>1, SMTT(60)
  <2>5. \A i \in Q : ~longer[i].more => longer[i].item = n + 1
    BY SMTT(30), <1>1, <1>2, <1>3, <1>6
  <2>6. {longer[i].item : i \in Q} = g + 1 .. n + 1
    BY <2>2, <2>3
  <2>7. g <= n + 1
    BY <2>1, SMTT(30)
  <2>. QED
    BY <2>4, <2>5, <2>6, <2>7 DEF InOrder
<1>7. (\E i \in P : ~way[i].more) => \E i \in Q : ~longer[i].more
  BY <1>2
<1>8. c.op = o /\ ~c.more => \E i \in Q : ~longer[i].more
  BY SMTT(30), <1>4
<1>. QED
  BY ZenonT(60), <1>5, <1>6, <1>7, <1>8 DEF longer

-----------------------------------------------------------------------------
(* A fiber runs, from the ready queue or with a completion.                *)

States == {"PREPARED", "IN_FLIGHT", "COMPLETE"}

\* What a dispatch of f finds: s and g are the states and counts as f sees them,
\* way the completions still to come.
Found(f, s, g, way) ==
  /\ Typed /\ ~trapped
  /\ Owned(s) /\ Waits(s, Fibers \ {f}) /\ RingHolds(s, g, way) /\ AllInOrder(s, g, way)

\* It had returned, and the model ends.
LEMMA Ends ==
  ASSUME NEW f \in Fibers, NEW s \in [Ops -> States], NEW g \in [Ops -> Nat],
         NEW way \in Seq(Completion), Found(f, s, g, way), Typed',
         ResumeReturned(s, g), Way' = way
  PROVE  UcInv'
<1>1. (Owned(s) /\ Waits(s, Fibers))'
  BY ZenonT(60) DEF Found, ResumeReturned, Owned, Waits
<1>2. RingHolds(s, g, way)' /\ AllInOrder(s, g, way)'
  BY ZenonT(60) DEF Found, ResumeReturned, RingHolds, AllInOrder, WithRing
<1>. QED
  BY SMTT(30), <1>1, <1>2 DEF ResumeReturned, UcInv, Owned, Waits, RingHolds, AllInOrder

\* It returns or goes on the ready queue, whatever it has in flight.
LEMMA Leaves ==
  ASSUME NEW f \in Fibers, NEW s \in [Ops -> States], NEW g \in [Ops -> Nat],
         NEW way \in Seq(Completion), Found(f, s, g, way), Typed',
         Leave(f, s, g), Way' = way
  PROVE  UcInv'
<1>1. Owned(s)'
  BY ZenonT(60) DEF Found, Leave, Owned
<1>2. Waits(s, Fibers)'
  BY SMTT(30) DEF Found, Leave, Typed, Waits
<1>3. RingHolds(s, g, way)' /\ AllInOrder(s, g, way)'
  BY ZenonT(60) DEF Found, Leave, RingHolds, AllInOrder, WithRing
<1>. QED
  BY SMTT(30), <1>1, <1>2, <1>3 DEF Leave, UcInv, Owned, Waits, RingHolds, AllInOrder

\* It goes on with an operation of its own in flight.
LEMMA GoesOn ==
  ASSUME NEW f \in Fibers, NEW s \in [Ops -> States], NEW g \in [Ops -> Nat],
         NEW way \in Seq(Completion), Found(f, s, g, way), Typed',
         NEW o \in Ops, MayNext(f, o, s), s[o] = "IN_FLIGHT",
         current' = [current EXCEPT ![f] = o],
         state' = s, got' = g, UNCHANGED <<owner, batch, inflight, items, trapped>>,
         Way' = way
  PROVE  UcInv'
<1>1. Owned(s)'
  BY ZenonT(60) DEF Found, Owned
<1>2. Waits(s, Fibers)'
  BY SMTT(30) DEF Found, MayNext, Typed, Waits
<1>3. RingHolds(s, g, way)' /\ AllInOrder(s, g, way)'
  BY ZenonT(60) DEF Found, RingHolds, AllInOrder, WithRing
<1>. QED
  BY SMTT(30), <1>1, <1>2, <1>3 DEF UcInv, Owned, Waits, RingHolds, AllInOrder

\* What is so of a record that is not in flight.
FreeFor(o, s, way) ==
  /\ s[o] # "IN_FLIGHT" /\ o \notin WithRing /\ Places(o, way) = {}
  /\ Prepare(o, s) \in [Ops -> States] /\ Prepare(o, s)[o] = "PREPARED"
  /\ \A q \in Ops \ {o} : Prepare(o, s)[q] = s[q]

\* A record that is not in flight is with no one: not in the ring, and no
\* completion of it is still to come.
LEMMA TakenIsFree ==
  ASSUME NEW f \in Fibers, NEW s \in [Ops -> States], NEW g \in [Ops -> Nat],
         NEW way \in Seq(Completion), Found(f, s, g, way), NEW o \in Ops,
         s[o] # "IN_FLIGHT"
  PROVE  FreeFor(o, s, way)
<1>2. o \notin WithRing
  BY ZenonT(60) DEF Found, RingHolds
<1>3. Places(o, way) = {}
  <2>0. \A i \in DOMAIN way : s[way[i].op] = "IN_FLIGHT"
    BY ZenonT(30) DEF Found, RingHolds
  <2>1. \A i \in DOMAIN way : way[i].op # o
    BY <2>0, ZenonT(30)
  <2>. QED
    BY <2>1, ZenonT(30) DEF Places
<1>4. s[o] = "COMPLETE" \/ s[o] = "PREPARED"
  BY SMTT(30) DEF States
<1>5. /\ Prepare(o, s) \in [Ops -> States] /\ Prepare(o, s)[o] = "PREPARED"
      /\ \A q \in Ops \ {o} : Prepare(o, s)[q] = s[q]
  BY <1>4, SMTT(60) DEF Prepare, States
<1>. QED
  BY SMTT(30), <1>2, <1>3, <1>5 DEF FreeFor

\* Its batch could not be submitted: the process is about to stop.
LEMMA Traps ==
  ASSUME NEW f \in Fibers, NEW s \in [Ops -> States], NEW g \in [Ops -> Nat],
         NEW way \in Seq(Completion), Found(f, s, g, way), Typed',
         NEW o \in Ops, s[o] # "IN_FLIGHT", trapped' = TRUE,
         state' = Prepare(o, s), got' = g, UNCHANGED <<owner, batch, inflight, items>>,
         Way' = way
  PROVE  UcInv'
<1>. DEFINE p == Prepare(o, s)
<1>1. /\ p \in [Ops -> States] /\ p[o] = "PREPARED" /\ \A q \in Ops \ {o} : p[q] = s[q]
  <2>1. FreeFor(o, s, way)
    BY ZenonT(60), TakenIsFree
  <2>. QED
    BY <2>1 DEF FreeFor
<1>. HIDE DEF p
<1>2. \A q \in Ops : p[q] = "IN_FLIGHT" <=> s[q] = "IN_FLIGHT"
  BY <1>1, SMTT(30)
<1>4. Owned(p)'
  BY SMTT(30), <1>2 DEF Found, Owned
<1>5. Waits(p, Fibers)'
  BY SMTT(30) DEF Waits
<1>6. RingHolds(p, g, way)'
  <2>1. WithRing \subseteq Ops /\ \A i \in DOMAIN way : way[i].op \in Ops
    <3>1. Range(batch) \subseteq Ops
      BY RangeOfSeq DEF Found, Typed
    <3>2. \A i \in DOMAIN way : way[i] \in Completion
      BY SMTT(30)
    <3>. QED
      BY SMTT(30), <3>1, <3>2 DEF Found, Typed, WithRing, Completion
  <2>. QED
    BY SMTT(30), <1>2, <2>1 DEF Found, RingHolds, WithRing
<1>7. AllInOrder(p, g, way)'
  BY <1>2 DEF Found, AllInOrder
<1>. QED
  BY ZenonT(60), <1>4, <1>5, <1>6, <1>7 DEF UcInv, Owned, Waits, RingHolds, AllInOrder, p

\* An operation nothing in the ring knows of is in order with no completions.
LEMMA NoneToCome ==
  ASSUME NEW way, NEW o, Places(o, way) = {}
  PROVE  InOrder(o, 0, 0, way)
<1>1. {way[i].item : i \in Places(o, way)} = {}
  OBVIOUS
<1>2. 0 + 1 .. 0 = {}
  BY SMTT(30)
<1>. QED
  BY <1>1, <1>2, SMTT(30) DEF InOrder

\* Its record is appended, after the batch was submitted if that was full.
LEMMA Stages ==
  ASSUME NEW f \in Fibers, NEW s \in [Ops -> States], NEW g \in [Ops -> Nat],
         NEW way \in Seq(Completion), Found(f, s, g, way), Typed',
         NEW o \in Ops, s[o] # "IN_FLIGHT",
         current' = [current EXCEPT ![f] = o], UNCHANGED trapped,
         IF Len(batch) = SqEntries
         THEN batch' = <<o>> /\ inflight' = inflight \cup Range(batch)
         ELSE batch' = Append(batch, o) /\ UNCHANGED inflight,
         owner' = [owner EXCEPT ![o] = f],
         state' = [Prepare(o, s) EXCEPT ![o] = "IN_FLIGHT"],
         items' = [items EXCEPT ![o] = 0], got' = [g EXCEPT ![o] = 0], Way' = way
  PROVE  UcInv'
<1>0. FreeFor(o, s, way)
  BY ZenonT(60), TakenIsFree
<1>1. s[o] # "IN_FLIGHT" /\ o \notin WithRing /\ Places(o, way) = {}
  BY <1>0 DEF FreeFor
<1>2. /\ state' \in [Ops -> States] /\ state'[o] = "IN_FLIGHT"
      /\ \A q \in Ops \ {o} : state'[q] = s[q]
  <2>1. /\ Prepare(o, s) \in [Ops -> States]
        /\ \A q \in Ops \ {o} : Prepare(o, s)[q] = s[q]
    BY <1>0, ZenonT(30) DEF FreeFor
  <2>. QED
    BY <2>1, SMTT(30) DEF States
<1>3. /\ items'[o] = 0 /\ got'[o] = 0 /\ owner'[o] = f /\ current'[f] = o
      /\ \A h \in Fibers \ {f} : current'[h] = current[h]
      /\ \A q \in Ops \ {o} : items'[q] = items[q] /\ got'[q] = g[q] /\ owner'[q] = owner[q]
  BY DEF Found, Typed
<1>4. /\ WithRing' = WithRing \cup {o} /\ IsInjective(batch')
      /\ Range(batch') \cap inflight' = {} /\ Range(batch') \subseteq Range(batch) \cup {o}
  <2>0. /\ batch \in Seq(Ops) /\ IsInjective(batch) /\ Range(batch) \cap inflight = {}
        /\ o \notin Range(batch) /\ o \notin inflight
    BY <1>1 DEF Found, Typed, RingHolds, WithRing
  <2>1. CASE Len(batch) = SqEntries
    <3>1. Range(<<o>>) = {o} /\ IsInjective(<<o>>)
      BY SMTT(30) DEF Range, IsInjective
    <3>2. batch' = <<o>> /\ inflight' = inflight \cup Range(batch)
      BY SMTT(30), <2>1
    <3>. QED
      BY ONLY <2>0, <3>2, <3>1, SMTT(30) DEF WithRing
  <2>2. CASE Len(batch) # SqEntries
    <3>1. Range(Append(batch, o)) = Range(batch) \cup {o} /\ IsInjective(Append(batch, o))
      BY <2>0, DistinctAppend
    <3>. QED
      BY ZenonT(60), <2>0, <2>2, <3>1 DEF WithRing
  <2>. QED
    BY SMTT(30), <2>1, <2>2
<1>5. WithRing \subseteq Ops /\ \A i \in DOMAIN way : way[i].op \in Ops /\ way[i].op # o
  <2>1. Range(batch) \subseteq Ops
    BY SMTT(30), RangeOfSeq DEF Found, Typed
  <2>2. \A i \in DOMAIN way : way[i] \in Completion
    BY SMTT(30)
  <2>3. \A i \in DOMAIN way : way[i].op # o
    BY SMTT(30), <1>1 DEF Places
  <2>. QED
    BY ZenonT(60), <2>1, <2>2, <2>3 DEF Found, Typed, WithRing, Completion
<1>7. Owned(state)'
  BY SMTT(60), <1>2, <1>3 DEF Found, Owned
<1>8. Waits(state, Fibers)'
  <2>. SUFFICES ASSUME NEW h \in Fibers, current'[h] # NoOp
                PROVE  state'[current'[h]] = "IN_FLIGHT" /\ owner'[current'[h]] = h
    BY SMTT(30) DEF Waits
  <2>1. CASE h = f
    BY SMTT(30), <1>2, <1>3, <2>1
  <2>2. CASE h # f
    <3>1. current'[h] = current[h] /\ current[h] # NoOp
      BY SMTT(30), <1>3, <2>2
    <3>2. current[h] \in Ops
      BY SMTT(30), <3>1 DEF Found, Typed
    <3>3. s[current[h]] = "IN_FLIGHT" /\ owner[current[h]] = h
      BY SMTT(60), <2>2, <3>1 DEF Found, Waits
    <3>. QED
      BY SMTT(30), <1>1, <1>2, <1>3, <3>1, <3>2, <3>3
  <2>. QED
    BY SMTT(30), <2>1, <2>2
<1>9. RingHolds(state, got, Way)'
  <2>1. \A q \in WithRing' : state'[q] = "IN_FLIGHT"
    BY ZenonT(60), <1>1, <1>2, <1>4, <1>5 DEF Found, RingHolds
  <2>2. \A q \in Range(batch') : items'[q] = 0 /\ got'[q] = 0
    BY SMTT(30), <1>1, <1>3, <1>4, <1>5 DEF Found, RingHolds, WithRing
  <2>3. \A i \in DOMAIN way :
          state'[way[i].op] = "IN_FLIGHT" /\ (~way[i].more => way[i].op \notin WithRing')
    <3>1. \A i \in DOMAIN way :
            s[way[i].op] = "IN_FLIGHT" /\ (~way[i].more => way[i].op \notin WithRing)
      BY ZenonT(30) DEF Found, RingHolds
    <3>. QED
      BY ONLY <1>2, <1>4, <1>5, <3>1, SMTT(30)
  <2>4. \A q \in Ops : state'[q] = "IN_FLIGHT" /\ q \notin WithRing' =>
          \E i \in Places(q, way) : ~way[i].more
    BY ZenonT(60), <1>2, <1>4 DEF Found, RingHolds
  <2>. QED
    BY ZenonT(60), <1>4, <2>1, <2>2, <2>3, <2>4 DEF RingHolds
<1>10. AllInOrder(state, got, Way)'
  <2>1. InOrder(o, 0, 0, way)
    BY SMTT(30), <1>1, NoneToCome
  <2>. QED
    BY SMTT(30), <1>2, <1>3, <2>1 DEF Found, AllInOrder
<1>. QED
  BY SMTT(30), <1>7, <1>8, <1>9, <1>10 DEF UcInv

\* Whatever the fiber that was resumed does, the invariant holds after it.
LEMMA DispatchKeeps ==
  ASSUME NEW f \in Fibers, NEW s \in [Ops -> States], NEW g \in [Ops -> Nat],
         NEW way \in Seq(Completion), Found(f, s, g, way), NEW q, Dispatch(f, s, g, q),
         Way' = way, cq' \in Seq(Completion), finished' \in Seq(Completion)
  PROVE  UcInv'
<1>0. CASE ResumeReturned(s, g)
  <2>1. Typed'
    BY <1>0, SMTT(30) DEF ResumeReturned, Found, Typed, States
  <2>. QED
    BY ZenonT(60), <1>0, <2>1, Ends
<1>1. CASE Leave(f, s, g)
  <2>1. Typed'
    BY <1>1, SMTT(30) DEF Leave, Found, Typed, States
  <2>. QED
    BY ZenonT(60), <1>1, <2>1, Leaves
<1>2. ASSUME NEW o \in Ops, MayNext(f, o, s), s[o] = "IN_FLIGHT",
             current' = [current EXCEPT ![f] = o], HandleNext(f, o, Prepare(o, s), g)
      PROVE  UcInv'
  <2>1. Prepare(o, s) = s
    BY SMTT(30), <1>2 DEF Prepare
  <2>2. state' = s /\ got' = g /\ UNCHANGED <<owner, batch, inflight, items, trapped>>
    BY SMTT(30), <1>2, <2>1 DEF HandleNext
  <2>3. Typed'
    BY <1>2, <2>2, SMTT(30) DEF Found, Typed, States
  <2>. QED
    BY ZenonT(60), <1>2, <2>2, <2>3, GoesOn
<1>3. ASSUME NEW o \in Ops, s[o] # "IN_FLIGHT",
             current' = [current EXCEPT ![f] = o], HandleNext(f, o, Prepare(o, s), g)
      PROVE  UcInv'
  <2>1. /\ Prepare(o, s) \in [Ops -> States] /\ Prepare(o, s)[o] = "PREPARED"
    <3>1. FreeFor(o, s, way)
      BY ZenonT(60), <1>3, TakenIsFree
    <3>. QED
      BY <3>1, ZenonT(30) DEF FreeFor
  <2>2. CASE /\ trapped' = TRUE
             /\ state' = Prepare(o, s) /\ got' = g
             /\ UNCHANGED <<batch, inflight, owner, items>>
    <3>1. Typed'
      BY <1>3, <2>1, <2>2, SMTT(30) DEF Found, Typed, States
    <3>. QED
      BY ZenonT(60), <1>3, <2>2, <3>1, Traps
  <2>3. CASE /\ IF Len(batch) = SqEntries
                THEN batch' = <<o>> /\ inflight' = inflight \cup Range(batch)
                ELSE batch' = Append(batch, o) /\ UNCHANGED inflight
             /\ owner' = [owner EXCEPT ![o] = f]
             /\ state' = [Prepare(o, s) EXCEPT ![o] = "IN_FLIGHT"]
             /\ items' = [items EXCEPT ![o] = 0] /\ got' = [g EXCEPT ![o] = 0]
             /\ UNCHANGED trapped
    <3>1. batch' \in Seq(Ops) /\ inflight' \subseteq Ops
      <4>1. Range(batch) \subseteq Ops
        BY RangeOfSeq DEF Found, Typed
      <4>2. batch \in Seq(Ops) /\ inflight \subseteq Ops /\ <<o>> \in Seq(Ops)
        BY DEF Found, Typed
      <4>3. Append(batch, o) \in Seq(Ops)
        BY <4>2
      <4>. QED
        BY ONLY <2>3, <4>1, <4>2, <4>3, ZenonT(30)
    <3>2. Typed'
      BY <1>3, <2>1, <2>3, <3>1, SMTT(60) DEF Found, Typed, States
    <3>. QED
      BY ZenonT(60), <1>3, <2>3, <3>2, Stages
  <2>. QED
    BY ZenonT(60), <1>3, <2>1, <2>2, <2>3 DEF HandleNext
<1>. QED
  BY ZenonT(60), <1>0, <1>1, <1>2, <1>3 DEF Dispatch

-----------------------------------------------------------------------------
(* The completions on their way, under each step that moves them.          *)

\* The reactor takes the oldest one.
LEMMA WayTaken ==
  ASSUME Typed, cq # <<>>, cq' = Tail(cq), UNCHANGED finished
  PROVE  /\ Way \in Seq(Completion) /\ Way # <<>> /\ Way[1] = Head(cq) /\ Way' = Tail(Way)
         /\ cq' \in Seq(Completion) /\ finished' \in Seq(Completion)
         /\ DOMAIN Way = 1 .. Len(Way) /\ Len(Way) \in Nat /\ 1 \in DOMAIN Way
         /\ \A i \in DOMAIN Way' :
              i \in Nat /\ i + 1 \in DOMAIN Way /\ Way'[i] = Way[i + 1]
         /\ \A i \in DOMAIN Way : i # 1 => i - 1 \in DOMAIN Way' /\ Way'[i - 1] = Way[i]
<1>1. cq \in Seq(Completion) /\ finished \in Seq(Completion)
  BY DEF Typed
<1>2. /\ Way \in Seq(Completion) /\ Way # <<>> /\ Way[1] = Head(cq) /\ Way' = Tail(Way)
      /\ cq' \in Seq(Completion) /\ finished' \in Seq(Completion)
  BY <1>1, SMTT(60) DEF Way
<1>3. /\ DOMAIN Way = 1 .. Len(Way) /\ Len(Way) \in Nat \ {0} /\ 1 \in DOMAIN Way
  BY ONLY <1>2, SMTT(30)
<1>4. /\ DOMAIN Tail(Way) = 1 .. Len(Way) - 1
      /\ \A i \in 1 .. Len(Way) - 1 : Tail(Way)[i] = Way[i + 1]
  BY ONLY <1>2, <1>3, SMTT(30)
<1>5. \A i \in DOMAIN Way' : i \in Nat /\ i + 1 \in DOMAIN Way /\ Way'[i] = Way[i + 1]
  BY ONLY <1>2, <1>3, <1>4, SMTT(30)
<1>6. \A i \in DOMAIN Way : i # 1 => i - 1 \in DOMAIN Way' /\ Way'[i - 1] = Way[i]
  BY ONLY <1>2, <1>3, <1>4, SMTT(30)
<1>. QED
  BY SMTT(30), <1>2, <1>3, <1>5, <1>6

\* The kernel makes one: it is the last on the way.
LEMMA WayGrows ==
  ASSUME Typed, NEW c \in Completion, finished' = Append(finished, c), UNCHANGED cq
  PROVE  /\ Way \in Seq(Completion) /\ Way' = Append(Way, c)
         /\ finished' \in Seq(Completion)
         /\ Len(Way) \in Nat /\ DOMAIN Way = 1 .. Len(Way)
         /\ DOMAIN Way' = 1 .. Len(Way) + 1 /\ Way'[Len(Way) + 1] = c
         /\ \A i \in DOMAIN Way : Way'[i] = Way[i]
<1>1. cq \in Seq(Completion) /\ finished \in Seq(Completion)
  BY DEF Typed
<1>2. Way \in Seq(Completion) /\ Way' = Append(Way, c) /\ finished' \in Seq(Completion)
  BY <1>1, SMTT(30) DEF Way
<1>. QED
  BY ONLY <1>2, SMTT(30)

\* The kernel posts one, and the way is the same.
LEMMA WayPosted ==
  ASSUME Typed, Post
  PROVE  Way' = Way /\ cq' \in Seq(Completion) /\ finished' \in Seq(Completion)
<1>1. cq \in Seq(Completion) /\ finished \in Seq(Completion) /\ finished # <<>>
  BY DEF Typed, Post
<1>2. Head(finished) \in Completion /\ Tail(finished) \in Seq(Completion)
  BY <1>1, SMTT(30)
<1>3. Append(cq, Head(finished)) \o Tail(finished) = cq \o finished
  BY <1>1, SMTT(60)
<1>. QED
  BY SMTT(30), <1>1, <1>2, <1>3 DEF Post, Way

-----------------------------------------------------------------------------
(* The steps.                                                              *)

\* What the oldest completion says of its operation and the fiber it resumes.
LEMMA OldestIs ==
  ASSUME UcInv, cq # <<>>, cq' = Tail(cq), UNCHANGED finished
  PROVE  LET c == Head(cq)
             o == c.op
         IN /\ c \in Completion /\ o \in Ops /\ state[o] = "IN_FLIGHT"
            /\ owner[o] \in Fibers
            /\ c.item = got[o] + 1 /\ c.item <= items[o] /\ o \notin Range(batch)
            /\ InOrder(o, c.item, items[o], Way')
            /\ ~c.more => Places(o, Way') = {} /\ o \notin WithRing
<1>. DEFINE c == Head(cq)
            o == c.op
<1>1. /\ Way \in Seq(Completion) /\ Way # <<>> /\ Way[1] = c /\ Way' = Tail(Way)
      /\ 1 \in DOMAIN Way
  BY WayTaken DEF UcInv
<1>2. c \in Completion
  BY <1>1, SMTT(30)
<1>. HIDE DEF c
<1>3. o \in Ops /\ c.item \in Nat
  BY <1>2 DEF Completion
<1>4. state[o] = "IN_FLIGHT" /\ (~c.more => o \notin WithRing)
  BY <1>1, ZenonT(30) DEF UcInv, RingHolds
<1>5. owner[o] \in Fibers
  BY SMTT(30), <1>3, <1>4 DEF UcInv, Owned
<1>7. InOrder(o, got[o], items[o], Way) /\ got[o] \in Nat /\ items[o] \in Nat
  BY SMTT(30), <1>3, <1>4 DEF UcInv, AllInOrder, Typed
<1>8. /\ c.item = got[o] + 1 /\ InOrder(o, c.item, items[o], Way')
      /\ ~c.more => Places(o, Way') = {}
  BY ONLY SMTT(60), <1>1, <1>7, HandedOver
<1>9. c.item <= items[o]
  BY <1>8 DEF InOrder
<1>10. o \notin Range(batch)
  <2>1. items[o] # 0
    BY <1>7, <1>8, <1>9, SMTT(30)
  <2>. QED
    BY <2>1, ZenonT(30) DEF UcInv, RingHolds
<1>. QED
  BY SMTT(60), <1>2, <1>3, <1>4, <1>5, <1>8, <1>9, <1>10 DEF c

\* One of several: its record stays in flight while its owner runs.
LEMMA OneOfSeveral ==
  ASSUME UcInv, HandleCompletion, Head(cq).more
  PROVE  UcInv'
<1>. DEFINE c == Head(cq)
            o == c.op
            f == owner[o]
            g == [got EXCEPT ![o] = c.item]
<1>0. /\ cq # <<>> /\ cq' = Tail(cq) /\ UNCHANGED finished /\ ~trapped
      /\ Dispatch(f, state, g, ready)
  BY SMTT(60) DEF HandleCompletion, Completed
<1>1. /\ c \in Completion /\ o \in Ops /\ state[o] = "IN_FLIGHT"
      /\ f \in Fibers
      /\ c.item = got[o] + 1 /\ c.item <= items[o] /\ o \notin Range(batch)
      /\ InOrder(o, c.item, items[o], Way')
  BY ZenonT(60), <1>0, OldestIs
<1>2. /\ Way \in Seq(Completion) /\ Way # <<>> /\ Way[1] = c /\ Way' = Tail(Way)
      /\ cq' \in Seq(Completion) /\ finished' \in Seq(Completion)
      /\ \A i \in DOMAIN Way' : i + 1 \in DOMAIN Way /\ Way'[i] = Way[i + 1]
      /\ \A i \in DOMAIN Way : i # 1 => i - 1 \in DOMAIN Way' /\ Way'[i - 1] = Way[i]
  BY ZenonT(60), <1>0, WayTaken DEF UcInv
<1>3. c.more
  OBVIOUS
<1>. HIDE DEF c, f
<1>4. Typed
  BY SMTT(30) DEF UcInv
<1>8. g \in [Ops -> Nat] /\ g[o] = c.item /\ \A q \in Ops \ {o} : g[q] = got[q]
  BY <1>1, <1>4 DEF Typed, Completion
<1>. HIDE DEF g
<1>9. state \in [Ops -> States] /\ Way' \in Seq(Completion)
  BY SMTT(60), <1>2, <1>4 DEF Typed, States
<1>10. Owned(state) /\ Waits(state, Fibers \ {f})
  BY ZenonT(60) DEF UcInv, Owned, Waits
<1>11. RingHolds(state, g, Way')
  <2>0. RingHolds(state, got, Way)
    BY SMTT(30) DEF UcInv
  <2>1. Range(batch) \subseteq Ops
    BY SMTT(60), <1>4, RangeOfSeq DEF Typed
  <2>2. \A q \in Range(batch) : items[q] = 0 /\ g[q] = 0
    BY ZenonT(60), <1>1, <1>8, <2>0, <2>1 DEF RingHolds
  <2>3. \A i \in DOMAIN Way' :
          state[Way'[i].op] = "IN_FLIGHT" /\ (~Way'[i].more => Way'[i].op \notin WithRing)
    BY SMTT(30), <1>2, <2>0 DEF RingHolds
  <2>4. ASSUME NEW q \in Ops, state[q] = "IN_FLIGHT", q \notin WithRing
        PROVE  \E i \in Places(q, Way') : ~Way'[i].more
    <3>1. PICK i \in Places(q, Way) : ~Way[i].more
      BY ZenonT(60), <2>0, <2>4 DEF RingHolds
    <3>2. i # 1 /\ i \in DOMAIN Way /\ Way[i].op = q
      BY <1>2, <1>3, <3>1 DEF Places
    <3>. QED
      BY ZenonT(60), <1>2, <3>1, <3>2 DEF Places
  <2>. QED
    BY ZenonT(60), <2>0, <2>1, <2>2, <2>3, <2>4 DEF RingHolds
<1>12. AllInOrder(state, g, Way')
  <2>. SUFFICES ASSUME NEW q \in Ops, state[q] = "IN_FLIGHT"
                PROVE  InOrder(q, g[q], items[q], Way')
    BY SMTT(30) DEF AllInOrder
  <2>1. CASE q = o
    BY ZenonT(60), <1>1, <1>8, <2>1
  <2>2. CASE q # o
    <3>1. InOrder(q, got[q], items[q], Way) /\ got[q] \in Nat /\ items[q] \in Nat
      BY SMTT(30), <1>4 DEF UcInv, AllInOrder, Typed
    <3>2. InOrder(q, got[q], items[q], Tail(Way))
      BY ONLY SMTT(60), <1>2, <2>2, <3>1, q \in Ops, OthersKept
    <3>. QED
      BY SMTT(30), <1>2, <1>8, <2>2, <3>2
  <2>. QED
    BY ZenonT(60), <2>1, <2>2
<1>13. Found(f, state, g, Way')
  BY SMTT(60), <1>0, <1>4, <1>10, <1>11, <1>12 DEF Found
<1>. QED
  BY ZenonT(60), <1>0, <1>1, <1>2, <1>8, <1>9, <1>13, DispatchKeeps

\* The last one: its record is COMPLETE before its owner runs.
LEMMA LastOne ==
  ASSUME UcInv, HandleCompletion, ~Head(cq).more
  PROVE  UcInv'
<1>. DEFINE c == Head(cq)
            o == c.op
            f == owner[o]
            s == [state EXCEPT ![o] = "COMPLETE"]
            g == [got EXCEPT ![o] = c.item]
<1>0. /\ cq # <<>> /\ cq' = Tail(cq) /\ UNCHANGED finished /\ ~trapped
      /\ Dispatch(f, s, g, ready)
  BY DEF HandleCompletion, Completed
<1>1. /\ c \in Completion /\ o \in Ops /\ state[o] = "IN_FLIGHT"
      /\ f \in Fibers /\ f = owner[o]
      /\ c.item = got[o] + 1 /\ c.item <= items[o] /\ o \notin Range(batch)
      /\ Places(o, Way') = {} /\ o \notin WithRing
  BY ZenonT(60), <1>0, OldestIs
<1>2. /\ Way \in Seq(Completion) /\ Way # <<>> /\ Way[1] = c /\ Way' = Tail(Way)
      /\ cq' \in Seq(Completion) /\ finished' \in Seq(Completion)
      /\ \A i \in DOMAIN Way' : i + 1 \in DOMAIN Way /\ Way'[i] = Way[i + 1]
  BY ZenonT(60), <1>0, WayTaken DEF UcInv
<1>. HIDE DEF c, f
<1>3. Typed
  BY SMTT(30) DEF UcInv
<1>4. g \in [Ops -> Nat] /\ \A q \in Ops \ {o} : g[q] = got[q]
  BY SMTT(30), <1>1, <1>3 DEF Typed, Completion
<1>5. /\ s \in [Ops -> States] /\ s[o] = "COMPLETE"
      /\ \A q \in Ops \ {o} : s[q] = state[q]
  BY <1>1, <1>3, SMTT(30) DEF Typed, States
<1>. HIDE DEF g, s
<1>6. Way' \in Seq(Completion) /\ \A i \in DOMAIN Way' : Way'[i].op \in Ops /\ Way'[i].op # o
  <2>1. Way' \in Seq(Completion) /\ \A i \in DOMAIN Way' : Way'[i] \in Completion
    BY ONLY <1>2, SMTT(30)
  <2>2. \A i \in DOMAIN Way' : Way'[i].op # o
    BY <1>1, ZenonT(30) DEF Places
  <2>. QED
    BY SMTT(30), <2>1, <2>2 DEF Completion
<1>8. Owned(s)
  BY SMTT(60), <1>5 DEF UcInv, Owned
<1>9. Waits(s, Fibers \ {f})
  <2>. SUFFICES ASSUME NEW h \in Fibers \ {f}, current[h] # NoOp
                PROVE  s[current[h]] = "IN_FLIGHT" /\ owner[current[h]] = h
    BY SMTT(60) DEF Waits
  <2>2. state[current[h]] = "IN_FLIGHT" /\ owner[current[h]] = h
    BY ZenonT(60), <1>0 DEF UcInv, Waits
  <2>1. current[h] \in Ops \ {o}
    BY SMTT(60), <1>1, <1>3, <2>2 DEF Typed
  <2>. QED
    BY SMTT(30), <1>5, <2>1, <2>2
<1>10. RingHolds(s, g, Way')
  <2>0. RingHolds(state, got, Way)
    BY SMTT(30) DEF UcInv
  <2>1. WithRing \subseteq Ops /\ Range(batch) \subseteq WithRing
    BY SMTT(60), <1>3, RangeOfSeq DEF WithRing, Typed
  <2>2. \A q \in WithRing : s[q] = "IN_FLIGHT"
    BY ZenonT(60), <1>1, <1>5, <2>0, <2>1 DEF RingHolds
  <2>3. \A q \in Range(batch) : items[q] = 0 /\ g[q] = 0
    BY ZenonT(60), <1>1, <1>4, <2>0, <2>1 DEF RingHolds
  <2>4. \A i \in DOMAIN Way' :
          s[Way'[i].op] = "IN_FLIGHT" /\ (~Way'[i].more => Way'[i].op \notin WithRing)
    BY SMTT(30), <1>2, <1>5, <1>6, <2>0 DEF RingHolds
  <2>5. ASSUME NEW q \in Ops, s[q] = "IN_FLIGHT", q \notin WithRing
        PROVE  \E i \in Places(q, Way') : ~Way'[i].more
    <3>1. q # o /\ state[q] = "IN_FLIGHT"
      BY SMTT(30), <1>5, <2>5
    <3>2. \E i \in Places(q, Way) : ~Way[i].more
      BY <2>0, <2>5, <3>1 DEF RingHolds
    <3>. QED
      BY ONLY ZenonT(60), <1>2, <3>1, <3>2, q \in Ops, OthersKept
  <2>. QED
    BY SMTT(30), <2>0, <2>2, <2>3, <2>4, <2>5 DEF RingHolds
<1>11. AllInOrder(s, g, Way')
  <2>. SUFFICES ASSUME NEW q \in Ops, s[q] = "IN_FLIGHT"
                PROVE  InOrder(q, g[q], items[q], Way')
    BY SMTT(30) DEF AllInOrder
  <2>1. q # o /\ state[q] = "IN_FLIGHT" /\ g[q] = got[q]
    BY SMTT(60), <1>4, <1>5
  <2>2. InOrder(q, got[q], items[q], Way) /\ got[q] \in Nat /\ items[q] \in Nat
    BY ZenonT(60), <1>3, <2>1 DEF UcInv, AllInOrder, Typed
  <2>3. InOrder(q, got[q], items[q], Tail(Way))
    BY ONLY SMTT(30), <1>2, <2>1, <2>2, q \in Ops, OthersKept
  <2>. QED
    BY <1>2, <2>1, <2>3
<1>12. Found(f, s, g, Way')
  BY SMTT(60), <1>0, <1>3, <1>8, <1>9, <1>10, <1>11 DEF Found
<1>. QED
  BY ZenonT(60), <1>0, <1>1, <1>2, <1>4, <1>5, <1>6, <1>12, DispatchKeeps

\* A fiber of the ready queue runs, wherever else it is waited for.
LEMMA ReadyRuns ==
  ASSUME UcInv, NEW f \in Fibers, DispatchReady(f)
  PROVE  UcInv'
<1>1. ~trapped /\ Dispatch(f, state, got, ready \ {f}) /\ UNCHANGED <<finished, cq>>
  BY DEF DispatchReady
<1>2. Typed
  BY SMTT(30) DEF UcInv
<1>3. state \in [Ops -> States] /\ got \in [Ops -> Nat] /\ Way \in Seq(Completion) /\ Way' = Way
  BY SMTT(60), <1>1, <1>2, ConcatEntries DEF Typed, States, Way
<1>5. Found(f, state, got, Way)
  BY ZenonT(60), <1>1 DEF UcInv, Found, Waits
<1>6. cq' \in Seq(Completion) /\ finished' \in Seq(Completion)
  BY SMTT(30), <1>1, <1>2 DEF Typed
<1>. QED
  BY SMTT(30), <1>1, <1>3, <1>5, <1>6, DispatchKeeps

\* The kernel accepts the oldest n of the batch.
LEMMA EnterKeeps ==
  ASSUME UcInv, NEW n, Enter(n)
  PROVE  UcInv'
<1>. DEFINE a == SubSeq(batch, 1, n)
            b == SubSeq(batch, n + 1, Len(batch))
<1>1. /\ batch \in Seq(Ops) /\ IsInjective(batch) /\ n \in 0 .. Len(batch)
      /\ Range(batch) \cap inflight = {} /\ inflight \subseteq Ops
  BY SMTT(30) DEF UcInv, Typed, RingHolds, Enter
<1>2. /\ a \in Seq(Ops) /\ b \in Seq(Ops) /\ Range(batch) = Range(a) \cup Range(b)
      /\ IsInjective(b) /\ Range(a) \cap Range(b) = {}
  BY ONLY SMTT(30), <1>1, DistinctSplit
<1>3. /\ batch' = b /\ inflight' = inflight \cup Range(a)
      /\ UNCHANGED <<current, opVars, finished, cq, items, got, trapped>>
  BY SMTT(30) DEF Enter, fiberVars
<1>. HIDE DEF a, b
<1>4. /\ WithRing' = WithRing /\ Range(batch') \cap inflight' = {}
      /\ Range(batch') \subseteq Range(batch) /\ inflight' \subseteq Ops
  <2>1. Range(a) \subseteq Ops
    BY SMTT(30), <1>2, RangeOfSeq
  <2>. QED
    BY ONLY <1>1, <1>2, <1>3, <2>1, SMTT(30) DEF WithRing
<1>5. Typed' /\ Way' = Way
  BY SMTT(60), <1>2, <1>3, <1>4 DEF UcInv, Typed, Way, opVars
<1>6. (Owned(state) /\ Waits(state, Fibers) /\ AllInOrder(state, got, Way))'
  BY ZenonT(60), <1>3, <1>5 DEF UcInv, Owned, Waits, AllInOrder, opVars
<1>7. RingHolds(state, got, Way)'
  BY ZenonT(60), <1>2, <1>3, <1>4, <1>5 DEF UcInv, RingHolds, opVars
<1>. QED
  BY SMTT(30), <1>5, <1>6, <1>7 DEF UcInv

\* A request completes once more, or for the last time.
LEMMA CompleteKeeps ==
  ASSUME UcInv, NEW o \in Ops, NEW more \in BOOLEAN, Complete(o, more)
  PROVE  UcInv'
<1>. DEFINE c == [op |-> o, item |-> items[o] + 1, more |-> more]
<1>1. /\ o \in inflight /\ items' = [items EXCEPT ![o] = @ + 1]
      /\ finished' = Append(finished, c)
      /\ inflight' = IF more THEN inflight ELSE inflight \ {o}
      /\ UNCHANGED <<current, state, owner, batch, cq, got, trapped>>
  BY SMTT(30) DEF Complete, opVars, fiberVars
<1>2. Typed /\ RingHolds(state, got, Way)
  BY SMTT(30) DEF UcInv
<1>3. c \in Completion /\ c.op = o /\ c.item = items[o] + 1 /\ c.more = more
  BY <1>2, SMTT(30) DEF Typed, Completion
<1>. HIDE DEF c
<1>4. /\ Way \in Seq(Completion) /\ Way' = Append(Way, c) /\ finished' \in Seq(Completion)
      /\ Len(Way) \in Nat /\ DOMAIN Way = 1 .. Len(Way)
      /\ DOMAIN Way' = 1 .. Len(Way) + 1 /\ Way'[Len(Way) + 1] = c
      /\ \A i \in DOMAIN Way : Way'[i] = Way[i]
  BY ONLY SMTT(60), <1>1, <1>2, <1>3, WayGrows
<1>5. o \in WithRing /\ o \notin Range(batch) /\ state[o] = "IN_FLIGHT"
  BY ZenonT(60), <1>1, <1>2 DEF RingHolds, WithRing
<1>6. /\ items'[o] = items[o] + 1 /\ items[o] \in Nat
      /\ \A q \in Ops \ {o} : items'[q] = items[q]
  BY SMTT(30), <1>1, <1>2 DEF Typed
<1>7. WithRing' = IF more THEN WithRing ELSE WithRing \ {o}
  BY <1>1, <1>5, SMTT(60) DEF WithRing
<1>8. Typed'
  BY <1>1, <1>2, <1>4, SMTT(60) DEF Typed
<1>9. (Owned(state) /\ Waits(state, Fibers))'
  BY ZenonT(60), <1>1 DEF UcInv, Owned, Waits
<1>10. \A i \in Places(o, Way) : Way[i].more
  BY SMTT(60), <1>2, <1>5 DEF RingHolds, Places
<1>11. RingHolds(state, got, Way)'
  <2>1. Range(batch) \subseteq Ops /\ Range(batch) \cap inflight' = {}
    BY SMTT(60), <1>1, <1>2, RangeOfSeq DEF Typed, RingHolds
  <2>2. \A q \in Range(batch) : items'[q] = 0 /\ got[q] = 0
    BY ZenonT(60), <1>2, <1>5, <1>6, <2>1 DEF RingHolds
  <2>3. \A i \in DOMAIN Way' :
          state[Way'[i].op] = "IN_FLIGHT" /\ (~Way'[i].more => Way'[i].op \notin WithRing')
    <3>. SUFFICES ASSUME NEW i \in DOMAIN Way'
                  PROVE  /\ state[Way'[i].op] = "IN_FLIGHT"
                         /\ ~Way'[i].more => Way'[i].op \notin WithRing'
      BY SMTT(30)
    <3>1. i \in DOMAIN Way \/ i = Len(Way) + 1
      BY <1>4, SMTT(30)
    <3>2. CASE i \in DOMAIN Way
      <4>1. state[Way[i].op] = "IN_FLIGHT" /\ (~Way[i].more => Way[i].op \notin WithRing)
        BY SMTT(60), <1>2, <3>2 DEF RingHolds
      <4>. QED
        BY SMTT(60), <1>4, <1>7, <3>2, <4>1
    <3>3. CASE i = Len(Way) + 1
      BY SMTT(30), <1>3, <1>4, <1>5, <1>7, <3>3
    <3>. QED
      BY SMTT(60), <3>1, <3>2, <3>3
  <2>4. ASSUME NEW q \in Ops, state[q] = "IN_FLIGHT", q \notin WithRing'
        PROVE  \E i \in Places(q, Way') : ~Way'[i].more
    <3>1. CASE q \notin WithRing
      <4>1. \E i \in Places(q, Way) : ~Way[i].more
        BY <1>2, <2>4, <3>1 DEF RingHolds
      <4>. QED
        BY ONLY ZenonT(60), <1>3, <1>4, <4>1, q \in Ops, CompletionAdded
    <3>2. CASE q \in WithRing
      <4>1. q = o /\ ~more
        BY SMTT(60), <1>7, <2>4, <3>2
      <4>2. Len(Way) + 1 \in Places(q, Way') /\ ~Way'[Len(Way) + 1].more
        BY <1>3, <1>4, <4>1, SMTT(60) DEF Places
      <4>. QED
        BY SMTT(30), <4>2
    <3>. QED
      BY SMTT(60), <3>1, <3>2
  <2>5. \A q \in WithRing' : state[q] = "IN_FLIGHT"
    BY ZenonT(60), <1>2, <1>7 DEF RingHolds
  <2>. QED
    BY ZenonT(60), <1>1, <1>2, <2>1, <2>2, <2>3, <2>4, <2>5 DEF RingHolds
<1>12. AllInOrder(state, got, Way)'
  <2>. SUFFICES ASSUME NEW q \in Ops, state[q] = "IN_FLIGHT"
                PROVE  InOrder(q, got[q], items'[q], Way')
    BY SMTT(30), <1>1 DEF AllInOrder
  <2>1. InOrder(q, got[q], items[q], Way) /\ got[q] \in Nat /\ items[q] \in Nat
    BY SMTT(60), <1>2 DEF UcInv, AllInOrder, Typed
  <2>2. CASE q # o
    <3>1. InOrder(q, got[q], items[q], Append(Way, c))
      BY ONLY ZenonT(60), <1>3, <1>4, <2>1, <2>2, q \in Ops, CompletionAdded
    <3>. QED
      BY ZenonT(60), <1>4, <1>6, <2>2, <3>1
  <2>3. CASE q = o
    <3>1. InOrder(q, got[q], items[q] + 1, Append(Way, c))
      BY ONLY ZenonT(60), <1>3, <1>4, <1>10, <2>1, <2>3, q \in Ops, CompletionAdded
    <3>. QED
      BY ZenonT(60), <1>4, <1>6, <2>3, <3>1
  <2>. QED
    BY ZenonT(60), <2>2, <2>3
<1>. QED
  BY SMTT(30), <1>8, <1>9, <1>11, <1>12 DEF UcInv

\* Posting a completion changes only where it waits.
LEMMA PostKeeps ==
  ASSUME UcInv, Post
  PROVE  UcInv'
<1>1. Way' = Way /\ cq' \in Seq(Completion) /\ finished' \in Seq(Completion)
  BY SMTT(30), WayPosted DEF UcInv
<1>2. UNCHANGED <<current, state, owner, batch, inflight, items, got, trapped>>
  BY SMTT(30) DEF Post, opVars, fiberVars
<1>3. Typed'
  BY SMTT(30), <1>1, <1>2 DEF UcInv, Typed
<1>. QED
  BY ZenonT(60), <1>1, <1>2, <1>3
     DEF UcInv, Owned, Waits, RingHolds, AllInOrder, WithRing

\* The invariant at the start.
LEMMA UcInitially == Init => UcInv
<1>. SUFFICES ASSUME Init PROVE UcInv
  BY SMTT(30)
<1>1. Way = <<>> /\ Range(batch) = {} /\ IsInjective(batch)
  BY SMTT(30) DEF Init, Way, Range, IsInjective
<1>2. Typed
  BY SMTT(30) DEF Init, Typed
<1>3. /\ \A o \in Ops : state[o] # "IN_FLIGHT"
      /\ \A f \in Fibers : current[f] = NoOp
  BY SMTT(60) DEF Init
<1>4. RingHolds(state, got, Way)
  BY SMTT(60), <1>1, <1>3 DEF Init, RingHolds, WithRing
<1>5. Owned(state) /\ Waits(state, Fibers) /\ AllInOrder(state, got, Way)
  BY ZenonT(60), <1>3 DEF Owned, Waits, AllInOrder
<1>. QED
  BY SMTT(30), <1>2, <1>4, <1>5 DEF UcInv

\* Every step keeps the invariant.
LEMMA UcStep == UcInv /\ [Next]_vars => UcInv'
<1>. SUFFICES ASSUME UcInv, [Next]_vars PROVE UcInv'
  OBVIOUS
<1>1. CASE HandleCompletion
  BY SMTT(30), <1>1, OneOfSeveral, LastOne
<1>2. CASE \E f \in Fibers : DispatchReady(f)
  BY SMTT(30), <1>2, ReadyRuns
<1>3. CASE \E n \in 1 .. SqEntries : Enter(n)
  BY SMTT(30), <1>3, EnterKeeps
<1>4. CASE \E o \in Ops, more \in BOOLEAN : Complete(o, more)
  BY SMTT(30), <1>4, CompleteKeeps
<1>5. CASE Post
  BY SMTT(60), <1>5, PostKeeps
<1>6. CASE UNCHANGED vars
  BY ZenonT(60), <1>6 DEF UcInv, Typed, Owned, Waits, RingHolds, AllInOrder, WithRing, Way,
     vars, fiberVars, opVars, ringVars
<1>. QED
  BY SMTT(30), <1>1, <1>2, <1>3, <1>4, <1>5, <1>6 DEF Next

\* The invariant holds in every reachable state.
LEMMA UcAlways == Spec => []UcInv
BY UcInitially, UcStep, PTL DEF Spec

-----------------------------------------------------------------------------
\* For every number of fibers, records and completions of one request, a record
\* serves one kernel request at a time, and is in flight with an owner for as
\* long as the kernel can name it, wherever its owner is meanwhile
\* (uc/scheduler/scheduler.c:29, 54, 120).
THEOREM OneRequestPerRecord == Spec => []RecordStable
<1>1. UcInv => /\ IsInjective(batch) /\ Range(batch) \cap inflight = {}
               /\ \A c \in Range(Way) : ~c.more => c.op \notin Range(batch) \cup inflight
  BY ZenonT(60) DEF UcInv, RingHolds, WithRing, Range
<1>2. ASSUME UcInv, NEW o \in Range(batch) \cup inflight \cup {c.op : c \in Range(Way)}
      PROVE  state[o] = "IN_FLIGHT" /\ owner[o] \in Fibers
  <2>. UcInv
    BY <1>2
  <2>1. Way \in Seq(Completion) /\ Range(batch) \subseteq Ops /\ inflight \subseteq Ops
    BY ZenonT(60), RangeOfSeq, ConcatEntries DEF UcInv, Typed, Way
  <2>2. o \in Ops /\ state[o] = "IN_FLIGHT"
    <3>1. CASE o \in WithRing
      BY ZenonT(60), <2>1, <3>1 DEF UcInv, RingHolds, WithRing
    <3>2. CASE o \in {c.op : c \in Range(Way)}
      <4>1. PICK i \in DOMAIN Way : o = Way[i].op
        BY SMTT(30), <3>2 DEF Range
      <4>2. Way[i] \in Completion
        BY <2>1, <4>1, SMTT(60)
      <4>. QED
        BY ZenonT(60), <4>1, <4>2 DEF UcInv, RingHolds, Completion
    <3>. QED
      BY ZenonT(60), <3>1, <3>2 DEF WithRing
  <2>. QED
    BY SMTT(60), <2>2 DEF UcInv, Owned
<1>3. UcInv => RecordStable
  BY ZenonT(60), <1>1, <1>2 DEF RecordStable
<1>. QED
  BY <1>3, UcAlways, PTL

\* For every number of fibers and records and every size of the batch, a fiber
\* suspended in REQUEST_NEXT has an operation of its own that is staged, with the
\* kernel or on its way back (uc/scheduler/scheduler.c:54-75).
THEOREM WaiterHasOperation == Spec => []NeverStranded
<1>1. UcInv => NeverStranded
  <2>. SUFFICES ASSUME UcInv, ~trapped, NEW f \in Fibers, current[f] # NoOp
                PROVE  /\ owner[current[f]] = f
                       /\ current[f] \notin WithRing => Coming(current[f]) # {}
    BY ZenonT(60) DEF NeverStranded, WithRing
  <2>1. current[f] \in Ops /\ state[current[f]] = "IN_FLIGHT" /\ owner[current[f]] = f
    BY SMTT(30) DEF UcInv, Typed, Waits
  <2>2. current[f] \notin WithRing => \E i \in Places(current[f], Way) : TRUE
    BY <2>1, ZenonT(30) DEF UcInv, RingHolds
  <2>. QED
    BY ZenonT(60), <2>1, <2>2 DEF Places, Coming
<1>. QED
  BY <1>1, UcAlways, PTL

\* For every number of fibers, records and completions of one request, and every
\* size of the queues, the completions of a request reach its owner each once and
\* in the order the kernel made them, the last one last.
THEOREM CompletionsInOrder == Spec => []EachInOrder
<1>1. UcInv => EachInOrder
  BY ZenonT(60) DEF UcInv, EachInOrder, AllInOrder, InOrder, Places, Coming
<1>. QED
  BY <1>1, UcAlways, PTL
=============================================================================
