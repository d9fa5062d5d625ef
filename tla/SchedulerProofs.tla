-------------------------- MODULE SchedulerProofs ---------------------------
(***************************************************************************)
(* The safety of the reactor for every set of fibers, every program and    *)
(* every size of the ring: its inductive invariant, that every request a   *)
(* fiber can make and every step of the ring preserve it, and what follows *)
(* from it.                                                                *)
(***************************************************************************)
EXTENDS Scheduler, DataLemmas, FiniteSetTheorems

\* Where run() stands, against park()'s flush, its limit and the drain.
ControlInv ==
  /\ parking # Null => pc \in {"enter", "wait", "append", "trap"}
  /\ pc = "append" => parking # Null
  /\ parked_count + (IF parking = Null THEN 0 ELSE 1) <= CqEntries
  /\ pc = "trap_joining" => Drained /\ joining_count # 0
  /\ pc = "drained" => Drained /\ joining_count = 0

\* No two of seven sets meet.
Apart(r, b, i, f, c, j, p) ==
  /\ r \cap (b \cup i \cup f \cup c \cup j \cup p) = {}
  /\ b \cap (i \cup f \cup c \cup j \cup p) = {}
  /\ i \cap (f \cup c \cup j \cup p) = {}
  /\ f \cap (c \cup j \cup p) = {}
  /\ c \cap (j \cup p) = {}
  /\ j \cap p = {}

Parking == {parking} \ {Null}

\* OnePlace with its places written out.
Placed ==
  /\ Apart(Range(ready), Range(batch), inflight, Range(finished), Range(cq),
           Joining, Parking)
  /\ \A f \in Fibers :
       Alive(f) <=> f \in Range(ready) \cup Range(batch) \cup inflight
                          \cup Range(finished) \cup Range(cq)
                          \cup Joining \cup Parking

\* What every step preserves.
Inv ==
  /\ TypeOK /\ NoneTwice /\ Placed /\ CountsExact /\ JoinedStaysJoinable
  /\ TurnsHaveFibers /\ ControlInv

-----------------------------------------------------------------------------
\* A queue without duplicates is as long as its range is large.
LEMMA DistinctCardinality ==
  ASSUME NEW S, NEW s \in Seq(S), IsInjective(s)
  PROVE  IsFiniteSet(Range(s)) /\ Cardinality(Range(s)) = Len(s)
<1>1. s \in [1 .. Len(s) -> Range(s)] /\ Len(s) \in Nat
  BY RangeOfSeq
<1>2. \A i, j \in 1 .. Len(s) : s[i] = s[j] => i = j
  BY DEF IsInjective
<1>3. \A x \in Range(s) : \E i \in 1 .. Len(s) : s[i] = x
  BY RangeOfSeq
<1>4. s \in Bijection(1 .. Len(s), Range(s))
  BY <1>1, <1>2, <1>3 DEF Bijection, Injection, Surjection, IsInjective
<1>5. ExistsBijection(1 .. Len(s), Range(s))
  BY <1>4 DEF ExistsBijection
<1>6. Cardinality(Range(s)) = Len(s)
  BY <1>1, <1>5, FS_CountingElements
<1>7. IsFiniteSet(Range(s))
  BY <1>1, <1>5, FS_NatBijection
<1>. QED BY <1>6, <1>7
\* The places of OnePlace, one by one.
LEMMA PlacedIsOnePlace == NoneTwice /\ Placed => OnePlace
<1>. SUFFICES ASSUME NoneTwice, Placed PROVE OnePlace
  OBVIOUS
<1>1. /\ At("ready") = Range(ready) /\ At("batch") = Range(batch)
      /\ At("inflight") = inflight /\ At("finished") = Range(finished)
      /\ At("cq") = Range(cq) /\ At("joining") = Joining
      /\ At("parking") = Parking
  BY DEF At, Parking
<1>2. ASSUME NEW p \in Places, NEW q \in Places, p # q
      PROVE  At(p) \cap At(q) = {}
  BY <1>1, <1>2 DEF Places, Placed, Apart
<1>3. ASSUME NEW f \in Fibers
      PROVE  Alive(f) <=> \E p \in Places : f \in At(p)
  <2>1. (\E p \in Places : f \in At(p))
          <=> f \in Range(ready) \cup Range(batch) \cup inflight
                    \cup Range(finished) \cup Range(cq) \cup Joining \cup Parking
    BY <1>1 DEF Places
  <2>. QED BY <2>1 DEF Placed
<1>. QED BY <1>2, <1>3 DEF OnePlace

-----------------------------------------------------------------------------

\* What start.c hands to the loop satisfies the invariant.
LEMMA InvInit == Init => Inv
<1>. SUFFICES ASSUME Init PROVE Inv
  BY SMTT(30)
<1>. USE FiberAssumption, NullAssumption, RingAssumption DEF Init, Io!RingInit
<1>1. TypeOK
  BY DEF TypeOK
<1>2. Range(ready) = {Root} /\ IsInjective(ready) /\ Len(ready) = 1
  BY DEF Range, IsInjective
<1>3. /\ Range(batch) = {} /\ Range(finished) = {} /\ Range(cq) = {}
      /\ IsInjective(batch) /\ IsInjective(finished) /\ IsInjective(cq)
      /\ Len(batch) = 0 /\ Len(finished) = 0 /\ Len(cq) = 0
  BY DEF Range, IsInjective
<1>4. Joining = {} /\ Parking = {} /\ {t \in Fibers : joiner[t] # Null} = {}
  BY DEF Joining, Range, Parking
<1>5. NoneTwice
  BY SMTT(30), <1>2, <1>3 DEF NoneTwice
<1>6. Placed
  BY SMTT(60), <1>2, <1>3, <1>4 DEF Placed, Apart, Alive
<1>7. CountsExact
  <2>1. Cardinality({}) = 0
    BY SMTT(30), FS_EmptySet
  <2>2. joining_count = Cardinality({t \in Fibers : joiner[t] # Null})
    BY ZenonT(60), <1>4, <2>1
  <2>3. Cardinality(inflight) = 0
    BY SMTT(60), <2>1
  <2>. QED BY SMTT(60), <1>2, <1>3, <2>2, <2>3 DEF CountsExact
<1>. QED BY SMTT(60), <1>1, <1>2, <1>5, <1>6, <1>7
         DEF Inv, JoinedStaysJoinable, TurnsHaveFibers, ControlInv

-----------------------------------------------------------------------------
\* The sequences a handler enqueues.
LEMMA Woken ==
  /\ <<>> \in Seq(Fibers) /\ Range(<<>>) = {} /\ IsInjective(<<>>) /\ Len(<<>>) = 0
  /\ \A f \in Fibers : /\ <<f>> \in Seq(Fibers) /\ Range(<<f>>) = {f}
                       /\ IsInjective(<<f>>) /\ Len(<<f>>) = 1
  /\ \A f, g \in Fibers : f # g => /\ <<f, g>> \in Seq(Fibers)
                                   /\ Range(<<f, g>>) = {f, g}
                                   /\ IsInjective(<<f, g>>) /\ Len(<<f, g>>) = 2
<1>1. <<>> \in Seq(Fibers) /\ Range(<<>>) = {} /\ IsInjective(<<>>) /\ Len(<<>>) = 0
  BY DEF Range, IsInjective
<1>2. ASSUME NEW f \in Fibers
      PROVE  /\ <<f>> \in Seq(Fibers) /\ Range(<<f>>) = {f}
             /\ IsInjective(<<f>>) /\ Len(<<f>>) = 1
  BY DEF Range, IsInjective
<1>3. ASSUME NEW f \in Fibers, NEW g \in Fibers, f # g
      PROVE  /\ <<f, g>> \in Seq(Fibers) /\ Range(<<f, g>>) = {f, g}
             /\ IsInjective(<<f, g>>) /\ Len(<<f, g>>) = 2
  <2>. DEFINE s == <<f, g>>
  <2>1. /\ s \in Seq(Fibers) /\ Len(s) = 2 /\ s[1] = f /\ s[2] = g
        /\ DOMAIN s = {1, 2}
    OBVIOUS
  <2>. HIDE DEF s
  <2>2. Range(s) = {f, g} /\ IsInjective(s)
    BY <1>3, <2>1 DEF Range, IsInjective
  <2>. QED BY <2>1, <2>2 DEF s
<1>. QED BY <1>1, <1>2, <1>3

\* A turn takes the head off the run queue and appends whom the handler woke.
LEMMA TurnStep ==
  ASSUME Inv, NEW f \in Fibers, Resumes(f), NEW woken \in Seq(Fibers),
         Turn(f, woken), IsInjective(woken),
         Range(woken) \cap (Range(ready) \ {f}) = {}
  PROVE  /\ f \in Range(ready)
         /\ ready' \in Seq(Fibers) /\ IsInjective(ready')
         /\ Range(ready') = (Range(ready) \ {f}) \cup Range(woken)
         /\ ready_count' = Len(ready') /\ ready_count' \in Nat
         /\ turns' \in Nat /\ turns' <= Len(ready')
         /\ pc = "dispatch" /\ pc' = "dispatch" /\ parking = Null
         /\ parking' = Null /\ exit_code' = exit_code
<1>1. /\ ready \in Seq(Fibers) /\ ready # <<>> /\ f = Head(ready)
      /\ IsInjective(ready) /\ ready_count = Len(ready)
      /\ turns \in Nat \ {0} /\ turns <= Len(ready)
      /\ pc = "dispatch" /\ parking = Null
  BY DEF Inv, Resumes, TypeOK, NoneTwice, CountsExact, TurnsHaveFibers, ControlInv
<1>. DEFINE rest == Tail(ready)
<1>2. /\ rest \in Seq(Fibers) /\ Len(ready) \in Nat \ {0}
      /\ Len(rest) = Len(ready) - 1 /\ IsInjective(rest)
      /\ f \in Range(ready) /\ Range(rest) = Range(ready) \ {f}
  BY <1>1, DistinctTail
<1>3. ready' = rest \o woken
  BY DEF Turn
<1>. HIDE DEF rest
<1>4. /\ ready' \in Seq(Fibers) /\ Len(ready') = Len(rest) + Len(woken)
      /\ Range(ready') = Range(rest) \cup Range(woken)
      /\ IsInjective(ready')
  <2>1. Range(rest) \cap Range(woken) = {}
    BY <1>2
  <2>2. /\ rest \o woken \in Seq(Fibers)
        /\ Len(rest \o woken) = Len(rest) + Len(woken)
        /\ Range(rest \o woken) = Range(rest) \cup Range(woken)
        /\ IsInjective(rest) /\ IsInjective(woken) /\ Range(rest) \cap Range(woken) = {}
             => IsInjective(rest \o woken)
    BY <1>2, DistinctConcat
  <2>. QED BY SMTT(60), <1>2, <1>3, <2>1, <2>2
<1>5. Len(woken) \in Nat
  OBVIOUS
<1>6. /\ ready_count' = (ready_count - 1) + Len(woken) /\ turns' = turns - 1
      /\ pc' = pc /\ parking' = parking /\ exit_code' = exit_code
  BY DEF Turn
<1>. QED BY SMTT(60), <1>1, <1>2, <1>4, <1>5, <1>6

\* What an answered request leaves in the results.
LEMMA AnswerStep ==
  ASSUME TypeOK, NEW f \in Fibers, NEW g \in Fibers,
         NEW r \in Fibers \cup Status \cup {Null}, Answer(f, g, r)
  PROVE  result' \in [Fibers -> Fibers \cup Status \cup {Null}]
BY ZenonT(60) DEF TypeOK, Answer

\* A step that moves nobody.
LEMMA StandingStep ==
  ASSUME Inv, UNCHANGED <<parking, ready, counts, records, ring>>
  PROVE  /\ NoneTwice' /\ Placed' /\ CountsExact' /\ JoinedStaysJoinable'
BY SMTT(60) DEF Inv, counts, records, ring, NoneTwice, Placed, Apart, CountsExact,
       JoinedStaysJoinable, Joining, Parking, Alive

-----------------------------------------------------------------------------
(* The requests, one lemma for each.                                       *)


\* A request that changes records and leaves the ring alone: whoever is queued
\* or starts to wait was resumed, was waiting, or is new.
LEMMA RecordStep ==
  ASSUME Inv, NEW f \in Fibers, Resumes(f), NEW woken \in Seq(Fibers),
         Turn(f, woken), IsInjective(woken), UNCHANGED <<parked_count, ring>>,
         life' \in [Fibers -> {"UNMAPPED", "LIVE", "DETACHED", "EXITED"}],
         joiner' \in [Fibers -> Fibers \cup {Null}],
         status' \in [Fibers -> Status \cup {Null}],
         result' \in [Fibers -> Fibers \cup Status \cup {Null}],
         \A t, u \in Fibers : joiner'[t] = joiner'[u] /\ joiner'[t] # Null => t = u,
         joining_count' = Cardinality({t \in Fibers : joiner'[t] # Null}),
         JoinedStaysJoinable',
         \A g \in Range(woken) \cup Joining' : g \in Joining \cup {f} \/ ~Alive(g),
         Range(woken) \cap Joining' = {},
         \A g \in Fibers :
           Alive(g)' <=> \/ Alive(g) /\ g \notin Joining \cup {f}
                         \/ g \in Range(woken) \cup Joining'
  PROVE  Inv'
<1>1. Placed /\ ready \in Seq(Fibers) /\ f \in Range(ready) /\ Alive(f)
  <2>1. ready \in Seq(Fibers) /\ ready # <<>> /\ f = Head(ready) /\ Placed
    BY DEF Inv, TypeOK, Resumes
  <2>2. f \in Range(ready)
    BY SMTT(30), <2>1, DistinctTail
  <2>. QED BY SMTT(30), <2>1, <2>2 DEF Placed
<1>2. Range(ready) \subseteq Fibers /\ Range(woken) \subseteq Fibers
  BY SMTT(30), <1>1, RangeOfSeq
<1>3. Range(woken) \cap (Range(ready) \ {f}) = {}
  BY SMTT(30), <1>1, <1>2 DEF Placed, Apart
<1>4. /\ f \in Range(ready)
      /\ ready' \in Seq(Fibers) /\ IsInjective(ready')
      /\ Range(ready') = (Range(ready) \ {f}) \cup Range(woken)
      /\ ready_count' = Len(ready') /\ ready_count' \in Nat
      /\ turns' \in Nat /\ turns' <= Len(ready')
      /\ pc' = "dispatch" /\ parking = Null /\ parking' = Null
      /\ exit_code' = exit_code
  BY SMTT(30), <1>3, TurnStep
<1>5. joining_count' \in Nat
  <2>1. IsFiniteSet({t \in Fibers : joiner'[t] # Null})
    BY SMTT(30), FiberAssumption, FS_Subset
  <2>. QED BY SMTT(30), <2>1, FS_CardinalityType
<1>6. TypeOK'
  BY ZenonT(60), <1>4, <1>5 DEF Inv, TypeOK, ring
<1>7. NoneTwice'
  BY ZenonT(60), <1>4 DEF Inv, NoneTwice, ring
<1>8. Placed'
  <2>1. Parking = {} /\ Parking' = {}
    BY SMTT(30), <1>4 DEF Parking
  <2>2. Joining' \subseteq Fibers
    BY DEF Joining, Range
  <2>3. /\ Range(batch)' = Range(batch) /\ inflight' = inflight
        /\ Range(finished)' = Range(finished) /\ Range(cq)' = Range(cq)
    BY SMTT(30) DEF ring
  <2>4. Apart(Range(ready), Range(batch), inflight, Range(finished), Range(cq),
              Joining, Parking)'
    <3>1. \A g \in Range(woken) \cup Joining' :
            g \notin (Range(ready) \ {f}) \cup Range(batch) \cup inflight
                      \cup Range(finished) \cup Range(cq)
      BY SMTT(30), <1>1, <1>2, <2>2 DEF Placed, Apart
    <3>. QED BY SMTT(30), <1>1, <1>4, <2>1, <2>3, <3>1 DEF Placed, Apart
  <2>5. \A g \in Fibers :
          Alive(g) /\ g \notin Joining \cup {f}
            <=> g \in (Range(ready) \ {f}) \cup Range(batch) \cup inflight
                      \cup Range(finished) \cup Range(cq)
    BY SMTT(60), <1>1, <2>1 DEF Placed, Apart
  <2>. QED BY SMTT(30), <1>4, <2>1, <2>3, <2>4, <2>5 DEF Placed
<1>9. CountsExact'
  BY ZenonT(60), <1>4 DEF Inv, CountsExact, ring
<1>10. TurnsHaveFibers' /\ ControlInv'
  BY SMTT(30), <1>4 DEF Inv, TurnsHaveFibers, ControlInv
<1>. QED BY SMTT(30), <1>6, <1>7, <1>8, <1>9, <1>10 DEF Inv

\* The fiber resumed, and the fibers that wait.
LEMMA ResumedFiber ==
  ASSUME Inv, NEW f \in Fibers, Resumes(f)
  PROVE  /\ Alive(f) /\ f \notin Joining /\ Joining \subseteq Fibers
         /\ \A g \in Joining : Alive(g)
         /\ \A t \in Fibers : joiner[t] # Null => joiner[t] \in Joining
         /\ joining_count = Cardinality({t \in Fibers : joiner[t] # Null})
         /\ IsFiniteSet({t \in Fibers : joiner[t] # Null})
<1>1. Placed /\ TypeOK /\ ready # <<>> /\ f = Head(ready)
  BY DEF Inv, Resumes
<1>2. f \in Range(ready)
  BY SMTT(30), <1>1, DistinctTail DEF TypeOK
<1>3. Joining \subseteq Fibers /\ \A t \in Fibers : joiner[t] # Null => joiner[t] \in Joining
  BY <1>1 DEF Joining, Range, TypeOK
<1>4. IsFiniteSet({t \in Fibers : joiner[t] # Null})
  BY SMTT(30), FiberAssumption, FS_Subset
<1>. QED BY ZenonT(60), <1>1, <1>2, <1>3, <1>4 DEF Placed, Apart, Inv, CountsExact

\* A request that leaves the joiner slots alone.
LEMMA SameJoinersStep ==
  ASSUME Inv, NEW f \in Fibers, Resumes(f), NEW woken \in Seq(Fibers),
         Turn(f, woken), IsInjective(woken),
         UNCHANGED <<parked_count, joining_count, joiner, ring>>,
         life' \in [Fibers -> {"UNMAPPED", "LIVE", "DETACHED", "EXITED"}],
         status' \in [Fibers -> Status \cup {Null}],
         result' \in [Fibers -> Fibers \cup Status \cup {Null}],
         \A t \in Fibers : joiner[t] # Null => life'[t] = "LIVE",
         \A g \in Range(woken) : g = f \/ ~Alive(g),
         \A g \in Fibers : Alive(g)' <=> (Alive(g) /\ g # f) \/ g \in Range(woken)
  PROVE  Inv'
<1>1. /\ joiner' \in [Fibers -> Fibers \cup {Null}]
      /\ \A t, u \in Fibers : joiner'[t] = joiner'[u] /\ joiner'[t] # Null => t = u
  BY SMTT(30) DEF Inv, TypeOK, NoneTwice
<1>2. /\ Joining' = Joining
      /\ joining_count' = Cardinality({t \in Fibers : joiner'[t] # Null})
  BY SMTT(30) DEF Joining, Inv, CountsExact
<1>3. JoinedStaysJoinable'
  BY ZenonT(60) DEF Inv, JoinedStaysJoinable
<1>4. /\ \A g \in Range(woken) \cup Joining' : g \in Joining \cup {f} \/ ~Alive(g)
      /\ Range(woken) \cap Joining' = {}
  <2>1. f \notin Joining /\ \A g \in Joining : Alive(g)
    BY ZenonT(60), ResumedFiber
  <2>. QED BY SMTT(30), <1>2, <2>1
<1>5. \A g \in Fibers : Alive(g)' <=> \/ Alive(g) /\ g \notin Joining \cup {f}
                                     \/ g \in Range(woken) \cup Joining'
  BY ZenonT(60), <1>2, ResumedFiber
<1>. QED BY ZenonT(60), <1>1, <1>2, <1>3, <1>4, <1>5, RecordStep

\* YIELD, and a SPAWN that failed.
LEMMA YieldStep ==
  ASSUME Inv, NEW f \in Fibers, Yield(f) \/ SpawnFails(f)
  PROVE  Inv'
<1>1. <<f>> \in Seq(Fibers) /\ Range(<<f>>) = {f} /\ IsInjective(<<f>>)
  BY SMTT(30), Woken
<1>2. /\ Resumes(f) /\ Turn(f, <<f>>) /\ Answer(f, f, Null)
      /\ UNCHANGED <<parked_count, joining_count, life, joiner, status, ring>>
  BY DEF Yield, SpawnFails
<1>3. result' \in [Fibers -> Fibers \cup Status \cup {Null}]
  BY SMTT(30), <1>2, AnswerStep DEF Inv
<1>4. /\ life' \in [Fibers -> {"UNMAPPED", "LIVE", "DETACHED", "EXITED"}]
      /\ status' \in [Fibers -> Status \cup {Null}]
      /\ \A t \in Fibers : joiner[t] # Null => life'[t] = "LIVE"
  BY <1>2 DEF Inv, TypeOK, JoinedStaysJoinable
<1>5. \A g \in Fibers : Alive(g)' <=> (Alive(g) /\ g # f) \/ g \in Range(<<f>>)
  BY ZenonT(60), <1>1, <1>2, ResumedFiber DEF Alive
<1>. QED BY ZenonT(60), <1>1, <1>2, <1>3, <1>4, <1>5, SameJoinersStep

\* EXIT of a detached fiber: nobody can be waiting for it.
LEMMA ExitDetachedStep ==
  ASSUME Inv, NEW f \in Fibers, ExitDetached(f)
  PROVE  Inv'
<1>1. <<>> \in Seq(Fibers) /\ Range(<<>>) = {} /\ IsInjective(<<>>)
  BY SMTT(60), Woken
<1>2. joiner[f] = Null
  BY SMTT(30) DEF Inv, JoinedStaysJoinable, ExitDetached
<1>3. /\ Resumes(f) /\ Turn(f, <<>>) /\ Answer(f, f, Null)
      /\ UNCHANGED <<parked_count, joining_count, joiner, ring>>
      /\ life' = [life EXCEPT ![f] = "UNMAPPED"]
      /\ status' = [status EXCEPT ![f] = Null]
  BY SMTT(30), <1>2 DEF ExitDetached, Destroy, Inv, TypeOK
<1>4. result' \in [Fibers -> Fibers \cup Status \cup {Null}]
  BY SMTT(30), <1>3, AnswerStep DEF Inv
<1>5. /\ life' \in [Fibers -> {"UNMAPPED", "LIVE", "DETACHED", "EXITED"}]
      /\ status' \in [Fibers -> Status \cup {Null}]
      /\ \A t \in Fibers : joiner[t] # Null => life'[t] = "LIVE"
  BY SMTT(30), <1>2, <1>3 DEF Inv, TypeOK, JoinedStaysJoinable
<1>6. \A g \in Fibers : Alive(g)' <=> (Alive(g) /\ g # f) \/ g \in Range(<<>>)
  BY SMTT(60), <1>1, <1>3 DEF Alive, Inv, TypeOK
<1>. QED BY ZenonT(60), <1>1, <1>3, <1>4, <1>5, <1>6, SameJoinersStep

\* EXIT of a fiber nobody has joined.
LEMMA ExitUnclaimedStep ==
  ASSUME Inv, NEW f \in Fibers, NEW s \in Status, ExitUnclaimed(f, s)
  PROVE  Inv'
<1>1. <<>> \in Seq(Fibers) /\ Range(<<>>) = {} /\ IsInjective(<<>>)
  BY SMTT(60), Woken
<1>2. /\ Resumes(f) /\ Turn(f, <<>>) /\ Answer(f, f, Null) /\ joiner[f] = Null
      /\ UNCHANGED <<parked_count, joining_count, joiner, ring>>
      /\ life' = [life EXCEPT ![f] = "EXITED"]
      /\ status' = [status EXCEPT ![f] = s]
  BY SMTT(30) DEF ExitUnclaimed
<1>3. result' \in [Fibers -> Fibers \cup Status \cup {Null}]
  BY SMTT(30), <1>2, AnswerStep DEF Inv
<1>4. /\ life' \in [Fibers -> {"UNMAPPED", "LIVE", "DETACHED", "EXITED"}]
      /\ status' \in [Fibers -> Status \cup {Null}]
      /\ \A t \in Fibers : joiner[t] # Null => life'[t] = "LIVE"
  BY SMTT(30), <1>2 DEF Inv, TypeOK, JoinedStaysJoinable
<1>5. \A g \in Fibers : Alive(g)' <=> (Alive(g) /\ g # f) \/ g \in Range(<<>>)
  BY SMTT(60), <1>1, <1>2 DEF Alive, Inv, TypeOK
<1>. QED BY ZenonT(60), <1>1, <1>2, <1>3, <1>4, <1>5, SameJoinersStep

\* SPAWN: the child's record is new, so the child stands nowhere yet.
LEMMA SpawnStep ==
  ASSUME Inv, NEW f \in Fibers, NEW child \in Fibers, Spawn(f, child)
  PROVE  Inv'
<1>1. /\ Resumes(f) /\ Turn(f, <<f, child>>) /\ Answer(f, f, child)
      /\ UNCHANGED <<parked_count, joining_count, joiner, status, ring>>
      /\ life[child] = "UNMAPPED" /\ life' = [life EXCEPT ![child] = "LIVE"]
  BY SMTT(60) DEF Spawn, Mapped
<1>2. Alive(f) /\ ~Alive(child) /\ f # child
  BY ZenonT(60), <1>1, ResumedFiber DEF Alive
<1>3. /\ <<f, child>> \in Seq(Fibers) /\ Range(<<f, child>>) = {f, child}
      /\ IsInjective(<<f, child>>)
  BY SMTT(30), <1>2, Woken
<1>4. result' \in [Fibers -> Fibers \cup Status \cup {Null}]
  BY SMTT(30), <1>1, AnswerStep DEF Inv
<1>5. /\ life' \in [Fibers -> {"UNMAPPED", "LIVE", "DETACHED", "EXITED"}]
      /\ status' \in [Fibers -> Status \cup {Null}]
      /\ \A t \in Fibers : joiner[t] # Null => life'[t] = "LIVE"
  BY SMTT(30), <1>1 DEF Inv, TypeOK, JoinedStaysJoinable
<1>6. \A g \in Fibers : Alive(g)' <=> (Alive(g) /\ g # f) \/ g \in Range(<<f, child>>)
  <2>1. \A g \in Fibers : Alive(g)' <=> Alive(g) \/ g = child
    BY SMTT(30), <1>1 DEF Alive, Inv, TypeOK
  <2>. QED BY SMTT(30), <1>2, <1>3, <2>1
<1>7. \A g \in Range(<<f, child>>) : g = f \/ ~Alive(g)
  BY SMTT(60), <1>2, <1>3
<1>. QED BY ZenonT(60), <1>1, <1>3, <1>4, <1>5, <1>6, <1>7, SameJoinersStep

\* JOIN and DETACH of an exited target: the record goes, and was in no queue.
LEMMA ReclaimStep ==
  ASSUME Inv, NEW f \in Fibers, NEW t \in Fibers,
         JoinExited(f, t) \/ DetachExited(f, t)
  PROVE  Inv'
<1>1. <<f>> \in Seq(Fibers) /\ Range(<<f>>) = {f} /\ IsInjective(<<f>>)
  BY SMTT(30), Woken
<1>2. joiner[t] = Null /\ life[t] = "EXITED"
  BY SMTT(30) DEF JoinExited, DetachExited, JoinRefused, DetachRefused
<1>3. /\ Resumes(f) /\ Turn(f, <<f>>)
      /\ UNCHANGED <<parked_count, joining_count, joiner, ring>>
      /\ life' = [life EXCEPT ![t] = "UNMAPPED"]
      /\ status' = [status EXCEPT ![t] = Null]
  BY SMTT(30), <1>2 DEF JoinExited, DetachExited, Destroy, Inv, TypeOK
<1>4. result' \in [Fibers -> Fibers \cup Status \cup {Null}]
  <2>1. \E r \in Fibers \cup Status \cup {Null} : Answer(f, f, r)
    BY SMTT(30) DEF JoinExited, DetachExited, Inv, TypeOK
  <2>. QED BY SMTT(30), <2>1, AnswerStep DEF Inv
<1>5. /\ life' \in [Fibers -> {"UNMAPPED", "LIVE", "DETACHED", "EXITED"}]
      /\ status' \in [Fibers -> Status \cup {Null}]
      /\ \A u \in Fibers : joiner[u] # Null => life'[u] = "LIVE"
  BY SMTT(60), <1>2, <1>3 DEF Inv, TypeOK, JoinedStaysJoinable
<1>6. \A g \in Fibers : Alive(g)' <=> (Alive(g) /\ g # f) \/ g \in Range(<<f>>)
  <2>1. \A g \in Fibers : Alive(g)' <=> Alive(g)
    BY SMTT(30), <1>2, <1>3 DEF Alive, Inv, TypeOK
  <2>. QED BY ZenonT(60), <1>1, <1>3, <2>1, ResumedFiber
<1>. QED BY ZenonT(60), <1>1, <1>3, <1>4, <1>5, <1>6, SameJoinersStep

\* DETACH of a running target, for whom nobody waits.
LEMMA DetachLiveStep ==
  ASSUME Inv, NEW f \in Fibers, NEW t \in Fibers, DetachLive(f, t)
  PROVE  Inv'
<1>1. <<f>> \in Seq(Fibers) /\ Range(<<f>>) = {f} /\ IsInjective(<<f>>)
  BY SMTT(60), Woken
<1>2. /\ Resumes(f) /\ Turn(f, <<f>>) /\ Answer(f, f, Null)
      /\ UNCHANGED <<parked_count, joining_count, joiner, status, ring>>
      /\ joiner[t] = Null /\ life[t] = "LIVE"
      /\ life' = [life EXCEPT ![t] = "DETACHED"]
  BY SMTT(30) DEF DetachLive, DetachRefused
<1>3. result' \in [Fibers -> Fibers \cup Status \cup {Null}]
  BY SMTT(30), <1>2, AnswerStep DEF Inv
<1>4. /\ life' \in [Fibers -> {"UNMAPPED", "LIVE", "DETACHED", "EXITED"}]
      /\ status' \in [Fibers -> Status \cup {Null}]
      /\ \A u \in Fibers : joiner[u] # Null => life'[u] = "LIVE"
  BY SMTT(60), <1>2 DEF Inv, TypeOK, JoinedStaysJoinable
<1>5. \A g \in Fibers : Alive(g)' <=> (Alive(g) /\ g # f) \/ g \in Range(<<f>>)
  <2>1. \A g \in Fibers : Alive(g)' <=> Alive(g)
    BY ZenonT(60), <1>2 DEF Alive, Inv, TypeOK
  <2>. QED BY ZenonT(60), <1>1, <1>2, <2>1, ResumedFiber
<1>. QED BY ZenonT(60), <1>1, <1>2, <1>3, <1>4, <1>5, SameJoinersStep

\* EXIT of a fiber that is waited for: its joiner moves to the run queue.
LEMMA ExitJoinedStep ==
  ASSUME Inv, NEW f \in Fibers, NEW s \in Status, ExitJoined(f, s)
  PROVE  Inv'
<1>. DEFINE j == joiner[f]
            waited == {t \in Fibers : joiner[t] # Null}
<1>1. j \in Fibers /\ j # f /\ Resumes(f) /\ j \in Joining
  <2>1. Resumes(f) /\ j # Null /\ j \in Fibers
    BY DEF ExitJoined, Inv, TypeOK
  <2>2. j # f
    BY SMTT(30), <2>1 DEF Inv, JoinedStaysJoinable
  <2>. QED BY ZenonT(60), <2>1, <2>2, ResumedFiber
<1>2. /\ <<j>> \in Seq(Fibers) /\ Range(<<j>>) = {j} /\ IsInjective(<<j>>)
  BY SMTT(30), <1>1, Woken
<1>3. /\ Turn(f, <<j>>) /\ UNCHANGED <<parked_count, ring>>
      /\ joining_count' = joining_count - 1 /\ f \in waited
      /\ life' = [life EXCEPT ![f] = "UNMAPPED"]
      /\ joiner' = [joiner EXCEPT ![f] = Null]
      /\ status' = [status EXCEPT ![f] = Null] /\ Answer(f, j, s)
  BY DEF ExitJoined, Destroy
<1>4. result' \in [Fibers -> Fibers \cup Status \cup {Null}]
  BY SMTT(30), <1>1, <1>3, AnswerStep DEF Inv
<1>5. /\ life' \in [Fibers -> {"UNMAPPED", "LIVE", "DETACHED", "EXITED"}]
      /\ joiner' \in [Fibers -> Fibers \cup {Null}]
      /\ status' \in [Fibers -> Status \cup {Null}]
      /\ \A t, u \in Fibers : joiner'[t] = joiner'[u] /\ joiner'[t] # Null => t = u
  BY SMTT(30), <1>3 DEF Inv, TypeOK, NoneTwice
<1>6. /\ Joining' = Joining \ {j}
      /\ {t \in Fibers : joiner'[t] # Null} = waited \ {f}
  <2>1. /\ joiner \in [Fibers -> Fibers \cup {Null}] /\ joiner' \in [Fibers -> Fibers \cup {Null}]
        /\ joiner'[f] = Null /\ \A t \in Fibers \ {f} : joiner'[t] = joiner[t]
    BY SMTT(60), <1>3, <1>5 DEF Inv, TypeOK
  <2>2. \A t \in Fibers \ {f} : joiner[t] # j
    BY DEF Inv, NoneTwice, ExitJoined
  <2>. HIDE DEF j
  <2>3. joiner[f] = j
    BY SMTT(30) DEF j
  <2>4. Joining' = Joining \ {j}
    BY SMTT(30), <2>1, <2>2, <2>3 DEF Joining, Range
  <2>. QED BY SMTT(30), <2>1, <2>4
<1>7. joining_count' = Cardinality({t \in Fibers : joiner'[t] # Null})
  <2>1. joining_count = Cardinality(waited) /\ IsFiniteSet(waited)
    BY ZenonT(60), <1>1, ResumedFiber
  <2>. HIDE DEF waited
  <2>2. Cardinality(waited \ {f}) = Cardinality(waited) - 1
    BY ZenonT(60), <1>3, <2>1, FS_RemoveElement
  <2>. QED BY ZenonT(60), <1>3, <1>6, <2>1, <2>2
<1>8. JoinedStaysJoinable'
  BY SMTT(30), <1>3 DEF Inv, JoinedStaysJoinable, TypeOK
<1>9. ~Alive(f)' /\ \A g \in Fibers \ {f} : Alive(g)' <=> Alive(g)
  BY <1>3 DEF Alive, Inv, TypeOK
<1>. HIDE DEF j
<1>10. \A g \in Fibers : Alive(g)' <=> \/ Alive(g) /\ g \notin Joining \cup {f}
                                      \/ g \in Range(<<j>>) \cup Joining'
  BY ZenonT(60), <1>1, <1>2, <1>6, <1>9, ResumedFiber
<1>11. /\ \A g \in Range(<<j>>) \cup Joining' : g \in Joining \cup {f} \/ ~Alive(g)
       /\ Range(<<j>>) \cap Joining' = {}
  BY ZenonT(60), <1>1, <1>2, <1>6
<1>. QED BY ZenonT(60), <1>1, <1>2, <1>3, <1>4, <1>5, <1>7, <1>8, <1>10, <1>11, RecordStep

\* JOIN of a running target: the resumed fiber moves behind it.
LEMMA JoinWaitsStep ==
  ASSUME Inv, NEW f \in Fibers, NEW t \in Fibers, JoinWaits(f, t)
  PROVE  Inv'
<1>. DEFINE waited == {u \in Fibers : joiner[u] # Null}
<1>1. <<>> \in Seq(Fibers) /\ Range(<<>>) = {} /\ IsInjective(<<>>)
  BY SMTT(60), Woken
<1>2. /\ Resumes(f) /\ Turn(f, <<>>) /\ Answer(f, f, Null)
      /\ UNCHANGED <<parked_count, life, status, ring>>
      /\ t # f /\ joiner[t] = Null /\ life[t] = "LIVE"
      /\ joiner' = [joiner EXCEPT ![t] = f]
      /\ joining_count' = joining_count + 1
  BY DEF JoinWaits, JoinRefused
<1>3. result' \in [Fibers -> Fibers \cup Status \cup {Null}]
  BY SMTT(30), <1>2, AnswerStep DEF Inv
<1>4. /\ life' \in [Fibers -> {"UNMAPPED", "LIVE", "DETACHED", "EXITED"}]
      /\ joiner' \in [Fibers -> Fibers \cup {Null}]
      /\ status' \in [Fibers -> Status \cup {Null}]
  BY SMTT(30), <1>2 DEF Inv, TypeOK
<1>5. Joining' = Joining \cup {f} /\ {u \in Fibers : joiner'[u] # Null} = waited \cup {t}
  <2>1. /\ joiner \in [Fibers -> Fibers \cup {Null}] /\ joiner' \in [Fibers -> Fibers \cup {Null}]
        /\ joiner'[t] = f /\ \A u \in Fibers \ {t} : joiner'[u] = joiner[u]
        /\ joiner[t] = Null /\ f # Null
    BY SMTT(30), <1>2, <1>4, NullAssumption DEF Inv, TypeOK
  <2>2. Joining' = Joining \cup {f}
    BY <2>1 DEF Joining, Range
  <2>. QED BY SMTT(30), <2>1, <2>2
<1>6. joining_count' = Cardinality({u \in Fibers : joiner'[u] # Null})
  <2>1. joining_count = Cardinality(waited) /\ IsFiniteSet(waited) /\ t \notin waited
    BY SMTT(30), <1>2, ResumedFiber
  <2>. HIDE DEF waited
  <2>2. Cardinality(waited \cup {t}) = Cardinality(waited) + 1
    BY SMTT(30), <2>1, FS_AddElement
  <2>3. joining_count' = Cardinality(waited) + 1
    BY ONLY SMTT(30), <1>2, <2>1
  <2>4. joining_count' = Cardinality(waited \cup {t})
    BY ONLY SMTT(30), <2>2, <2>3
  <2>. QED BY ONLY ZenonT(60), <1>5, <2>4
<1>7. \A u, v \in Fibers : joiner'[u] = joiner'[v] /\ joiner'[u] # Null => u = v
  <2>1. \A u \in Fibers : joiner[u] # f
    BY ZenonT(60), <1>2, NullAssumption, ResumedFiber
  <2>2. joiner'[t] = f /\ \A u \in Fibers \ {t} : joiner'[u] = joiner[u]
    BY SMTT(30), <1>2 DEF Inv, TypeOK
  <2>. QED BY SMTT(30), <2>1, <2>2 DEF Inv, NoneTwice
<1>8. JoinedStaysJoinable'
  BY SMTT(30), <1>2 DEF Inv, JoinedStaysJoinable, TypeOK
<1>9. \A g \in Fibers : Alive(g)' <=> Alive(g)
  BY SMTT(30), <1>2 DEF Alive
<1>10. \A g \in Fibers : Alive(g)' <=> \/ Alive(g) /\ g \notin Joining \cup {f}
                                      \/ g \in Range(<<>>) \cup Joining'
  BY ZenonT(60), <1>1, <1>2, <1>5, <1>9, ResumedFiber
<1>11. /\ \A g \in Range(<<>>) \cup Joining' : g \in Joining \cup {f} \/ ~Alive(g)
       /\ Range(<<>>) \cap Joining' = {}
  BY SMTT(30), <1>1, <1>5
<1>. QED BY ZenonT(60), <1>1, <1>2, <1>3, <1>4, <1>6, <1>7, <1>8, <1>10, <1>11, RecordStep

-----------------------------------------------------------------------------
(* The ring: fibers move from one place to the next.                       *)

\* What the ring steps leave of a record.
LEMMA SameRecords ==
  ASSUME Inv, UNCHANGED <<life, joiner>>
  PROVE  /\ Joining' = Joining /\ JoinedStaysJoinable'
         /\ \A f \in Fibers : Alive(f)' <=> Alive(f)
         /\ {t \in Fibers : joiner'[t] # Null} = {t \in Fibers : joiner[t] # Null}
BY DEF Inv, Joining, JoinedStaysJoinable, Alive

\* The sizes of the ring's parts.
LEMMA RingSizes ==
  ASSUME Inv
  PROVE  /\ Len(batch) \in Nat /\ Len(finished) \in Nat /\ Len(cq) \in Nat
         /\ IsFiniteSet(inflight) /\ Cardinality(inflight) \in Nat
         /\ parked_count = Len(batch) + Cardinality(inflight) + Len(finished) + Len(cq)
<1>1. IsFiniteSet(inflight)
  BY ZenonT(60), FiberAssumption, FS_Subset DEF Inv, TypeOK
<1>2. Cardinality(inflight) \in Nat
  BY SMTT(60), <1>1, FS_CardinalityType
<1>. QED BY SMTT(30), <1>1, <1>2 DEF Inv, TypeOK, CountsExact

\* AWAIT: from the run queue to the batch.
LEMMA AwaitStep ==
  ASSUME Inv, NEW f \in Fibers, Await(f)
  PROVE  Inv'
<1>1. <<>> \in Seq(Fibers) /\ Range(<<>>) = {} /\ IsInjective(<<>>)
  BY Woken
<1>2. /\ Resumes(f) /\ Turn(f, <<>>) /\ Answer(f, f, Null)
      /\ batch' = Append(batch, f) /\ parked_count' = parked_count + 1
      /\ UNCHANGED <<joining_count, life, joiner, status, inflight, finished, cq>>
      /\ parked_count # CqEntries
  BY DEF Await, Io!AppendSqe, ParkRefused
<1>3. /\ f \in Range(ready)
      /\ ready' \in Seq(Fibers) /\ IsInjective(ready')
      /\ Range(ready') = Range(ready) \ {f}
      /\ ready_count' = Len(ready') /\ ready_count' \in Nat
      /\ turns' \in Nat /\ turns' <= Len(ready')
      /\ pc' = "dispatch" /\ parking = Null /\ parking' = Null
      /\ exit_code' = exit_code
  BY ZenonT(60), <1>1, <1>2, TurnStep
<1>4. f \notin Range(batch)
  BY ZenonT(60), <1>3 DEF Inv, Placed, Apart
<1>5. /\ batch' \in Seq(Fibers) /\ Len(batch') = Len(batch) + 1
      /\ Range(batch') = Range(batch) \cup {f} /\ IsInjective(batch')
  BY SMTT(30), <1>2, <1>4, DistinctAppend DEF Inv, TypeOK, NoneTwice
<1>6. result' \in [Fibers -> Fibers \cup Status \cup {Null}]
  BY SMTT(60), <1>2, AnswerStep DEF Inv
<1>7. /\ Joining' = Joining /\ JoinedStaysJoinable'
      /\ \A g \in Fibers : Alive(g)' <=> Alive(g)
      /\ {t \in Fibers : joiner'[t] # Null} = {t \in Fibers : joiner[t] # Null}
  BY SMTT(60), <1>2, SameRecords
<1>8. TypeOK'
  BY SMTT(60), <1>2, <1>3, <1>5, <1>6 DEF Inv, TypeOK
<1>9. NoneTwice'
  BY ZenonT(60), <1>2, <1>3, <1>5 DEF Inv, NoneTwice
<1>10. Placed'
  <2>1. Parking = {} /\ Parking' = {}
    BY SMTT(30), <1>3 DEF Parking
  <2>2. /\ inflight' = inflight /\ Range(finished)' = Range(finished)
        /\ Range(cq)' = Range(cq)
    BY SMTT(30), <1>2
  <2>3. Placed
    BY SMTT(30) DEF Inv
  <2>4. Apart(Range(ready'), Range(batch'), inflight, Range(finished), Range(cq),
              Joining, {})
    BY ONLY SMTT(60), <1>3, <1>5, <2>3 DEF Placed, Apart
  <2>5. ASSUME NEW g \in Fibers
        PROVE  Alive(g)' <=> g \in Range(ready') \cup Range(batch') \cup inflight
                                   \cup Range(finished) \cup Range(cq)
                                   \cup Joining \cup {}
    <3>1. Alive(g)' <=> Alive(g)
      BY ZenonT(60), <1>7
    <3>. QED BY ONLY SMTT(60), <1>3, <1>5, <2>1, <2>3, <3>1, g \in Fibers DEF Placed
  <2>. QED BY ZenonT(60), <1>7, <2>1, <2>2, <2>4, <2>5 DEF Placed
<1>11. CountsExact'
  BY SMTT(60), <1>2, <1>3, <1>5, <1>7, RingSizes DEF Inv, CountsExact
<1>12. TurnsHaveFibers' /\ ControlInv'
  BY SMTT(60), <1>2, <1>3, RingAssumption DEF Inv, TypeOK, TurnsHaveFibers, ControlInv
<1>. QED BY SMTT(60), <1>7, <1>8, <1>9, <1>10, <1>11, <1>12 DEF Inv

\* AWAIT with a full batch: from the run queue into park().
LEMMA AwaitFlushesStep ==
  ASSUME Inv, NEW f \in Fibers, AwaitFlushes(f)
  PROVE  Inv'
<1>1. /\ pc = "dispatch" /\ turns # 0 /\ ready # <<>> /\ f = Head(ready)
      /\ parked_count # CqEntries
      /\ ready' = Tail(ready) /\ ready_count' = ready_count - 1
      /\ turns' = turns - 1 /\ pc' = "enter" /\ parking' = f /\ Answer(f, f, Null)
      /\ UNCHANGED <<exit_code, parked_count, joining_count, life, joiner, status,
                     batch, inflight, finished, cq>>
  BY DEF AwaitFlushes, Resumes, ParkRefused, ring
<1>2. /\ ready' \in Seq(Fibers) /\ Len(ready) \in Nat \ {0}
      /\ Len(ready') = Len(ready) - 1 /\ IsInjective(ready')
      /\ f \in Range(ready) /\ Range(ready') = Range(ready) \ {f}
  BY ZenonT(60), <1>1, DistinctTail DEF Inv, TypeOK, NoneTwice
<1>3. parking = Null /\ f # Null
  BY SMTT(30), <1>1, NullAssumption DEF Inv, ControlInv
<1>4. /\ Joining' = Joining /\ JoinedStaysJoinable'
      /\ \A g \in Fibers : Alive(g)' <=> Alive(g)
      /\ {t \in Fibers : joiner'[t] # Null} = {t \in Fibers : joiner[t] # Null}
  BY SMTT(30), <1>1, SameRecords
<1>5. result' \in [Fibers -> Fibers \cup Status \cup {Null}]
  BY SMTT(60), <1>1, AnswerStep DEF Inv
<1>6. TypeOK'
  BY SMTT(30), <1>1, <1>2, <1>5 DEF Inv, TypeOK, CountsExact
<1>7. NoneTwice'
  BY SMTT(60), <1>1, <1>2 DEF Inv, NoneTwice
<1>8. Placed'
  <2>1. Parking = {} /\ Parking' = {f}
    BY SMTT(30), <1>1, <1>3 DEF Parking
  <2>2. /\ inflight' = inflight /\ Range(batch)' = Range(batch)
        /\ Range(finished)' = Range(finished) /\ Range(cq)' = Range(cq)
    BY SMTT(30), <1>1
  <2>3. Placed
    BY ZenonT(60) DEF Inv
  <2>4. Apart(Range(ready'), Range(batch), inflight, Range(finished), Range(cq),
              Joining, {f})
    BY ONLY SMTT(30), <1>2, <2>1, <2>3 DEF Placed, Apart
  <2>5. ASSUME NEW g \in Fibers
        PROVE  Alive(g)' <=> g \in Range(ready') \cup Range(batch) \cup inflight
                                   \cup Range(finished) \cup Range(cq)
                                   \cup Joining \cup {f}
    BY ONLY SMTT(30), <1>2, <1>4, <2>1, <2>3, g \in Fibers DEF Placed
  <2>. QED BY ZenonT(60), <1>4, <2>1, <2>2, <2>4, <2>5 DEF Placed
<1>9. CountsExact'
  BY ZenonT(60), <1>1, <1>2, <1>4, RingSizes DEF Inv, CountsExact
<1>10. TurnsHaveFibers' /\ ControlInv'
  BY SMTT(30), <1>1, <1>2, <1>3, RingAssumption DEF Inv, TypeOK, TurnsHaveFibers, ControlInv
<1>. QED BY <1>4, <1>6, <1>7, <1>8, <1>9, <1>10 DEF Inv

\* io_uring_enter: a prefix of the batch goes to the kernel.
LEMMA SubmitStep ==
  ASSUME Inv, NEW n \in 0 .. Len(batch), Io!Submit(n), pc = "enter",
         \/ pc' = pc
         \/ pc' = "wait"
         \/ pc' = Returned,
         UNCHANGED <<turns, parking, exit_code, ready, counts, records>>
  PROVE  Inv'
<1>. DEFINE a == SubSeq(batch, 1, n)
            b == SubSeq(batch, n + 1, Len(batch))
<1>1. /\ batch' = b /\ inflight' = inflight \cup Range(a)
      /\ UNCHANGED <<finished, cq>>
  BY ZenonT(60) DEF Io!Submit, Io!Range, Range
<1>2. /\ a \in Seq(Fibers) /\ b \in Seq(Fibers)
      /\ Len(a) = n /\ Len(b) = Len(batch) - n
      /\ Range(batch) = Range(a) \cup Range(b)
      /\ IsInjective(a) /\ IsInjective(b) /\ Range(a) \cap Range(b) = {}
  BY SMTT(30), DistinctSplit DEF Inv, TypeOK, NoneTwice
<1>. HIDE DEF a, b
<1>3. Range(a) \subseteq Fibers /\ IsFiniteSet(Range(a)) /\ Cardinality(Range(a)) = n
  BY ZenonT(60), <1>2, RangeOfSeq, DistinctCardinality
<1>4. Range(a) \cap inflight = {}
  BY ZenonT(60), <1>2 DEF Inv, Placed, Apart
<1>5. /\ Joining' = Joining /\ JoinedStaysJoinable'
      /\ \A g \in Fibers : Alive(g)' <=> Alive(g)
      /\ {t \in Fibers : joiner'[t] # Null} = {t \in Fibers : joiner[t] # Null}
  BY SMTT(30), SameRecords DEF records
<1>6. pc' \in {"enter", "wait", "append", "reap"} /\ (pc' = "append" => parking # Null)
        /\ (parking # Null => pc' # "reap")
  BY SMTT(30) DEF Returned
<1>7. TypeOK'
  BY ZenonT(60), <1>1, <1>2, <1>3, <1>6 DEF Inv, TypeOK, counts, records
<1>8. NoneTwice'
  BY SMTT(30), <1>1, <1>2 DEF Inv, NoneTwice, records
<1>9. Placed'
  <2>1. /\ Range(ready)' = Range(ready) /\ Range(batch)' = Range(b)
        /\ Range(finished)' = Range(finished) /\ Range(cq)' = Range(cq)
        /\ Parking' = Parking /\ inflight' = inflight \cup Range(a)
    BY <1>1 DEF Parking
  <2>. QED BY ZenonT(60), <1>2, <1>5, <2>1 DEF Inv, Placed, Apart
<1>10. CountsExact'
  <2>1. Cardinality(inflight \cup Range(a)) = Cardinality(inflight) + n
    <3>1. Cardinality(inflight \cap Range(a)) = 0
      BY SMTT(30), <1>4, FS_EmptySet
    <3>2. Cardinality(inflight \cup Range(a))
            = Cardinality(inflight) + Cardinality(Range(a)) - Cardinality(inflight \cap Range(a))
      BY SMTT(60), <1>3, RingSizes, FS_Union
    <3>. QED BY SMTT(60), <1>3, <3>1, <3>2, RingSizes
  <2>2. Len(b) + Cardinality(inflight \cup Range(a)) = Len(batch) + Cardinality(inflight)
    BY SMTT(30), <1>2, <2>1, RingSizes
  <2>. QED BY ZenonT(60), <1>1, <1>2, <1>5, <2>1, <2>2, RingSizes DEF Inv, CountsExact, counts
<1>11. TurnsHaveFibers' /\ ControlInv'
  BY SMTT(60), <1>6 DEF Inv, TurnsHaveFibers, ControlInv, counts
<1>. QED BY ZenonT(60), <1>5, <1>7, <1>8, <1>9, <1>10, <1>11 DEF Inv

\* The end of an enter: a prefix of the finished operations is posted.
LEMMA WaitReturnsStep ==
  ASSUME Inv, WaitReturns
  PROVE  Inv'
<1>. PICK n \in 0 .. Len(finished) : Io!Post(n)
  BY DEF WaitReturns
<1>. DEFINE a == SubSeq(finished, 1, n)
            b == SubSeq(finished, n + 1, Len(finished))
<1>1. /\ cq' = cq \o a /\ finished' = b /\ UNCHANGED <<batch, inflight>>
      /\ pc = "wait" /\ pc' = Returned
      /\ UNCHANGED <<turns, parking, exit_code, ready, counts, records>>
  BY ZenonT(60) DEF Io!Post, WaitReturns
<1>2. /\ a \in Seq(Fibers) /\ b \in Seq(Fibers)
      /\ Len(a) = n /\ Len(b) = Len(finished) - n
      /\ Range(finished) = Range(a) \cup Range(b)
      /\ IsInjective(a) /\ IsInjective(b) /\ Range(a) \cap Range(b) = {}
  BY SMTT(30), DistinctSplit DEF Inv, TypeOK, NoneTwice
<1>. HIDE DEF a, b
<1>3. Range(cq) \cap Range(a) = {}
  BY ZenonT(60), <1>2 DEF Inv, Placed, Apart
<1>4. /\ cq' \in Seq(Fibers) /\ Len(cq') = Len(cq) + n
      /\ Range(cq') = Range(cq) \cup Range(a) /\ IsInjective(cq')
  <2>1. cq \in Seq(Fibers) /\ IsInjective(cq)
    BY SMTT(30) DEF Inv, TypeOK, NoneTwice
  <2>2. /\ cq \o a \in Seq(Fibers) /\ Len(cq \o a) = Len(cq) + Len(a)
        /\ Range(cq \o a) = Range(cq) \cup Range(a)
        /\ IsInjective(cq) /\ IsInjective(a) /\ Range(cq) \cap Range(a) = {}
             => IsInjective(cq \o a)
    BY SMTT(30), <1>2, <2>1, DistinctConcat
  <2>. QED BY SMTT(60), <1>1, <1>2, <1>3, <2>1, <2>2
<1>5. /\ Joining' = Joining /\ JoinedStaysJoinable'
      /\ \A g \in Fibers : Alive(g)' <=> Alive(g)
      /\ {t \in Fibers : joiner'[t] # Null} = {t \in Fibers : joiner[t] # Null}
  BY <1>1, SameRecords DEF records
<1>6. /\ pc' \in {"append", "reap"} /\ (pc' = "append" => parking # Null)
      /\ (parking # Null => pc' # "reap")
  BY <1>1 DEF Returned
<1>7. TypeOK'
  BY ZenonT(60), <1>1, <1>2, <1>4, <1>6 DEF Inv, TypeOK, counts, records
<1>8. NoneTwice'
  BY ZenonT(60), <1>1, <1>2, <1>4 DEF Inv, NoneTwice, records
<1>9. Placed'
  <2>1. /\ Range(ready)' = Range(ready) /\ Range(batch)' = Range(batch)
        /\ Range(finished)' = Range(b) /\ inflight' = inflight
        /\ Parking' = Parking
    BY SMTT(60), <1>1 DEF Parking
  <2>. QED BY ZenonT(60), <1>2, <1>4, <1>5, <2>1 DEF Inv, Placed, Apart
<1>10. CountsExact'
  <2>1. /\ Len(finished') = Len(finished) - n /\ Len(cq') = Len(cq) + n
        /\ batch' = batch /\ inflight' = inflight /\ parked_count' = parked_count
    BY SMTT(30), <1>1, <1>2, <1>4 DEF counts
  <2>2. Len(batch') + Cardinality(inflight') + Len(finished') + Len(cq') = parked_count'
    BY SMTT(60), <2>1, RingSizes
  <2>. QED BY ZenonT(60), <1>1, <1>5, <2>2 DEF Inv, CountsExact, counts
<1>11. TurnsHaveFibers' /\ ControlInv'
  BY ZenonT(60), <1>1, <1>6 DEF Inv, TurnsHaveFibers, ControlInv, counts
<1>. QED BY ZenonT(60), <1>5, <1>7, <1>8, <1>9, <1>10, <1>11 DEF Inv

\* park() after its flush: from park() to the batch.
LEMMA ParkAppendsStep ==
  ASSUME Inv, ParkAppends
  PROVE  Inv'
<1>1. /\ pc = "append" /\ pc' = "dispatch" /\ parking' = Null
      /\ batch' = Append(batch, parking) /\ parked_count' = parked_count + 1
      /\ UNCHANGED <<turns, exit_code, ready, ready_count, joining_count,
                     life, joiner, status, result, inflight, finished, cq>>
  BY SMTT(30) DEF ParkAppends, Io!AppendSqe, records
<1>2. parking \in Fibers /\ parking # Null
  BY SMTT(30), <1>1 DEF Inv, ControlInv, TypeOK
<1>3. parking \notin Range(batch)
  BY ZenonT(60), <1>2 DEF Inv, Placed, Apart, Parking
<1>4. /\ batch' \in Seq(Fibers) /\ Len(batch') = Len(batch) + 1
      /\ Range(batch') = Range(batch) \cup {parking} /\ IsInjective(batch')
  BY SMTT(30), <1>1, <1>2, <1>3, DistinctAppend DEF Inv, TypeOK, NoneTwice
<1>5. /\ Joining' = Joining /\ JoinedStaysJoinable'
      /\ \A g \in Fibers : Alive(g)' <=> Alive(g)
      /\ {t \in Fibers : joiner'[t] # Null} = {t \in Fibers : joiner[t] # Null}
  BY SMTT(30), <1>1, SameRecords
<1>6. TypeOK'
  BY SMTT(30), <1>1, <1>4 DEF Inv, TypeOK
<1>7. NoneTwice'
  BY SMTT(30), <1>1, <1>4 DEF Inv, NoneTwice
<1>8. Placed'
  <2>1. Parking = {parking} /\ Parking' = {}
    BY SMTT(60), <1>1, <1>2 DEF Parking
  <2>2. /\ Range(ready)' = Range(ready) /\ inflight' = inflight
        /\ Range(finished)' = Range(finished) /\ Range(cq)' = Range(cq)
    BY SMTT(30), <1>1
  <2>. QED BY ZenonT(60), <1>4, <1>5, <2>1, <2>2 DEF Inv, Placed, Apart
<1>9. CountsExact'
  BY SMTT(60), <1>1, <1>4, <1>5, RingSizes DEF Inv, CountsExact
<1>10. TurnsHaveFibers' /\ ControlInv'
  BY SMTT(30), <1>1, <1>2, RingAssumption DEF Inv, TypeOK, TurnsHaveFibers, ControlInv
<1>. QED BY ZenonT(60), <1>5, <1>6, <1>7, <1>8, <1>9, <1>10 DEF Inv

\* A completion: from the CQ to the run queue.
LEMMA ReapOneStep ==
  ASSUME Inv, ReapOne
  PROVE  Inv'
<1>. DEFINE e == Head(cq)
<1>1. /\ pc = "reap" /\ cq # <<>> /\ cq' = Tail(cq) /\ ready' = Append(ready, e)
      /\ ready_count' = ready_count + 1 /\ parked_count' = parked_count - 1
      /\ UNCHANGED <<pc, turns, parking, exit_code, joining_count,
                     life, joiner, status, result, batch, inflight, finished>>
  BY SMTT(30) DEF ReapOne, Io!Reap, control, records
<1>2. /\ cq' \in Seq(Fibers) /\ Len(cq) \in Nat \ {0}
      /\ Len(cq') = Len(cq) - 1 /\ IsInjective(cq')
      /\ e \in Range(cq) /\ Range(cq') = Range(cq) \ {e}
  BY ZenonT(60), <1>1, DistinctTail DEF Inv, TypeOK, NoneTwice
<1>. HIDE DEF e
<1>3. e \in Fibers /\ e \notin Range(ready)
  <2>1. Range(cq) \subseteq Fibers
    BY SMTT(30), RangeOfSeq DEF Inv, TypeOK
  <2>. QED BY SMTT(30), <1>2, <2>1 DEF Inv, Placed, Apart
<1>4. /\ ready' \in Seq(Fibers) /\ Len(ready') = Len(ready) + 1
      /\ Range(ready') = Range(ready) \cup {e} /\ IsInjective(ready')
  BY SMTT(30), <1>1, <1>3, DistinctAppend DEF Inv, TypeOK, NoneTwice
<1>5. /\ Joining' = Joining /\ JoinedStaysJoinable'
      /\ \A g \in Fibers : Alive(g)' <=> Alive(g)
      /\ {t \in Fibers : joiner'[t] # Null} = {t \in Fibers : joiner[t] # Null}
  BY SMTT(30), <1>1, SameRecords
<1>6. parked_count' \in Nat
  BY SMTT(60), <1>1, <1>2, RingSizes
<1>7. TypeOK'
  BY SMTT(60), <1>1, <1>2, <1>4, <1>6 DEF Inv, TypeOK
<1>8. NoneTwice'
  BY SMTT(60), <1>1, <1>2, <1>4 DEF Inv, NoneTwice
<1>9. Placed'
  <2>1. /\ Parking' = Parking /\ Range(batch)' = Range(batch)
        /\ inflight' = inflight /\ Range(finished)' = Range(finished)
    BY SMTT(30), <1>1 DEF Parking
  <2>2. Placed
    BY SMTT(30) DEF Inv
  <2>3. Apart(Range(ready'), Range(batch), inflight, Range(finished), Range(cq'),
              Joining, Parking)
    BY ONLY SMTT(30), <1>2, <1>4, <2>2 DEF Placed, Apart
  <2>4. ASSUME NEW f \in Fibers
        PROVE  Alive(f)' <=> f \in Range(ready') \cup Range(batch) \cup inflight
                                   \cup Range(finished) \cup Range(cq')
                                   \cup Joining \cup Parking
    <3>1. Alive(f)' <=> Alive(f)
      BY ZenonT(60), <1>5
    <3>. QED BY ONLY SMTT(30), <1>2, <1>4, <2>2, <3>1, f \in Fibers DEF Placed
  <2>. QED BY ZenonT(60), <1>5, <2>1, <2>3, <2>4 DEF Placed
<1>10. CountsExact'
  BY SMTT(60), <1>1, <1>2, <1>4, <1>5, RingSizes DEF Inv, CountsExact
<1>11. TurnsHaveFibers' /\ ControlInv'
  BY SMTT(60), <1>1, <1>4, <1>6, RingAssumption
     DEF Inv, TypeOK, TurnsHaveFibers, ControlInv
<1>. QED BY SMTT(30), <1>5, <1>7, <1>8, <1>9, <1>10, <1>11 DEF Inv

\* An operation ends: from the kernel's set to its completion list.
LEMMA KernelFinishesStep ==
  ASSUME Inv, KernelFinishes
  PROVE  Inv'
<1>. PICK f \in Fibers : Io!Finish(f)
  BY SMTT(30) DEF KernelFinishes
<1>1. /\ f \in inflight /\ inflight' = inflight \ {f}
      /\ finished' = Append(finished, f)
      /\ UNCHANGED <<pc, turns, parking, exit_code, ready, ready_count, parked_count,
                     joining_count, life, joiner, status, result, batch, cq>>
      /\ pc \notin {"trap_joining", "drained"}
  BY SMTT(30) DEF KernelFinishes, Io!Finish, control, counts, records
<1>2. f \notin Range(finished)
  BY ZenonT(60), <1>1 DEF Inv, Placed, Apart
<1>3. /\ finished' \in Seq(Fibers) /\ Len(finished') = Len(finished) + 1
      /\ Range(finished') = Range(finished) \cup {f} /\ IsInjective(finished')
  BY SMTT(30), <1>1, <1>2, DistinctAppend DEF Inv, TypeOK, NoneTwice
<1>4. /\ Joining' = Joining /\ JoinedStaysJoinable'
      /\ \A g \in Fibers : Alive(g)' <=> Alive(g)
      /\ {t \in Fibers : joiner'[t] # Null} = {t \in Fibers : joiner[t] # Null}
  BY SMTT(30), <1>1, SameRecords
<1>5. TypeOK'
  BY ZenonT(60), <1>1, <1>3 DEF Inv, TypeOK
<1>6. NoneTwice'
  BY ZenonT(60), <1>1, <1>3 DEF Inv, NoneTwice
<1>7. Placed'
  <2>1. /\ Parking' = Parking /\ Range(batch)' = Range(batch)
        /\ Range(ready)' = Range(ready) /\ Range(cq)' = Range(cq)
    BY SMTT(30), <1>1 DEF Parking
  <2>2. Placed
    BY ZenonT(60) DEF Inv
  <2>3. Apart(Range(ready), Range(batch), inflight', Range(finished'), Range(cq),
              Joining, Parking)
    BY ONLY SMTT(30), <1>1, <1>3, <2>2 DEF Placed, Apart
  <2>4. ASSUME NEW g \in Fibers
        PROVE  Alive(g)' <=> g \in Range(ready) \cup Range(batch) \cup inflight'
                                   \cup Range(finished') \cup Range(cq)
                                   \cup Joining \cup Parking
    BY ONLY SMTT(30), <1>1, <1>3, <1>4, <2>2, g \in Fibers DEF Placed
  <2>. QED BY ZenonT(60), <1>4, <2>1, <2>3, <2>4 DEF Placed
<1>8. CountsExact'
  <2>1. Cardinality(inflight \ {f}) = Cardinality(inflight) - 1
    BY ZenonT(60), <1>1, RingSizes, FS_RemoveElement
  <2>. QED BY SMTT(60), <1>1, <1>3, <1>4, <2>1, RingSizes DEF Inv, CountsExact
<1>9. TurnsHaveFibers' /\ ControlInv'
  BY ZenonT(60), <1>1 DEF Inv, TurnsHaveFibers, ControlInv, Drained
<1>. QED BY ZenonT(60), <1>4, <1>5, <1>6, <1>7, <1>8, <1>9 DEF Inv

-----------------------------------------------------------------------------
\* A step of the loop that only decides where to go.
LEMMA ControlStep ==
  ASSUME Inv, UNCHANGED <<parking, ready, counts, records, ring>>,
         pc' \in {"loop", "dispatch", "enter", "trap", "trap_joining", "drained",
                  "exited"},
         turns' \in Nat, turns' <= Len(ready), exit_code' \in Status \cup {0, Null},
         parking # Null => pc' = "trap",
         pc' = "trap_joining" => Drained /\ joining_count # 0,
         pc' = "drained" => Drained /\ joining_count = 0
  PROVE  Inv'
<1>1. NoneTwice' /\ Placed' /\ CountsExact' /\ JoinedStaysJoinable'
  BY SMTT(60), StandingStep
<1>2. TypeOK'
  BY ZenonT(60) DEF Inv, TypeOK, counts, records, ring
<1>3. TurnsHaveFibers' /\ ControlInv'
  BY ZenonT(60) DEF Inv, TurnsHaveFibers, ControlInv, Drained, counts
<1>. QED BY SMTT(30), <1>1, <1>2, <1>3 DEF Inv

\* A trap leaves everything as it is.
LEMMA TrapStep ==
  ASSUME Inv, Trap
  PROVE  Inv'
<1>1. /\ UNCHANGED <<parking, ready, counts, records, ring>>
      /\ pc' = "trap" /\ turns' = turns /\ exit_code' = exit_code
  BY SMTT(30) DEF Trap
<1>2. turns \in Nat /\ turns <= Len(ready) /\ exit_code \in Status \cup {0, Null}
  BY SMTT(30) DEF Inv, TypeOK, TurnsHaveFibers
<1>. QED BY SMTT(30), <1>1, <1>2, ControlStep

\* Every request preserves the invariant.
LEMMA RequestStep ==
  ASSUME Inv, NEW f \in Fibers, Request(f)
  PROVE  Inv'
<1>1. CASE Yield(f) \/ SpawnFails(f)
  BY SMTT(30), <1>1, YieldStep
<1>2. CASE ExitDetached(f)
  BY SMTT(30), <1>2, ExitDetachedStep
<1>3. CASE \E s \in Status : ExitUnclaimed(f, s)
  BY SMTT(30), <1>3, ExitUnclaimedStep
<1>4. CASE \E s \in Status : ExitJoined(f, s)
  BY SMTT(30), <1>4, ExitJoinedStep
<1>5. CASE \E child \in Fibers : Spawn(f, child)
  BY SMTT(30), <1>5, SpawnStep
<1>6. CASE \E t \in Fibers : JoinExited(f, t) \/ DetachExited(f, t)
  BY SMTT(30), <1>6, ReclaimStep
<1>7. CASE \E t \in Fibers : JoinWaits(f, t)
  BY <1>7, JoinWaitsStep
<1>8. CASE \E t \in Fibers : DetachLive(f, t)
  BY <1>8, DetachLiveStep
<1>9. CASE Await(f)
  BY <1>9, AwaitStep
<1>10. CASE AwaitFlushes(f)
  BY <1>10, AwaitFlushesStep
<1>11. CASE \E s \in Status : ProcessExit(f, s)
  <2>1. /\ UNCHANGED <<parking, ready, counts, records, ring>>
        /\ pc = "dispatch" /\ pc' = "exited" /\ turns' = turns
        /\ exit_code' \in Status \cup {0, Null}
    BY SMTT(30), <1>11 DEF ProcessExit, Resumes
  <2>2. turns \in Nat /\ turns <= Len(ready) /\ parking = Null
    BY SMTT(60), <2>1 DEF Inv, TypeOK, TurnsHaveFibers, ControlInv
  <2>. QED BY SMTT(30), <2>1, <2>2, ControlStep
<1>12. CASE \/ \E t \in Fibers : HandleRefused(f, t)
            \/ AwaitRefused(f)
            \/ DestroyFails(f)
  BY ZenonT(60), <1>12, TrapStep DEF HandleRefused, AwaitRefused, DestroyFails
<1>. QED BY ZenonT(60), <1>1, <1>2, <1>3, <1>4, <1>5, <1>6, <1>7, <1>8, <1>9, <1>10, <1>11,
            <1>12 DEF Request

\* Every step preserves the invariant.
LEMMA InvNext == Inv /\ [Next]_vars => Inv'
<1>. SUFFICES ASSUME Inv, [Next]_vars PROVE Inv'
  BY SMTT(30)
<1>0. /\ turns \in Nat /\ turns <= Len(ready) /\ exit_code \in Status \cup {0, Null}
      /\ ready_count = Len(ready) /\ Len(ready) \in Nat /\ joining_count \in Nat
      /\ pc \in {"loop", "dispatch", "reap"} => parking = Null
  BY ZenonT(60) DEF Inv, TypeOK, TurnsHaveFibers, CountsExact, ControlInv
<1>1. CASE StartGeneration
  <2>1. /\ UNCHANGED <<parking, ready, counts, records, ring>> /\ pc = "loop"
        /\ pc' = "dispatch" /\ turns' = ready_count /\ exit_code' = exit_code
    BY SMTT(30), <1>1 DEF StartGeneration
  <2>. QED BY SMTT(30), <1>0, <2>1, ControlStep
<1>2. CASE \E f \in Fibers : Request(f)
  BY SMTT(30), <1>2, RequestStep
<1>3. CASE EndGeneration
  <2>1. /\ UNCHANGED <<parking, ready, counts, records, ring>> /\ pc = "dispatch"
        /\ pc' \in {"loop", "enter"} /\ turns' = turns /\ exit_code' = exit_code
    BY SMTT(30), <1>3 DEF EndGeneration
  <2>. QED BY SMTT(30), <1>0, <2>1, ControlStep
<1>4. CASE EnterShort \/ EnterAll \/ EnterInterrupted
  <2>1. Len(batch) \in Nat
    BY SMTT(30), RingSizes
  <2>2. /\ \E n \in 0 .. Len(batch) : Io!Submit(n)
        /\ pc = "enter" /\ (pc' = pc \/ pc' = "wait" \/ pc' = Returned)
        /\ UNCHANGED <<turns, parking, exit_code, ready, counts, records>>
    BY SMTT(30), <1>4, <2>1 DEF EnterShort, EnterAll, EnterInterrupted, control
  <2>. QED BY SMTT(30), <2>2, SubmitStep
<1>5. CASE EnterFails \/ ReapRefused
  BY SMTT(30), <1>5, TrapStep DEF EnterFails, ReapRefused
<1>6. CASE WaitReturns
  BY SMTT(30), <1>6, WaitReturnsStep
<1>7. CASE ParkAppends
  BY SMTT(30), <1>7, ParkAppendsStep
<1>8. CASE ReapOne
  BY <1>8, ReapOneStep
<1>9. CASE ReapEnds
  <2>1. /\ UNCHANGED <<parking, ready, counts, records, ring>> /\ pc = "reap"
        /\ pc' = "loop" /\ turns' = turns /\ exit_code' = exit_code
    BY SMTT(30), <1>9 DEF ReapEnds
  <2>. QED BY SMTT(30), <1>0, <2>1, ControlStep
<1>10. CASE Drain
  <2>1. /\ UNCHANGED <<parking, ready, counts, records, ring>> /\ pc = "loop"
        /\ Drained /\ turns' = turns
        /\ \/ pc' = "trap_joining" /\ exit_code' = exit_code /\ joining_count # 0
           \/ pc' = "drained" /\ exit_code' = 0 /\ joining_count = 0
    BY SMTT(30), <1>10 DEF Drain
  <2>. QED BY SMTT(30), <1>0, <2>1, ControlStep
<1>11. CASE KernelFinishes
  BY <1>11, KernelFinishesStep
<1>12. CASE Over \/ UNCHANGED vars
  <2>1. UNCHANGED <<pc, turns, exit_code, parking, ready, counts, records, ring>>
    BY SMTT(30), <1>12 DEF Over, vars, control
  <2>2. NoneTwice' /\ Placed' /\ CountsExact' /\ JoinedStaysJoinable'
    BY SMTT(60), <2>1, StandingStep
  <2>3. TypeOK' /\ TurnsHaveFibers' /\ ControlInv'
    BY ZenonT(60), <2>1 DEF Inv, TypeOK, TurnsHaveFibers, ControlInv, Drained, counts, records, ring
  <2>. QED BY SMTT(30), <2>2, <2>3 DEF Inv
<1>. QED BY SMTT(60), <1>1, <1>2, <1>3, <1>4, <1>5, <1>6, <1>7, <1>8, <1>9, <1>10, <1>11,
            <1>12 DEF Next, Reactor

\* The invariant holds in every state of the reactor.
LEMMA InvAlways == Spec => []Inv
BY InvInit, InvNext, PTL DEF Spec

-----------------------------------------------------------------------------
\* A fiber that can run stands in exactly one of the run queue, the batch, the
\* kernel, the CQ, a joiner slot and park(), and no other fiber stands in any:
\* the handlers of run() neither lose a fiber, nor wake one twice, nor keep a
\* pointer to a record they have released.
THEOREM FiberInOnePlace == Spec => [](TypeOK /\ OnePlace)
<1>1. Inv => TypeOK /\ OnePlace
  BY PlacedIsOnePlace DEF Inv
<1>. QED BY <1>1, InvAlways, PTL

\* The counters run() decides by are exact after every request, submission and
\* completion (scheduler.c:14-19).
THEOREM CountersAreExact == Spec => []CountsExact
<1>1. Inv => CountsExact
  BY SMTT(30) DEF Inv
<1>. QED BY <1>1, InvAlways, PTL

\* The sweep never dequeues from an empty queue, also when park() flushes the
\* batch in the middle of it (scheduler.c:65).
THEOREM SweepFindsFibers == Spec => []TurnsHaveFibers
<1>1. Inv => TurnsHaveFibers
  BY SMTT(30) DEF Inv
<1>. QED BY <1>1, InvAlways, PTL

\* Every operation out has a CQ entry, whatever the sizes of the ring.
THEOREM QueueNeverOverflows == Spec => []CompletionsFit
<1>1. Inv => CompletionsFit
  <2>. SUFFICES ASSUME Inv PROVE CompletionsFit
    BY SMTT(30)
  <2>1. parked_count <= CqEntries
    BY SMTT(30), RingAssumption DEF Inv, ControlInv, TypeOK
  <2>. QED BY SMTT(30), <2>1 DEF Inv, CountsExact, CompletionsFit
<1>. QED BY <1>1, InvAlways, PTL

\* A fiber that is waited for stays joinable until its exit finds the joiner.
THEOREM JoinersAreKept == Spec => []JoinedStaysJoinable
<1>1. Inv => JoinedStaysJoinable
  BY DEF Inv
<1>. QED BY <1>1, InvAlways, PTL

\* Once the loop of run() is over only waiters are left, and the count says
\* whether there are any.
LEMMA OnlyWaitersLeft ==
  ASSUME Inv
  PROVE  /\ pc \in {"drained", "trap_joining"} =>
              \A f \in Fibers : Alive(f) => f \in Joining
         /\ joining_count = 0 <=> Joining = {}
<1>1. ASSUME pc \in {"drained", "trap_joining"}
      PROVE  \A f \in Fibers : Alive(f) => f \in Joining
  <2>1. ready_count = 0 /\ parked_count = 0 /\ parking = Null
    BY SMTT(30), <1>1 DEF Inv, TypeOK, ControlInv, Drained
  <2>2. /\ Len(ready) = 0 /\ Len(batch) = 0 /\ Cardinality(inflight) = 0
        /\ Len(finished) = 0 /\ Len(cq) = 0
    BY SMTT(30), <2>1, RingSizes DEF Inv, CountsExact
  <2>3. inflight = {}
    BY SMTT(30), <2>2, RingSizes, FS_EmptySet
  <2>4. ready = <<>> /\ batch = <<>> /\ finished = <<>> /\ cq = <<>>
    BY SMTT(30), <2>2 DEF Inv, TypeOK
  <2>5. /\ Range(ready) = {} /\ Range(batch) = {} /\ Range(finished) = {}
        /\ Range(cq) = {} /\ Parking = {}
    BY SMTT(30), <2>1, <2>4, Woken DEF Parking
  <2>. QED BY SMTT(30), <2>3, <2>5 DEF Inv, Placed
<1>2. IsFiniteSet({t \in Fibers : joiner[t] # Null})
  BY SMTT(30), FiberAssumption, FS_Subset
<1>3. joining_count = 0 <=> {t \in Fibers : joiner[t] # Null} = {}
  BY ZenonT(60), <1>2, FS_EmptySet DEF Inv, CountsExact
<1>4. joining_count = 0 <=> Joining = {}
  BY ZenonT(60), <1>3 DEF Joining, Range, Inv, TypeOK
<1>. QED BY SMTT(30), <1>1, <1>4

\* run() drains to 0 only when every fiber has ended.
THEOREM DrainedIsOver == Spec => []DrainedMeansAllEnded
<1>1. Inv => DrainedMeansAllEnded
  BY SMTT(30), OnlyWaitersLeft DEF DrainedMeansAllEnded, Inv, ControlInv
<1>. QED BY <1>1, InvAlways, PTL

\* run() traps after its loop only when the fibers left wait for each other.
THEOREM DrainTrapIsRight == Spec => []DrainTrapIsCycle
<1>1. Inv => DrainTrapIsCycle
  <2>. SUFFICES ASSUME Inv, pc = "trap_joining"
                PROVE  \E C \in (SUBSET Fibers) \ {{}} :
                         \A f \in C : \E t \in C : joiner[t] = f
    BY SMTT(30) DEF DrainTrapIsCycle
  <2>1. Joining \in (SUBSET Fibers) \ {{}}
    <3>1. Joining # {}
      BY SMTT(30), OnlyWaitersLeft DEF Inv, ControlInv
    <3>2. Joining \subseteq Fibers
      BY SMTT(30) DEF Inv, TypeOK, Joining, Range
    <3>. QED BY SMTT(30), <3>1, <3>2
  <2>2. ASSUME NEW f \in Joining PROVE \E t \in Joining : joiner[t] = f
    <3>1. PICK t \in Fibers : joiner[t] = f /\ f # Null
      BY SMTT(30) DEF Joining, Range, Inv, TypeOK
    <3>2. Alive(t)
      BY ZenonT(60), <3>1 DEF Inv, JoinedStaysJoinable, Alive
    <3>. QED BY ZenonT(60), <3>1, <3>2, OnlyWaitersLeft
  <2>. QED BY ZenonT(60), <2>1, <2>2
<1>. QED BY <1>1, InvAlways, PTL
=============================================================================
