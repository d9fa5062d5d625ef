---------------------------- MODULE ThreadsProofs ----------------------------
(***************************************************************************)
(* What the threads of a program see of the reactor, for any number of     *)
(* fibers and any ring sizes: a spawner runs before its child, a status    *)
(* waits for its joiner, and the reactor implements the C11 threads, as    *)
(* every step is one of Threads or changes no thread.                      *)
(***************************************************************************)
EXTENDS SchedulerThreads, SchedulerProofs

-----------------------------------------------------------------------------
(* The order in which a spawner and its child run.                         *)

\* A queue that loses its first d entries and grows at its tail keeps the
\* order of a spawner and its child, if the fiber resumed has been answered.
LEMMA OrderKept ==
  ASSUME TypeOK, HandleStoredFirst, NEW d \in {0, 1}, ready' \in Seq(Fibers),
         \A i \in 1 .. Len(ready) :
           i > d => i - d \in 1 .. Len(ready') /\ ready'[i - d] = ready[i],
         \A g \in Fibers : result'[g] \in Fibers =>
           result'[g] = result[g] /\ (d = 1 => g # ready[1])
  PROVE  HandleStoredFirst'
<1>. SUFFICES ASSUME NEW g \in Fibers, result'[g] \in Fibers
              PROVE  \E i, j \in DOMAIN ready' :
                       i < j /\ ready'[i] = g /\ ready'[j] = result'[g]
  BY DEF HandleStoredFirst
<1>1. DOMAIN ready = 1 .. Len(ready) /\ DOMAIN ready' = 1 .. Len(ready')
  BY SMTT(60) DEF TypeOK
<1>2. PICK i, j \in 1 .. Len(ready) : i < j /\ ready[i] = g /\ ready[j] = result[g]
  BY SMTT(30), <1>1 DEF HandleStoredFirst
<1>3. result'[g] = result[g] /\ i > d /\ j > d
  BY SMTT(30), <1>2
<1>4. /\ i - d \in 1 .. Len(ready') /\ ready'[i - d] = g
      /\ j - d \in 1 .. Len(ready') /\ ready'[j - d] = result'[g]
  BY SMTT(60), <1>2, <1>3
<1>5. i - d < j - d
  BY SMTT(30), <1>2
<1>. QED BY ZenonT(60), <1>1, <1>4, <1>5

\* The entries of the queue after a turn.
LEMMA TurnEntries ==
  ASSUME TypeOK, NEW f \in Fibers, Resumes(f), NEW woken \in Seq(Fibers),
         ready' = Tail(ready) \o woken
  PROVE  /\ f = ready[1] /\ Len(ready) \in Nat \ {0} /\ ready' \in Seq(Fibers)
         /\ Len(ready') = Len(ready) - 1 + Len(woken)
         /\ \A i \in 1 .. Len(ready) :
              i > 1 => i - 1 \in 1 .. Len(ready') /\ ready'[i - 1] = ready[i]
         /\ \A k \in 1 .. Len(woken) : ready'[Len(ready) - 1 + k] = woken[k]
<1>1. ready \in Seq(Fibers) /\ ready # <<>> /\ f = ready[1]
  BY DEF TypeOK, Resumes
<1>. DEFINE rest == Tail(ready)
<1>2. /\ rest \in Seq(Fibers) /\ Len(ready) \in Nat \ {0}
      /\ Len(rest) = Len(ready) - 1
      /\ \A i \in 1 .. Len(ready) - 1 : rest[i] = ready[i + 1]
  BY SMTT(30), <1>1, DistinctTail
<1>3. ready' = rest \o woken
  OBVIOUS
<1>. HIDE DEF rest
<1>4. /\ ready' \in Seq(Fibers) /\ Len(ready') = Len(rest) + Len(woken)
      /\ \A i \in 1 .. Len(rest) : ready'[i] = rest[i]
      /\ \A k \in 1 .. Len(woken) : ready'[Len(rest) + k] = woken[k]
  <2>. DEFINE u == rest \o woken
  <2>0. rest \in Seq(Fibers)
    BY SMTT(60), <1>2
  <2>1. /\ u \in Seq(Fibers) /\ Len(u) = Len(rest) + Len(woken)
        /\ \A i \in 1 .. Len(rest) : u[i] = rest[i]
        /\ \A k \in 1 .. Len(woken) : u[Len(rest) + k] = woken[k]
    BY ONLY SMTT(30), <2>0, woken \in Seq(Fibers), ConcatEntries
  <2>. HIDE DEF u
  <2>2. ready' = u
    BY ZenonT(60), <1>3 DEF u
  <2>. QED BY ZenonT(60), <2>1, <2>2
<1>5. ASSUME NEW i \in 1 .. Len(ready), i > 1
      PROVE  i - 1 \in 1 .. Len(ready') /\ ready'[i - 1] = ready[i]
  <2>1. i - 1 \in 1 .. Len(rest) /\ (i - 1) + 1 = i /\ Len(woken) \in Nat
    BY SMTT(30), <1>2, <1>5
  <2>. QED BY SMTT(60), <1>2, <1>4, <2>1
<1>. QED BY SMTT(60), <1>1, <1>2, <1>4, <1>5

\* A turn whose answer is no fiber.
LEMMA OrderAfterTurn ==
  ASSUME TypeOK, HandleStoredFirst, NEW f \in Fibers, Resumes(f),
         NEW woken \in Seq(Fibers), ready' = Tail(ready) \o woken,
         NEW g \in Fibers, NEW r \in Status \cup {Null}, Answer(f, g, r)
  PROVE  HandleStoredFirst'
<1>1. \A h \in Fibers : result'[h] \in Fibers => result'[h] = result[h] /\ h # f
  BY SMTT(60), NullAssumption, StatusAssumption DEF Answer, TypeOK
<1>2. /\ f = ready[1] /\ ready' \in Seq(Fibers)
      /\ \A i \in 1 .. Len(ready) :
           i > 1 => i - 1 \in 1 .. Len(ready') /\ ready'[i - 1] = ready[i]
  BY ZenonT(60), TurnEntries
<1>. QED BY SMTT(60), <1>1, <1>2, OrderKept

\* SPAWN puts the spawner and its child, in this order, at the tail.
LEMMA OrderAfterSpawn ==
  ASSUME TypeOK, HandleStoredFirst, NEW f \in Fibers, NEW child \in Fibers,
         Spawn(f, child), f # child
  PROVE  HandleStoredFirst'
<1>1. /\ Resumes(f) /\ ready' = Tail(ready) \o <<f, child>>
      /\ result' = [result EXCEPT ![f] = child]
  BY ZenonT(60) DEF Spawn, Turn, Answer, TypeOK
<1>2. /\ f = ready[1] /\ Len(ready) \in Nat \ {0} /\ ready' \in Seq(Fibers)
      /\ Len(ready') = Len(ready) + 1
      /\ \A i \in 1 .. Len(ready) :
           i > 1 => i - 1 \in 1 .. Len(ready') /\ ready'[i - 1] = ready[i]
      /\ ready'[Len(ready)] = f /\ ready'[Len(ready) + 1] = child
  <2>1. <<f, child>> \in Seq(Fibers) /\ Len(<<f, child>>) = 2
    OBVIOUS
  <2>. DEFINE w == <<f, child>>
  <2>2. w \in Seq(Fibers) /\ Len(w) = 2 /\ w[1] = f /\ w[2] = child
        /\ ready' = Tail(ready) \o w
    BY <1>1
  <2>. HIDE DEF w
  <2>3. /\ f = ready[1] /\ Len(ready) \in Nat \ {0} /\ ready' \in Seq(Fibers)
        /\ Len(ready') = Len(ready) - 1 + Len(w)
        /\ \A i \in 1 .. Len(ready) :
             i > 1 => i - 1 \in 1 .. Len(ready') /\ ready'[i - 1] = ready[i]
        /\ \A k \in 1 .. Len(w) : ready'[Len(ready) - 1 + k] = w[k]
    BY ZenonT(60), <1>1, <2>2, TurnEntries
  <2>4. ready'[Len(ready) - 1 + 1] = f /\ ready'[Len(ready) - 1 + 2] = child
    BY SMTT(60), <2>2, <2>3
  <2>5. /\ Len(ready) - 1 + 1 = Len(ready) /\ Len(ready) - 1 + 2 = Len(ready) + 1
    BY <2>3
  <2>. QED BY SMTT(30), <2>2, <2>3, <2>4, <2>5
<1>. SUFFICES ASSUME NEW g \in Fibers, result'[g] \in Fibers
              PROVE  \E i, j \in DOMAIN ready' :
                       i < j /\ ready'[i] = g /\ ready'[j] = result'[g]
  BY DEF HandleStoredFirst
<1>3. DOMAIN ready = 1 .. Len(ready) /\ DOMAIN ready' = 1 .. Len(ready')
  BY <1>2 DEF TypeOK
<1>4. CASE g = f
  <2>1. result'[g] = child
    BY SMTT(30), <1>1, <1>4 DEF TypeOK
  <2>2. /\ Len(ready) \in DOMAIN ready' /\ Len(ready) + 1 \in DOMAIN ready'
        /\ Len(ready) < Len(ready) + 1
    BY SMTT(30), <1>2, <1>3
  <2>. QED BY SMTT(60), <1>2, <1>4, <2>1, <2>2
<1>5. CASE g # f
  <2>1. result'[g] = result[g]
    BY SMTT(60), <1>1, <1>5 DEF TypeOK
  <2>2. PICK i, j \in 1 .. Len(ready) : i < j /\ ready[i] = g /\ ready[j] = result[g]
    BY SMTT(30), <1>3, <2>1 DEF HandleStoredFirst
  <2>3. i > 1 /\ j > 1
    BY SMTT(30), <1>2, <1>5, <2>2
  <2>4. /\ i - 1 \in 1 .. Len(ready') /\ ready'[i - 1] = g
        /\ j - 1 \in 1 .. Len(ready') /\ ready'[j - 1] = result'[g]
        /\ i - 1 < j - 1
    BY SMTT(30), <1>2, <2>1, <2>2, <2>3
  <2>. QED BY SMTT(30), <1>3, <2>4
<1>. QED BY SMTT(30), <1>4, <1>5

\* A step that resumes nobody: the queue stands, or grows by a completion.
LEMMA OrderOtherwise ==
  ASSUME TypeOK, HandleStoredFirst, ready' \in Seq(Fibers), result' = result,
         ready' = ready \/ \E e \in Fibers : ready' = Append(ready, e)
  PROVE  HandleStoredFirst'
<1>1. ready \in Seq(Fibers)
  BY DEF TypeOK
<1>2. \A i \in 1 .. Len(ready) : i \in 1 .. Len(ready') /\ ready'[i] = ready[i]
  BY <1>1
<1>3. \A i \in 1 .. Len(ready) :
        i > 0 => i - 0 \in 1 .. Len(ready') /\ ready'[i - 0] = ready[i]
  BY SMTT(30), <1>2
<1>. QED BY SMTT(30), <1>3, OrderKept

\* Every request keeps the order.
LEMMA OrderRequest ==
  ASSUME Inv, HandleStoredFirst, NEW f \in Fibers, Request(f)
  PROVE  HandleStoredFirst'
<1>0. TypeOK
  BY DEF Inv
<1>1. CASE \E child \in Fibers : Spawn(f, child)
  <2>1. PICK child \in Fibers : Spawn(f, child)
    BY SMTT(60), <1>1
  <2>2. f # child
    BY ZenonT(60), <2>1, ResumedFiber DEF Spawn, Mapped, Alive
  <2>. QED BY SMTT(30), <1>0, <2>1, <2>2, OrderAfterSpawn
<1>2. CASE \/ \E s \in Status : ProcessExit(f, s)
           \/ \E t \in Fibers : HandleRefused(f, t)
           \/ AwaitRefused(f)
           \/ DestroyFails(f)
  <2>1. ready' = ready /\ result' = result /\ ready \in Seq(Fibers)
    BY SMTT(30), <1>0, <1>2 DEF ProcessExit, HandleRefused, AwaitRefused, DestroyFails, Trap,
                      records, TypeOK
  <2>. QED BY SMTT(30), <1>0, <2>1, OrderOtherwise
<1>3. CASE \E s \in Status : ExitJoined(f, s)
  <2>1. PICK s \in Status : ExitJoined(f, s)
    BY SMTT(60), <1>3
  <2>2. joiner[f] \in Fibers /\ Resumes(f) /\ Answer(f, joiner[f], s)
        /\ ready' = Tail(ready) \o <<joiner[f]>>
    BY SMTT(30), <1>0, <2>1 DEF ExitJoined, Turn, TypeOK
  <2>3. <<joiner[f]>> \in Seq(Fibers)
    BY ZenonT(60), <2>2, Woken
  <2>. QED BY ZenonT(60), <1>0, <2>2, <2>3, OrderAfterTurn
<1>4. CASE AwaitFlushes(f)
  <2>1. /\ <<>> \in Seq(Fibers) /\ Resumes(f) /\ Answer(f, f, Null)
        /\ ready' = Tail(ready) \o <<>>
    <3>1. ready' = Tail(ready) /\ Resumes(f) /\ Answer(f, f, Null)
      BY SMTT(30), <1>4 DEF AwaitFlushes
    <3>2. Tail(ready) \in Seq(Fibers)
      BY SMTT(30), <1>0, <3>1, DistinctTail DEF TypeOK, Resumes
    <3>3. \A q \in Seq(Fibers) : q \o <<>> = q
      OBVIOUS
    <3>. QED BY SMTT(30), <3>1, <3>2, <3>3
  <2>. QED BY ZenonT(60), <1>0, <2>1, OrderAfterTurn
<1>5. CASE \/ Yield(f) \/ SpawnFails(f) \/ ExitDetached(f) \/ Await(f)
           \/ \E s \in Status : ExitUnclaimed(f, s)
           \/ \E t \in Fibers : \/ JoinExited(f, t) \/ JoinWaits(f, t)
                                \/ DetachExited(f, t) \/ DetachLive(f, t)
  <2>1. /\ Resumes(f) /\ \E r \in Status \cup {Null} : Answer(f, f, r)
        /\ ready' = Tail(ready) \o <<>> \/ ready' = Tail(ready) \o <<f>>
    BY ZenonT(60), <1>0, <1>5 DEF Yield, SpawnFails, ExitDetached, Await, ExitUnclaimed, JoinExited,
                      JoinWaits, DetachExited, DetachLive, Turn, TypeOK
  <2>2. <<>> \in Seq(Fibers) /\ <<f>> \in Seq(Fibers)
    BY Woken
  <2>. QED BY ZenonT(60), <1>0, <2>1, <2>2, OrderAfterTurn
<1>. QED BY SMTT(30), <1>1, <1>2, <1>3, <1>4, <1>5 DEF Request

\* A spawner is resumed with the handle before the child it made is resumed:
\* the order of the two enqueues survives every later step of run().
THEOREM SpawnerRunsFirst == Spec => []HandleStoredFirst
<1>1. Init => HandleStoredFirst
  BY SMTT(60), NullAssumption DEF Init, HandleStoredFirst
<1>2. Inv /\ Inv' /\ HandleStoredFirst /\ [Next]_vars => HandleStoredFirst'
  <2>. SUFFICES ASSUME Inv, Inv', HandleStoredFirst, [Next]_vars
                PROVE  HandleStoredFirst'
    BY SMTT(30)
  <2>1. TypeOK /\ ready' \in Seq(Fibers)
    BY SMTT(30) DEF Inv, TypeOK
  <2>2. CASE \E f \in Fibers : Request(f)
    BY SMTT(30), <2>2, OrderRequest
  <2>3. CASE ReapOne
    <3>1. Head(cq) \in Fibers /\ ready' = Append(ready, Head(cq)) /\ result' = result
      BY SMTT(30), <2>1, <2>3 DEF ReapOne, Io!Reap, records, TypeOK
    <3>. QED BY SMTT(60), <2>1, <3>1, OrderOtherwise
  <2>4. CASE \/ StartGeneration \/ EndGeneration \/ EnterShort \/ EnterAll
             \/ EnterInterrupted \/ EnterFails \/ WaitReturns \/ ParkAppends
             \/ ReapEnds \/ ReapRefused \/ Drain \/ KernelFinishes \/ Over \/ UNCHANGED vars
    <3>1. ready' = ready /\ result' = result
      BY ZenonT(60), <2>4 DEF StartGeneration, EndGeneration, EnterShort, EnterAll,
           EnterInterrupted, EnterFails, WaitReturns, ParkAppends, ReapEnds, ReapRefused, Drain,
           KernelFinishes, Over, Trap, records, vars
    <3>. QED BY SMTT(30), <2>1, <3>1, OrderOtherwise
  <2>. QED BY SMTT(30), <2>2, <2>3, <2>4 DEF Next, Reactor
<1>. QED BY <1>1, <1>2, InvAlways, PTL DEF Spec

-----------------------------------------------------------------------------
(* The way of a status from an exit to a join.                             *)

\* A request that has been answered is one of a fiber in the run queue.
AnswersQueued == \A g \in Fibers : result[g] # Null => g \in Range(ready)

\* f's request is handled: g's request is answered with r, and woken enqueued.
Replies(f, g, r, woken) ==
  /\ Resumes(f) /\ Answer(f, g, r)
  /\ woken \in Seq(Fibers) /\ ready' = Tail(ready) \o woken
  /\ r # Null => g \in Range(woken)
  /\ g = f \/ g \in Joining

\* Every request that goes on replies, to its own fiber or to a joiner.
LEMMA RequestReplies ==
  ASSUME Inv, NEW f \in Fibers, Request(f), ~UNCHANGED <<ready, result>>
  PROVE  \E g \in Fibers, r \in Fibers \cup Status \cup {Null} :
           \E woken \in Seq(Fibers) : Replies(f, g, r, woken)
<1>0. TypeOK /\ Resumes(f) /\ \A t \in Fibers : joiner[t] # Null => joiner[t] \in Joining
  <2>1. Resumes(f)
    BY ZenonT(60) DEF Request, Yield, ExitDetached, ExitUnclaimed, ExitJoined, Spawn, SpawnFails,
         JoinExited, JoinWaits, DetachExited, DetachLive, Await, AwaitFlushes, ProcessExit,
         HandleRefused, AwaitRefused, DestroyFails
  <2>. QED BY ZenonT(60), <2>1, ResumedFiber DEF Inv
<1>1. CASE \E child \in Fibers : Spawn(f, child)
  <2>1. PICK child \in Fibers : Spawn(f, child)
    BY SMTT(60), <1>1
  <2>2. f # child
    BY ZenonT(60), <2>1, ResumedFiber DEF Spawn, Mapped, Alive
  <2>3. <<f, child>> \in Seq(Fibers) /\ f \in Range(<<f, child>>)
    BY ZenonT(60), <2>2, Woken
  <2>4. Replies(f, f, child, <<f, child>>)
    BY ZenonT(60), <2>1, <2>3 DEF Replies, Spawn, Turn
  <2>. QED BY ZenonT(60), <2>3, <2>4
<1>2. CASE \E s \in Status : ExitJoined(f, s)
  <2>1. PICK s \in Status : ExitJoined(f, s)
    BY SMTT(60), <1>2
  <2>2. joiner[f] \in Fibers /\ joiner[f] \in Joining
    BY ZenonT(60), <1>0, <2>1 DEF ExitJoined, TypeOK
  <2>3. <<joiner[f]>> \in Seq(Fibers) /\ joiner[f] \in Range(<<joiner[f]>>)
    BY ZenonT(60), <2>2, Woken
  <2>4. Replies(f, joiner[f], s, <<joiner[f]>>)
    BY ZenonT(60), <2>1, <2>2, <2>3 DEF Replies, ExitJoined, Turn
  <2>. QED BY ZenonT(60), <2>2, <2>3, <2>4
<1>3. CASE AwaitFlushes(f)
  <2>1. ready' = Tail(ready) /\ Answer(f, f, Null)
    BY SMTT(30), <1>3 DEF AwaitFlushes
  <2>2. Tail(ready) \in Seq(Fibers)
    BY SMTT(30), <1>0, DistinctTail DEF TypeOK, Resumes
  <2>3. \A q \in Seq(Fibers) : q \o <<>> = q
    OBVIOUS
  <2>4. ready' = Tail(ready) \o <<>> /\ <<>> \in Seq(Fibers)
    BY SMTT(30), <2>1, <2>2, <2>3
  <2>5. Replies(f, f, Null, <<>>)
    BY ZenonT(60), <1>0, <2>1, <2>4 DEF Replies
  <2>. QED BY ZenonT(60), <2>4, <2>5
<1>4. CASE \/ ExitDetached(f) \/ Await(f) \/ \E s \in Status : ExitUnclaimed(f, s)
           \/ \E t \in Fibers : JoinWaits(f, t)
  <2>1. <<>> \in Seq(Fibers)
    BY Woken
  <2>2. Answer(f, f, Null) /\ ready' = Tail(ready) \o <<>>
    BY ZenonT(60), <1>4 DEF ExitDetached, Await, ExitUnclaimed, JoinWaits, Turn
  <2>3. Replies(f, f, Null, <<>>)
    BY ZenonT(60), <1>0, <2>1, <2>2 DEF Replies
  <2>. QED BY ZenonT(60), <2>1, <2>3
<1>5. CASE \/ Yield(f) \/ SpawnFails(f)
           \/ \E t \in Fibers : \/ JoinExited(f, t) \/ DetachExited(f, t) \/ DetachLive(f, t)
  <2>1. <<f>> \in Seq(Fibers) /\ f \in Range(<<f>>)
    BY ZenonT(60), Woken
  <2>2. ready' = Tail(ready) \o <<f>> /\ \E r \in Fibers \cup Status \cup {Null} : Answer(f, f, r)
    BY ZenonT(60), <1>0, <1>5
    DEF Yield, SpawnFails, JoinExited, DetachExited, DetachLive, Turn, TypeOK
  <2>3. PICK r \in Fibers \cup Status \cup {Null} : Answer(f, f, r)
    BY ZenonT(60), <2>2
  <2>4. Replies(f, f, r, <<f>>)
    BY ZenonT(60), <1>0, <2>1, <2>2, <2>3 DEF Replies
  <2>. QED BY ZenonT(60), <2>1, <2>4
<1>6. CASE \/ \E s \in Status : ProcessExit(f, s)
           \/ \E t \in Fibers : HandleRefused(f, t)
           \/ AwaitRefused(f)
           \/ DestroyFails(f)
  BY ZenonT(60), <1>6
  DEF ProcessExit, HandleRefused, AwaitRefused, DestroyFails, Trap, records
<1>. QED BY ZenonT(60), <1>1, <1>2, <1>3, <1>4, <1>5, <1>6 DEF Request

\* What a reply leaves: the queue less the fiber resumed and with the woken, and
\* no answer overwritten that is still on its way.
LEMMA ReplyStep ==
  ASSUME Inv, AnswersQueued, NEW f \in Fibers, NEW g \in Fibers,
         NEW r \in Fibers \cup Status \cup {Null}, NEW woken \in Seq(Fibers),
         Replies(f, g, r, woken)
  PROVE  /\ AnswersQueued'
         /\ Range(ready') = (Range(ready) \ {f}) \cup Range(woken)
         /\ \A t \in Fibers : result[t] # Null /\ result'[t] # result[t] => t = f
<1>1. /\ Resumes(f) /\ result' = [result EXCEPT ![f] = Null, ![g] = r]
      /\ ready' = Tail(ready) \o woken /\ (r # Null => g \in Range(woken))
      /\ g = f \/ g \in Joining
  BY ZenonT(60) DEF Replies, Answer
<1>2. /\ ready \in Seq(Fibers) /\ ready # <<>> /\ f = Head(ready) /\ IsInjective(ready)
      /\ Range(ready) \cap Joining = {} /\ result \in [Fibers -> Fibers \cup Status \cup {Null}]
  BY ZenonT(60), <1>1 DEF Inv, TypeOK, NoneTwice, Placed, Apart, Resumes
<1>3. Tail(ready) \in Seq(Fibers) /\ Range(Tail(ready)) = Range(ready) \ {f}
  BY SMTT(30), <1>2, DistinctTail
<1>4. Range(Tail(ready) \o woken) = Range(Tail(ready)) \cup Range(woken)
  BY ZenonT(60), <1>3, DistinctConcat
<1>5. Range(ready') = (Range(ready) \ {f}) \cup Range(woken)
  BY ZenonT(60), <1>1, <1>3, <1>4
<1>6. /\ result'[g] = r /\ \A h \in Fibers \ {f, g} : result'[h] = result[h]
      /\ g # f => result'[f] = Null
  BY SMTT(30), <1>1, <1>2
<1>7. ASSUME NEW h \in Fibers, result'[h] # Null PROVE h \in Range(ready')
  <2>1. CASE h = g
    BY ZenonT(60), <1>1, <1>5, <1>6, <1>7, <2>1
  <2>2. CASE h # g
    <3>1. h # f /\ result[h] # Null
      BY ZenonT(60), <1>6, <1>7, <2>2
    <3>. QED BY ZenonT(60), <1>5, <3>1 DEF AnswersQueued
  <2>. QED BY <2>1, <2>2
<1>8. ASSUME NEW t \in Fibers, result[t] # Null, result'[t] # result[t] PROVE t = f
  <2>1. t \in Range(ready)
    BY ZenonT(60), <1>8 DEF AnswersQueued
  <2>. QED BY ZenonT(60), <1>1, <1>2, <1>6, <1>8, <2>1
<1>. QED BY ZenonT(60), <1>5, <1>7, <1>8 DEF AnswersQueued

\* The steps that handle no request answer none.
LEMMA OtherSteps ==
  ASSUME TypeOK, [Next]_vars, ~\E f \in Fibers : Request(f)
  PROVE  /\ UNCHANGED records
         /\ ready' = ready \/ \E e \in Fibers : ready' = Append(ready, e)
<1>1. CASE ReapOne
  <2>1. UNCHANGED records /\ ready' = Append(ready, Head(cq)) /\ cq # <<>>
    BY ZenonT(60), <1>1 DEF ReapOne, Io!Reap
  <2>2. Head(cq) \in Fibers
    BY SMTT(30), <2>1 DEF TypeOK
  <2>. QED BY ZenonT(60), <2>1, <2>2
<1>2. CASE ~ReapOne
  BY ZenonT(60), <1>2 DEF Next, Reactor, StartGeneration, EndGeneration, EnterShort, EnterAll,
       EnterInterrupted, EnterFails, WaitReturns, ParkAppends, ReapEnds, ReapRefused,
       Drain, KernelFinishes, Over, Trap, records, vars
<1>. QED BY <1>1, <1>2

\* Answered requests are those of queued fibers, after every step.
LEMMA AnswersQueuedNext == Inv /\ AnswersQueued /\ [Next]_vars => AnswersQueued'
<1>. SUFFICES ASSUME Inv, AnswersQueued, [Next]_vars PROVE AnswersQueued'
  OBVIOUS
<1>1. ASSUME NEW f \in Fibers, Request(f) PROVE AnswersQueued'
  <2>1. CASE UNCHANGED <<ready, result>>
    BY ZenonT(60), <2>1 DEF AnswersQueued
  <2>. QED BY ZenonT(60), <1>1, <2>1, RequestReplies, ReplyStep
<1>2. CASE ~\E f \in Fibers : Request(f)
  <2>1. /\ result' = result
        /\ ready' = ready \/ \E e \in Fibers : ready' = Append(ready, e)
    BY ZenonT(60), <1>2, OtherSteps DEF Inv, records
  <2>2. Range(ready) \subseteq Range(ready')
    <3>1. ready \in Seq(Fibers)
      BY DEF Inv, TypeOK
    <3>2. ASSUME NEW e \in Fibers PROVE Range(ready) \subseteq Range(Append(ready, e))
      BY SMTT(30), <3>1 DEF Range
    <3>. QED BY ZenonT(60), <2>1, <3>2
  <2>. QED BY ZenonT(60), <2>1, <2>2 DEF AnswersQueued
<1>. QED BY ZenonT(60), <1>1, <1>2

\* An exited record keeps its status until it is claimed.
LEMMA RequestHolds ==
  ASSUME Inv, AnswersQueued, NEW f \in Fibers, Request(f), NEW t \in Fibers
  PROVE  HeldUntilClaimed(t)
<1>. SUFFICES ASSUME life[t] = "EXITED", ~(life'[t] = "EXITED" /\ status'[t] = status[t])
              PROVE  /\ ~Mapped(t)'
                     /\ \E g \in Fibers \ {t} : /\ Resumes(g) /\ g \in Range(ready')
                                               /\ result'[g] \in {status[t], Null}
  BY DEF HeldUntilClaimed
<1>1. TypeOK /\ Resumes(f) /\ Alive(f)
  <2>1. Resumes(f)
    BY ZenonT(60) DEF Request, Yield, ExitDetached, ExitUnclaimed, ExitJoined, Spawn, SpawnFails,
         JoinExited, JoinWaits, DetachExited, DetachLive, Await, AwaitFlushes, ProcessExit,
         HandleRefused, AwaitRefused, DestroyFails
  <2>. QED BY ZenonT(60), <2>1, ResumedFiber DEF Inv
<1>2. f # t
  BY <1>1 DEF Alive
<1>3. ~UNCHANGED <<life, status>>
  OBVIOUS
<1>4. CASE \E u \in Fibers : JoinExited(f, u) \/ DetachExited(f, u)
  <2>1. PICK u \in Fibers : JoinExited(f, u) \/ DetachExited(f, u)
    BY <1>4
  <2>2. /\ Destroy(u) /\ ready' = Tail(ready) \o <<f>>
        /\ Answer(f, f, status[u]) \/ Answer(f, f, Null)
    BY ZenonT(60), <2>1 DEF JoinExited, DetachExited, Turn
  <2>3. u = t
    BY SMTT(30), <1>1, <2>2 DEF Destroy, TypeOK
  <2>4. ~Mapped(t)'
    BY SMTT(30), <1>1, <2>2, <2>3 DEF Destroy, Mapped, TypeOK
  <2>5. result'[f] \in {status[t], Null}
    BY SMTT(30), <1>1, <2>2, <2>3 DEF Answer, TypeOK
  <2>6. f \in Range(ready')
    <3>1. <<f>> \in Seq(Fibers) /\ Range(<<f>>) = {f}
      BY ZenonT(60), Woken
    <3>2. Tail(ready) \in Seq(Fibers)
      BY SMTT(30), <1>1, DistinctTail DEF TypeOK, Resumes
    <3>3. Range(Tail(ready) \o <<f>>) = Range(Tail(ready)) \cup Range(<<f>>)
      BY ZenonT(60), <3>1, <3>2, DistinctConcat
    <3>. QED BY ZenonT(60), <2>2, <3>1, <3>3
  <2>. QED BY ZenonT(60), <1>1, <1>2, <2>4, <2>5, <2>6
<1>5. CASE \E s \in Status : ExitUnclaimed(f, s)
  BY SMTT(30), <1>1, <1>2, <1>5 DEF ExitUnclaimed, TypeOK
<1>6. CASE ExitDetached(f) \/ \E s \in Status : ExitJoined(f, s)
  <2>1. Destroy(f)
    BY ZenonT(60), <1>6 DEF ExitDetached, ExitJoined
  <2>. QED BY SMTT(30), <1>1, <1>2, <2>1 DEF Destroy, TypeOK
<1>7. CASE \E u \in Fibers : Spawn(f, u) \/ DetachLive(f, u)
  <2>1. PICK u \in Fibers : Spawn(f, u) \/ DetachLive(f, u)
    BY <1>7
  <2>2. u # t /\ status' = status
        /\ \/ life' = [life EXCEPT ![u] = "LIVE"] \/ life' = [life EXCEPT ![u] = "DETACHED"]
    BY ZenonT(60), <2>1 DEF Spawn, DetachLive, Mapped
  <2>. QED BY SMTT(30), <1>1, <2>2 DEF TypeOK
<1>8. CASE UNCHANGED <<life, status>>
  BY <1>3, <1>8
<1>. QED BY ZenonT(60), <1>4, <1>5, <1>6, <1>7, <1>8
     DEF Request, Yield, SpawnFails, JoinWaits, Await, AwaitFlushes, ProcessExit,
         HandleRefused, AwaitRefused, DestroyFails, Trap, records

\* A record that nobody detached goes only with a joiner to answer and to queue.
LEMMA RequestHands ==
  ASSUME Inv, AnswersQueued, NEW f \in Fibers, Request(f), NEW t \in Fibers
  PROVE  HandedToJoiner(t)
<1>. SUFFICES ASSUME life[t] = "LIVE", ~Mapped(t)'
              PROVE  /\ joiner[t] \in Fibers
                     /\ result'[joiner[t]] \in Status
                     /\ joiner[t] \in Range(ready')
  BY DEF HandedToJoiner
<1>1. life' # life
  BY DEF Mapped
<1>2. \E s \in Status : ExitJoined(f, s) /\ f = t
  BY ZenonT(60), <1>1 DEF Request, Yield, ExitDetached, ExitUnclaimed, ExitJoined, Spawn,
       SpawnFails, JoinExited, JoinWaits, DetachExited, DetachLive, Await,
       AwaitFlushes, ProcessExit, HandleRefused, AwaitRefused, DestroyFails, Trap,
       Destroy, Mapped, records, Inv, TypeOK
<1>3. PICK s \in Status : ExitJoined(t, s)
  BY SMTT(60), <1>2
<1>4. joiner[t] \in Fibers /\ result'[joiner[t]] = s
  BY SMTT(60), <1>3 DEF ExitJoined, Answer, Inv, TypeOK
<1>5. AnswersQueued'
  <2>1. Inv /\ AnswersQueued /\ [Next]_vars
    BY DEF Next, Reactor
  <2>. QED BY <2>1, AnswersQueuedNext
<1>6. s # Null
  BY NullAssumption
<1>. QED BY ZenonT(60), <1>4, <1>5, <1>6 DEF AnswersQueued

\* The status of an exited fiber that nobody detached reaches its joiner: it
\* stays in the record until a join or a detach claims it, a record that goes
\* with the exit has a joiner to answer, and the answer stays in the joiner's
\* request until the joiner is resumed.
THEOREM StatusIsDelivered == Spec => StatusNotLost
<1>. DEFINE Kept == \A t \in Fibers :
                      /\ HeldUntilClaimed(t) /\ HandedToJoiner(t)
                      /\ result[t] # Null /\ result'[t] # result[t] => Resumes(t)
<1>1. Init => AnswersQueued
  BY SMTT(30) DEF Init, AnswersQueued
<1>2. Inv /\ AnswersQueued /\ [Next]_vars => [Kept]_vars
  <2>. SUFFICES ASSUME Inv, AnswersQueued, [Next]_vars PROVE Kept
    OBVIOUS
  <2>1. ASSUME NEW f \in Fibers, Request(f) PROVE Kept
    <3>1. \A t \in Fibers : HeldUntilClaimed(t) /\ HandedToJoiner(t)
      BY ZenonT(60), <2>1, RequestHolds, RequestHands
    <3>2. ASSUME NEW t \in Fibers, result[t] # Null, result'[t] # result[t] PROVE Resumes(t)
      <4>1. PICK g \in Fibers, r \in Fibers \cup Status \cup {Null} :
              \E woken \in Seq(Fibers) : Replies(f, g, r, woken)
        BY ZenonT(60), <2>1, <3>2, RequestReplies
      <4>2. PICK woken \in Seq(Fibers) : Replies(f, g, r, woken)
        BY ZenonT(60), <4>1
      <4>3. t = f
        BY ZenonT(60), <3>2, <4>2, ReplyStep
      <4>. QED BY ZenonT(60), <4>2, <4>3 DEF Replies
    <3>. QED BY ZenonT(60), <3>1, <3>2
  <2>2. CASE ~\E f \in Fibers : Request(f)
    <3>1. UNCHANGED records
      BY ZenonT(60), <2>2, OtherSteps DEF Inv
    <3>. QED BY ZenonT(60), <3>1 DEF records, HeldUntilClaimed, HandedToJoiner, Mapped
  <2>. QED BY ZenonT(60), <2>1, <2>2
<1>. QED BY <1>1, <1>2, AnswersQueuedNext, InvAlways, PTL DEF Spec, StatusNotLost

-----------------------------------------------------------------------------
(* The C11 threads.                                                        *)

\* What a fiber's record and place say of its thread.
LEMMA StageIs ==
  ASSUME Inv, NEW g \in Fibers
  PROVE  /\ life[g] = "UNMAPPED" => Stage(g) = "none"
         /\ life[g] = "EXITED" => Stage(g) = "ended"
         /\ g \in Range(ready) => Alive(g) /\ Stage(g) = "runs"
         /\ g \in Joining => Alive(g) /\ Stage(g) = "joins"
         /\ Alive(g) /\ g \notin Range(ready) \cup Joining => Stage(g) = "waits"
<1>1. /\ g \in Range(ready) => Alive(g)
      /\ g \in Joining => Alive(g) /\ g \notin Range(ready)
  BY SMTT(30) DEF Inv, Placed, Apart
<1>. QED BY SMTT(30), <1>1 DEF Stage, Alive

\* The same after a step.
LEMMA StageIsNext ==
  ASSUME Inv', NEW g \in Fibers
  PROVE  /\ life'[g] = "UNMAPPED" => Stage(g)' = "none"
         /\ life'[g] = "EXITED" => Stage(g)' = "ended"
         /\ g \in Range(ready') => Alive(g)' /\ Stage(g)' = "runs"
         /\ g \in Joining' => Alive(g)' /\ Stage(g)' = "joins"
         /\ Alive(g)' /\ g \notin Range(ready') \cup Joining' => Stage(g)' = "waits"
<1>1. /\ g \in Range(ready') => Alive(g)'
      /\ g \in Joining' => Alive(g)' /\ g \notin Range(ready')
  BY SMTT(30) DEF Inv, Placed, Apart
<1>. QED BY SMTT(30), <1>1 DEF Stage, Alive

\* A thread whose fiber stays where it is does what it did.
LEMMA StageKept ==
  ASSUME NEW g \in Fibers, life'[g] = life[g],
         g \in Range(ready') <=> g \in Range(ready),
         g \in Joining' <=> g \in Joining
  PROVE  Stage(g)' = Stage(g)
BY SMTT(30) DEF Stage, Alive

\* A turn: the resumed fiber's thread was running, those the handler woke run,
\* and the others keep their stage if their records do.
LEMMA TurnStages ==
  ASSUME Inv, Inv', NEW f \in Fibers, Resumes(f), NEW woken \in Seq(Fibers),
         Turn(f, woken)
  PROVE  /\ Stage(f) = "runs" /\ Alive(f) /\ f \in Range(ready)
         /\ Range(ready') = (Range(ready) \ {f}) \cup Range(woken)
         /\ \A g \in Fibers : g \in Range(woken) => Stage(g)' = "runs"
         /\ \A g \in Fibers :
              g # f /\ g \notin Range(woken) /\ life'[g] = life[g]
              /\ (g \in Joining' <=> g \in Joining) => Stage(g)' = Stage(g)
<1>1. /\ ready \in Seq(Fibers) /\ ready # <<>> /\ f = Head(ready)
      /\ IsInjective(ready) /\ ready' = Tail(ready) \o woken
  BY SMTT(30) DEF Inv, Resumes, TypeOK, NoneTwice, Turn
<1>2. /\ Tail(ready) \in Seq(Fibers) /\ f \in Range(ready)
      /\ Range(Tail(ready)) = Range(ready) \ {f}
  BY SMTT(30), <1>1, DistinctTail
<1>3. Range(ready') = Range(Tail(ready)) \cup Range(woken)
  BY ZenonT(60), <1>1, <1>2, DistinctConcat
<1>4. \A g \in Fibers : g \in Range(woken) => Stage(g)' = "runs"
  BY SMTT(30), <1>3, StageIsNext
<1>5. ASSUME NEW g \in Fibers, g # f, g \notin Range(woken), life'[g] = life[g],
             g \in Joining' <=> g \in Joining
      PROVE  Stage(g)' = Stage(g)
  BY SMTT(30), <1>2, <1>3, <1>5, StageKept
<1>. QED BY SMTT(30), <1>2, <1>3, <1>4, <1>5, StageIs

\* The same joiner slots hold the same joiners.
LEMMA SameJoining ==
  ASSUME joiner' = joiner
  PROVE  Joining' = Joining
BY SMTT(30) DEF Joining

\* A step that moves no fiber and changes no record is no thread's.
LEMMA StandingThreads ==
  ASSUME UNCHANGED <<ready, records>>
  PROVE  UNCHANGED T!threadVars
<1>1. \A g \in Fibers : Stage(g)' = Stage(g)
  BY SMTT(30), SameJoining, StageKept DEF records
<1>. QED BY SMTT(30), <1>1 DEF T!threadVars, records

-----------------------------------------------------------------------------
\* YIELD, and a SPAWN that fails.
LEMMA YieldIsYield ==
  ASSUME Inv, Inv', NEW f \in Fibers, Yield(f) \/ SpawnFails(f)
  PROVE  T!ThrdYield(f)
<1>1. /\ Resumes(f) /\ Turn(f, <<f>>) /\ Answer(f, f, Null)
      /\ UNCHANGED <<life, joiner, status>>
  BY SMTT(30) DEF Yield, SpawnFails
<1>2. <<f>> \in Seq(Fibers) /\ Range(<<f>>) = {f}
  BY SMTT(30), Woken
<1>3. Stage(f) = "runs" /\ \A g \in Fibers : Stage(g)' = Stage(g)
  BY ZenonT(60), <1>1, <1>2, TurnStages, SameJoining
<1>. QED BY SMTT(30), <1>1, <1>3 DEF T!ThrdYield, T!Runs, T!Returns, Answer

\* SPAWN: the child and its spawner run.
LEMMA SpawnIsCreate ==
  ASSUME Inv, Inv', NEW f \in Fibers, NEW child \in Fibers, Spawn(f, child)
  PROVE  T!ThrdCreate(f, child)
<1>1. /\ Resumes(f) /\ Turn(f, <<f, child>>) /\ Answer(f, f, child)
      /\ child # Root /\ life[child] = "UNMAPPED"
      /\ life' = [life EXCEPT ![child] = "LIVE"] /\ UNCHANGED <<joiner, status>>
  BY SMTT(30) DEF Spawn, Mapped
<1>2. f # child
  BY ZenonT(60), <1>1, ResumedFiber DEF Alive
<1>3. <<f, child>> \in Seq(Fibers) /\ Range(<<f, child>>) = {f, child}
  BY SMTT(60), <1>2, Woken
<1>4. \A g \in Fibers : g # child => life'[g] = life[g]
  BY ZenonT(60), <1>1 DEF Inv, TypeOK
<1>5. /\ Stage(f) = "runs" /\ Stage(f)' = "runs"
      /\ Stage(child) = "none" /\ Stage(child)' = "runs"
      /\ \A g \in Fibers : g # child => Stage(g)' = Stage(g)
  BY ZenonT(60), <1>1, <1>3, <1>4, TurnStages, SameJoining, StageIs
<1>6. {g \in Fibers : life'[g] = "DETACHED"} = {g \in Fibers : life[g] = "DETACHED"}
  BY ZenonT(60), <1>1 DEF Inv, TypeOK
<1>. QED BY ZenonT(60), <1>1, <1>5, <1>6 DEF T!ThrdCreate, T!Runs, T!Returns, Answer

\* AWAIT: the resumed fiber stands in the ring, or in park() until the batch is
\* flushed.
LEMMA AwaitIsBlocks ==
  ASSUME Inv, Inv', NEW f \in Fibers, Await(f) \/ AwaitFlushes(f)
  PROVE  T!Blocks(f)
<1>1. /\ Resumes(f) /\ ready' = Tail(ready) /\ Answer(f, f, Null)
      /\ UNCHANGED <<life, joiner, status>>
  <2>1. CASE Await(f)
    <3>1. Tail(ready) \in Seq(Fibers)
      BY ZenonT(60), <2>1, DistinctTail DEF Await, Resumes, Inv, TypeOK
    <3>. QED BY SMTT(30), <2>1, <3>1 DEF Await, Turn
  <2>. QED BY SMTT(30), <2>1 DEF AwaitFlushes
<1>2. f \in Range(ready) /\ Range(ready') = Range(ready) \ {f}
  BY ZenonT(60), <1>1, DistinctTail DEF Resumes, Inv, TypeOK, NoneTwice
<1>3. Joining' = Joining /\ f \notin Joining /\ Alive(f) /\ Alive(f)'
  BY ZenonT(60), <1>1, SameJoining, ResumedFiber DEF Alive
<1>4. Stage(f) = "runs" /\ Stage(f)' = "waits"
  BY ZenonT(60), <1>2, <1>3, StageIs, StageIsNext
<1>5. \A g \in Fibers : g # f => Stage(g)' = Stage(g)
  BY SMTT(30), <1>1, <1>2, <1>3, StageKept
<1>. QED BY ZenonT(60), <1>1, <1>4, <1>5 DEF T!Blocks, T!Runs, T!Returns, Answer

\* JOIN or DETACH of an exited target.
LEMMA ReclaimIsTaken ==
  ASSUME Inv, Inv', NEW f \in Fibers, NEW t \in Fibers
  PROVE  /\ JoinExited(f, t) => T!ThrdJoinEnded(f, t)
         /\ DetachExited(f, t) => T!ThrdDetach(f, t)
<1>. SUFFICES ASSUME JoinExited(f, t) \/ DetachExited(f, t)
              PROVE  /\ JoinExited(f, t) => T!ThrdJoinEnded(f, t)
                     /\ DetachExited(f, t) => T!ThrdDetach(f, t)
  BY SMTT(30)
<1>1. /\ Resumes(f) /\ Turn(f, <<f>>) /\ Destroy(t)
      /\ life[t] = "EXITED" /\ joiner[t] = Null
  BY SMTT(30) DEF JoinExited, DetachExited, JoinRefused, DetachRefused
<1>2. /\ life' = [life EXCEPT ![t] = "UNMAPPED"] /\ joiner' = joiner
      /\ status' = [status EXCEPT ![t] = Null]
  BY ZenonT(60), <1>1 DEF Destroy, Inv, TypeOK
<1>3. <<f>> \in Seq(Fibers) /\ Range(<<f>>) = {f}
  BY SMTT(30), Woken
<1>4. \A g \in Fibers : g # t => life'[g] = life[g]
  BY ZenonT(60), <1>2 DEF Inv, TypeOK
<1>5. life'[t] = "UNMAPPED"
  BY ZenonT(60), <1>2 DEF Inv, TypeOK
<1>6. /\ Stage(f) = "runs" /\ Stage(t) = "ended" /\ Stage(t)' = "none"
      /\ \A g \in Fibers : g # t => Stage(g)' = Stage(g)
  <2>1. /\ Stage(f) = "runs" /\ f \in Range(ready) /\ Alive(f)
        /\ Range(ready') = (Range(ready) \ {f}) \cup Range(<<f>>)
    BY ZenonT(60), <1>1, <1>3, TurnStages
  <2>2. Stage(t) = "ended" /\ Stage(t)' = "none"
    BY ZenonT(60), <1>1, <1>5, StageIs, StageIsNext
  <2>3. ASSUME NEW g \in Fibers, g # t PROVE Stage(g)' = Stage(g)
    BY ZenonT(60), <1>2, <1>3, <1>4, <2>1, <2>3, SameJoining, StageKept
  <2>. QED BY SMTT(30), <2>1, <2>2, <2>3
<1>7. {g \in Fibers : life'[g] = "DETACHED"} = {g \in Fibers : life[g] = "DETACHED"}
  BY ZenonT(60), <1>1, <1>2 DEF Inv, TypeOK
<1>8. ASSUME JoinExited(f, t) PROVE T!ThrdJoinEnded(f, t)
  <2>1. Answer(f, f, status[t])
    BY ZenonT(60), <1>8 DEF JoinExited
  <2>. QED BY ZenonT(60), <1>2, <1>6, <1>7, <2>1
           DEF T!ThrdJoinEnded, T!Runs, T!Gone, T!Returns, Answer
<1>9. ASSUME DetachExited(f, t) PROVE T!ThrdDetach(f, t)
  <2>1. Answer(f, f, Null)
    BY SMTT(30), <1>9 DEF DetachExited
  <2>. QED BY ZenonT(60), <1>1, <1>2, <1>6, <1>7, <2>1
           DEF T!ThrdDetach, T!Runs, T!Gone, T!Returns, Answer
<1>. QED BY SMTT(30), <1>8, <1>9

\* A fiber whose record is there and not exited is a thread under way.
LEMMA AliveStage ==
  ASSUME NEW g \in Fibers, Alive(g)
  PROVE  Stage(g) \in {"runs", "waits", "joins"}
BY SMTT(30) DEF Alive, Stage

\* DETACH of a running target.
LEMMA DetachLiveIsDetach ==
  ASSUME Inv, Inv', NEW f \in Fibers, NEW t \in Fibers, DetachLive(f, t)
  PROVE  T!ThrdDetach(f, t)
<1>1. /\ Resumes(f) /\ Turn(f, <<f>>) /\ Answer(f, f, Null)
      /\ life[t] = "LIVE" /\ joiner[t] = Null
      /\ life' = [life EXCEPT ![t] = "DETACHED"] /\ UNCHANGED <<joiner, status>>
  BY SMTT(30) DEF DetachLive, DetachRefused
<1>2. <<f>> \in Seq(Fibers) /\ Range(<<f>>) = {f}
  BY SMTT(30), Woken
<1>3. Stage(f) = "runs" /\ f \in Range(ready) /\ Range(ready') = Range(ready)
  <2>1. /\ Stage(f) = "runs" /\ f \in Range(ready)
        /\ Range(ready') = (Range(ready) \ {f}) \cup Range(<<f>>)
    BY ZenonT(60), <1>1, <1>2, TurnStages
  <2>. QED BY SMTT(30), <1>2, <2>1
<1>4. life'[t] = "DETACHED" /\ \A g \in Fibers : g # t => life'[g] = life[g]
  BY SMTT(30), <1>1 DEF Inv, TypeOK
<1>5. \A g \in Fibers : Stage(g)' = Stage(g)
  BY SMTT(30), <1>1, <1>3, <1>4, SameJoining DEF Stage
<1>6. Stage(t) \in {"runs", "waits", "joins"}
  BY SMTT(30), <1>1, AliveStage DEF Alive
<1>7. {g \in Fibers : life'[g] = "DETACHED"}
        = {g \in Fibers : life[g] = "DETACHED"} \cup {t}
  BY SMTT(30), <1>4
<1>. QED BY SMTT(30), <1>1, <1>3, <1>5, <1>6, <1>7
         DEF T!ThrdDetach, T!Runs, T!Returns, Answer

\* JOIN of a running target: the resumed fiber waits behind it.
LEMMA JoinWaitsIsJoin ==
  ASSUME Inv, Inv', NEW f \in Fibers, NEW t \in Fibers, JoinWaits(f, t)
  PROVE  T!ThrdJoinWaits(f, t)
<1>1. /\ Resumes(f) /\ Turn(f, <<>>) /\ Answer(f, f, Null)
      /\ t # f /\ joiner[t] = Null /\ life[t] = "LIVE"
      /\ joiner' = [joiner EXCEPT ![t] = f] /\ UNCHANGED <<life, status>>
  BY SMTT(30) DEF JoinWaits, JoinRefused
<1>2. <<>> \in Seq(Fibers) /\ Range(<<>>) = {}
  BY SMTT(60), Woken
<1>3. Joining' = Joining \cup {f}
  <2>1. /\ joiner \in [Fibers -> Fibers \cup {Null}]
        /\ joiner' \in [Fibers -> Fibers \cup {Null}]
        /\ joiner'[t] = f /\ \A u \in Fibers \ {t} : joiner'[u] = joiner[u]
        /\ joiner[t] = Null /\ f # Null
    BY ZenonT(60), <1>1, NullAssumption DEF Inv, TypeOK
  <2>. QED BY SMTT(30), <2>1 DEF Joining, Range
<1>4. Stage(f) = "runs" /\ Stage(f)' = "joins"
  BY ZenonT(60), <1>1, <1>2, <1>3, TurnStages, StageIsNext
<1>5. \A g \in Fibers : g # f => Stage(g)' = Stage(g)
  BY ZenonT(60), <1>1, <1>2, <1>3, TurnStages
<1>6. Stage(t) \in {"runs", "waits", "joins"}
  BY SMTT(30), <1>1, AliveStage DEF Alive
<1>. QED BY ZenonT(60), <1>1, <1>4, <1>5, <1>6
         DEF T!ThrdJoinWaits, T!Runs, T!Returns, Answer

\* Only the record of an exited fiber holds a status.
StatusHeld == \A f \in Fibers : life[f] # "EXITED" => status[f] = Null

\* Every step keeps it so: EXIT of an unclaimed fiber writes the status with the
\* mark, and the record is cleared with its mapping.
LEMMA StatusHeldNext == TypeOK /\ StatusHeld /\ [Next]_vars => StatusHeld'
<1>. SUFFICES ASSUME TypeOK, StatusHeld, [Next]_vars PROVE StatusHeld'
  BY SMTT(30)
<1>1. CASE UNCHANGED <<life, status>>
  BY SMTT(30), <1>1 DEF StatusHeld
<1>2. CASE \E f \in Fibers, s \in Status : ExitUnclaimed(f, s)
  BY SMTT(30), <1>2 DEF StatusHeld, TypeOK, ExitUnclaimed
<1>3. CASE \E t \in Fibers : Destroy(t)
  BY SMTT(30), <1>3 DEF StatusHeld, TypeOK, Destroy
<1>4. CASE \E f, t \in Fibers : Spawn(f, t) \/ DetachLive(f, t)
  BY ZenonT(60), <1>4 DEF StatusHeld, TypeOK, Spawn, DetachLive, Mapped
<1>5. \/ UNCHANGED <<life, status>>
      \/ \E f \in Fibers : Request(f)
  BY ZenonT(60) DEF Next, Reactor, StartGeneration, EndGeneration, EnterShort, EnterAll,
       EnterInterrupted, EnterFails, WaitReturns, ParkAppends, ReapOne, ReapEnds, ReapRefused,
       Drain, KernelFinishes, Over, Trap, records, vars
<1>6. ASSUME NEW f \in Fibers, Request(f)
      PROVE  \/ UNCHANGED <<life, status>>
             \/ \E s \in Status : ExitUnclaimed(f, s)
             \/ \E t \in Fibers : Destroy(t)
             \/ \E t \in Fibers : Spawn(f, t) \/ DetachLive(f, t)
  BY ZenonT(60), <1>6 DEF Request, Yield, ExitDetached, ExitJoined, SpawnFails,
       JoinExited, JoinWaits, DetachExited, Await, AwaitFlushes, ProcessExit,
       HandleRefused, AwaitRefused, DestroyFails, Trap, records
<1>. QED BY SMTT(30), <1>1, <1>2, <1>3, <1>4, <1>5, <1>6

\* EXIT, by what became of the thread before it.
LEMMA ExitIsExit ==
  ASSUME Inv, Inv', StatusHeld, NEW f \in Fibers, NEW s \in Status,
         ExitDetached(f) \/ ExitUnclaimed(f, s) \/ ExitJoined(f, s)
  PROVE  T!ThrdExit(f, s)
<1>0. <<>> \in Seq(Fibers) /\ Range(<<>>) = {}
  BY SMTT(60), Woken
<1>1. CASE ExitDetached(f)
  <2>1. /\ Resumes(f) /\ Turn(f, <<>>) /\ Answer(f, f, Null)
        /\ life[f] = "DETACHED" /\ joiner[f] = Null
        /\ life' = [life EXCEPT ![f] = "UNMAPPED"]
        /\ joiner' = joiner /\ status' = [status EXCEPT ![f] = Null]
    BY ZenonT(60), <1>1 DEF ExitDetached, Destroy, Inv, JoinedStaysJoinable, TypeOK
  <2>2. life'[f] = "UNMAPPED" /\ \A g \in Fibers : g # f => life'[g] = life[g]
    BY ZenonT(60), <2>1 DEF Inv, TypeOK
  <2>3. Stage(f) = "runs" /\ Stage(f)' = "none"
    BY ZenonT(60), <1>0, <2>1, <2>2, TurnStages, StageIsNext
  <2>4. \A g \in Fibers : g # f => Stage(g)' = Stage(g)
    BY ZenonT(60), <1>0, <2>1, <2>2, TurnStages, SameJoining
  <2>5. {g \in Fibers : life'[g] = "DETACHED"}
          = {g \in Fibers : life[g] = "DETACHED"} \ {f}
    BY SMTT(30), <2>2
  <2>6. status' = status
    BY ZenonT(60), <2>1 DEF StatusHeld, Inv, TypeOK
  <2>. QED BY ZenonT(60), <2>1, <2>3, <2>4, <2>5, <2>6
           DEF T!ThrdExit, T!Runs, T!Gone, T!Returns, Answer
<1>2. CASE ExitUnclaimed(f, s)
  <2>1. /\ Resumes(f) /\ Turn(f, <<>>) /\ Answer(f, f, Null)
        /\ life[f] = "LIVE" /\ joiner[f] = Null
        /\ life' = [life EXCEPT ![f] = "EXITED"]
        /\ joiner' = joiner /\ status' = [status EXCEPT ![f] = s]
    BY SMTT(30), <1>2 DEF ExitUnclaimed
  <2>2. life'[f] = "EXITED" /\ \A g \in Fibers : g # f => life'[g] = life[g]
    BY ZenonT(60), <2>1 DEF Inv, TypeOK
  <2>3. Stage(f) = "runs" /\ Stage(f)' = "ended"
    BY ZenonT(60), <1>0, <2>1, <2>2, TurnStages, StageIsNext
  <2>4. \A g \in Fibers : g # f => Stage(g)' = Stage(g)
    BY ZenonT(60), <1>0, <2>1, <2>2, TurnStages, SameJoining
  <2>5. {g \in Fibers : life'[g] = "DETACHED"} = {g \in Fibers : life[g] = "DETACHED"}
    BY SMTT(30), <2>1, <2>2
  <2>. QED BY ZenonT(60), <2>1, <2>3, <2>4, <2>5
           DEF T!ThrdExit, T!Runs, T!Returns, Answer
<1>3. CASE ExitJoined(f, s)
  <2>0. PICK j \in Fibers : j = joiner[f] /\ j # Null
    BY ZenonT(60), <1>3 DEF ExitJoined, Inv, TypeOK
  <2>1. /\ Resumes(f) /\ Turn(f, <<j>>) /\ Answer(f, j, s) /\ life[f] = "LIVE"
        /\ life' = [life EXCEPT ![f] = "UNMAPPED"]
        /\ joiner' = [joiner EXCEPT ![f] = Null]
        /\ status' = [status EXCEPT ![f] = Null]
    BY SMTT(30), <1>3, <2>0 DEF ExitJoined, Destroy
  <2>2. j # f
    BY ZenonT(60), <2>0 DEF Inv, JoinedStaysJoinable
  <2>3. Joining' = Joining \ {j}
    <3>1. /\ joiner \in [Fibers -> Fibers \cup {Null}]
          /\ joiner' \in [Fibers -> Fibers \cup {Null}]
          /\ joiner'[f] = Null /\ \A t \in Fibers \ {f} : joiner'[t] = joiner[t]
      BY ZenonT(60), <2>1 DEF Inv, TypeOK
    <3>2. \A t \in Fibers \ {f} : joiner[t] # j
      BY ZenonT(60), <2>0 DEF Inv, NoneTwice
    <3>. QED BY SMTT(30), <2>0, <3>1, <3>2 DEF Joining, Range
  <2>4. life'[f] = "UNMAPPED" /\ \A g \in Fibers : g # f => life'[g] = life[g]
    BY ZenonT(60), <2>1 DEF Inv, TypeOK
  <2>5. <<j>> \in Seq(Fibers) /\ Range(<<j>>) = {j}
    BY SMTT(30), Woken
  <2>6. status' = status
    BY ZenonT(60), <2>1 DEF StatusHeld, Inv, TypeOK
  <2>7. {g \in Fibers : life'[g] = "DETACHED"} = {g \in Fibers : life[g] = "DETACHED"}
    BY SMTT(30), <2>1, <2>4
  <2>8. Stage(f) = "runs" /\ Stage(f)' = "none" /\ Stage(j)' = "runs"
    <3>1. Stage(f) = "runs" /\ \A g \in Fibers : g \in Range(<<j>>) => Stage(g)' = "runs"
      BY ZenonT(60), <2>1, <2>5, TurnStages
    <3>2. Stage(f)' = "none"
      BY ZenonT(60), <2>4, StageIsNext
    <3>. QED BY SMTT(30), <2>5, <3>1, <3>2
  <2>9. \A g \in Fibers : g # f /\ g # j => Stage(g)' = Stage(g)
    BY ZenonT(60), <2>1, <2>3, <2>4, <2>5, TurnStages
  <2>10. [g \in Fibers |-> Stage(g)']
           = [[g \in Fibers |-> Stage(g)] EXCEPT ![f] = "none", ![j] = "runs"]
    BY ZenonT(60), <2>2, <2>8, <2>9
  <2>. QED BY ZenonT(60), <2>0, <2>1, <2>6, <2>7, <2>8, <2>10
           DEF T!ThrdExit, T!Runs, T!Gone, T!Returns, Answer
<1>. QED BY SMTT(30), <1>1, <1>2, <1>3

\* A reaped completion: its fiber runs again.
LEMMA ReapIsUnblocks ==
  ASSUME Inv, Inv', ReapOne
  PROVE  \E f \in Fibers : T!Unblocks(f)
<1>1. cq \in Seq(Fibers) /\ cq # <<>>
  BY ZenonT(60) DEF ReapOne, Io!Reap, Inv, TypeOK
<1>2. PICK e \in Fibers : e = Head(cq) /\ e \in Range(cq)
  BY SMTT(30), <1>1, DistinctTail, RangeOfSeq
<1>3. /\ ready \in Seq(Fibers) /\ ready' = Append(ready, e)
      /\ UNCHANGED <<life, joiner, status, result>>
  BY ZenonT(60), <1>2 DEF ReapOne, records, Inv, TypeOK
<1>4. e \notin Range(ready) \cup Joining /\ Alive(e)
  BY ZenonT(60), <1>2 DEF Inv, Placed, Apart
<1>5. Range(ready') = Range(ready) \cup {e}
  BY SMTT(30), <1>3, <1>2, DistinctAppend
<1>6. Stage(e) = "waits" /\ Stage(e)' = "runs"
  <2>1. Stage(e) = "waits"
    BY SMTT(30), <1>2, <1>4, StageIs
  <2>2. Stage(e)' = "runs"
    BY SMTT(30), <1>2, <1>5, StageIsNext
  <2>. QED BY SMTT(30), <2>1, <2>2
<1>7. \A g \in Fibers : g # e => Stage(g)' = Stage(g)
  BY SMTT(30), <1>3, <1>5, SameJoining, StageKept
<1>8. T!Unblocks(e)
  <2>1. [g \in Fibers |-> Stage(g)']
          = [[g \in Fibers |-> Stage(g)] EXCEPT ![e] = "runs"]
    BY ZenonT(60), <1>2, <1>6, <1>7
  <2>. QED BY SMTT(30), <1>3, <1>2, <1>6, <2>1 DEF T!Unblocks
<1>. QED BY SMTT(30), <1>2, <1>8

-----------------------------------------------------------------------------
\* Every request is the call it stands for, or changes no thread.
LEMMA RequestIsCall ==
  ASSUME Inv, Inv', StatusHeld, NEW f \in Fibers, Request(f)
  PROVE  T!ThreadNext \/ UNCHANGED T!threadVars
<1>1. CASE Yield(f) \/ SpawnFails(f)
  BY SMTT(30), <1>1, YieldIsYield DEF T!ThreadNext
<1>2. CASE ExitDetached(f)
  <2>1. PICK s \in Status : TRUE
    BY ZenonT(60), StatusAssumption
  <2>. QED BY SMTT(30), <1>2, <2>1, ExitIsExit DEF T!ThreadNext
<1>3. CASE \E s \in Status : ExitUnclaimed(f, s) \/ ExitJoined(f, s)
  BY SMTT(30), <1>3, ExitIsExit DEF T!ThreadNext
<1>4. CASE \E child \in Fibers : Spawn(f, child)
  BY SMTT(30), <1>4, SpawnIsCreate DEF T!ThreadNext
<1>5. CASE \E t \in Fibers : JoinExited(f, t) \/ DetachExited(f, t)
  BY SMTT(30), <1>5, ReclaimIsTaken DEF T!ThreadNext
<1>6. CASE \E t \in Fibers : JoinWaits(f, t)
  BY SMTT(30), <1>6, JoinWaitsIsJoin DEF T!ThreadNext
<1>7. CASE \E t \in Fibers : DetachLive(f, t)
  BY SMTT(30), <1>7, DetachLiveIsDetach DEF T!ThreadNext
<1>8. CASE Await(f) \/ AwaitFlushes(f)
  BY SMTT(30), <1>8, AwaitIsBlocks DEF T!ThreadNext
<1>9. CASE Trap \/ \E s \in Status : ProcessExit(f, s)
  BY SMTT(30), <1>9, StandingThreads DEF Trap, ProcessExit
<1>. QED BY ZenonT(60), <1>1, <1>2, <1>3, <1>4, <1>5, <1>6, <1>7, <1>8, <1>9
         DEF Request, HandleRefused, AwaitRefused, DestroyFails

\* Scheduler implements Threads: the run queue, generations, counters and ring
\* of run() are hidden, and every thread sees only its own calls and those
\* that name it (thrd.c over scheduler.c).
THEOREM ReactorImplementsThreads == Spec => ImplementsThreads
<1>1. Init => T!ThreadInit /\ StatusHeld
  <2>. SUFFICES ASSUME Init PROVE T!ThreadInit /\ StatusHeld
    BY SMTT(30)
  <2>1. Range(ready) = {Root}
    BY SMTT(30), FiberAssumption, Woken DEF Init
  <2>2. \A f \in Fibers : Stage(f) = IF f = Root THEN "runs" ELSE "none"
    BY SMTT(30), <2>1 DEF Init, Stage
  <2>3. {f \in Fibers : life[f] = "DETACHED"} = {}
    BY SMTT(30) DEF Init
  <2>. QED BY SMTT(30), <2>2, <2>3 DEF T!ThreadInit, StatusHeld, Init
<1>2. Inv /\ Inv' /\ StatusHeld /\ [Next]_vars => [T!ThreadNext]_(T!threadVars)
  <2>. SUFFICES ASSUME Inv, Inv', StatusHeld, [Next]_vars
                PROVE  T!ThreadNext \/ UNCHANGED T!threadVars
    BY SMTT(30)
  <2>1. CASE \E f \in Fibers : Request(f)
    BY SMTT(30), <2>1, RequestIsCall
  <2>2. CASE ReapOne
    BY SMTT(30), <2>2, ReapIsUnblocks DEF T!ThreadNext
  <2>3. CASE UNCHANGED <<ready, records>>
    BY SMTT(30), <2>3, StandingThreads
  <2>. QED BY ZenonT(60), <2>1, <2>2, <2>3 DEF Next, Reactor, StartGeneration,
         EndGeneration, EnterShort, EnterAll, EnterInterrupted, EnterFails,
         WaitReturns, ParkAppends, ReapEnds, ReapRefused, Drain, KernelFinishes, Over, Trap, vars
<1>3. Inv => TypeOK
  BY SMTT(30) DEF Inv
<1>. QED BY <1>1, <1>2, <1>3, StatusHeldNext, InvAlways, PTL
         DEF Spec, ImplementsThreads, T!ThreadSpec
==============================================================================
