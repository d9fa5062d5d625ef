----------------------------- MODULE Scheduler ------------------------------
(***************************************************************************)
(* The reactor of src/scheduler/scheduler.c: one run queue, the request    *)
(* each resumed fiber hands back, the records of src/fiber/fiber.c those   *)
(* requests change, and the ring.  A fiber stands for its record, its      *)
(* stack and the one request it can have outstanding, which lives on that  *)
(* stack; an unmapped fiber is an address that a later spawn may reuse.    *)
(*                                                                         *)
(* The program is arbitrary: a resumed fiber makes any request, naming any *)
(* mapped record.  A dead handle is undefined behaviour of the caller      *)
(* (C11 7.26.5) and is never passed.                                       *)
(***************************************************************************)
EXTENDS Integers, Sequences, FiniteSets, Functions

CONSTANTS
  Fibers,      \* addresses a fiber record can have
  Root,        \* the fiber start.c makes to run main
  Null,        \* nullptr, and a request result nobody has written
  Status,      \* exit statuses
  SqEntries,   \* ring->sq_entries
  CqEntries    \* ring->cq_entries

ASSUME FiberAssumption == IsFiniteSet(Fibers) /\ Root \in Fibers
ASSUME NullAssumption == Null \notin Fibers \cup Status
ASSUME StatusAssumption ==
  Status # {} /\ Status \subseteq Int /\ Status \cap Fibers = {}
ASSUME RingAssumption == SqEntries \in Nat \ {0} /\ CqEntries \in Nat \ {0}

VARIABLES
  pc,             \* where __libuc_scheduler_run stands
  turns,          \* turns left in this generation
  parking,        \* the fiber park() is flushing a full batch for, or Null
  exit_code,      \* what run returned, or Null
  ready,          \* the run queue, ready_head first
  ready_count, parked_count, joining_count,
  life,           \* fiber->life, and "UNMAPPED" for no record at all
  joiner,         \* the fiber whose JOIN request fiber->joiner points to
  status,         \* fiber->status
  result,         \* request->result of a suspended fiber
  batch, inflight, finished, cq    \* the ring

Io == INSTANCE IoRing WITH Ops <- Fibers

control == <<pc, turns, parking, exit_code>>
counts == <<ready_count, parked_count, joining_count>>
records == <<life, joiner, status, result>>
ring == <<batch, inflight, finished, cq>>
vars == <<control, ready, counts, records, ring>>

Mapped(f) == life[f] # "UNMAPPED"

\* A fiber with a stack still to return to.
Alive(f) == life[f] \in {"LIVE", "DETACHED"}

Joining == Range(joiner) \ {Null}

\* start.c has made the root and queued it on an empty scheduler.
Init ==
  /\ pc = "loop" /\ turns = 0 /\ parking = Null /\ exit_code = Null
  /\ ready = <<Root>> /\ ready_count = 1
  /\ parked_count = 0 /\ joining_count = 0
  /\ life = [f \in Fibers |-> IF f = Root THEN "LIVE" ELSE "UNMAPPED"]
  /\ joiner = [f \in Fibers |-> Null]
  /\ status = [f \in Fibers |-> Null]
  /\ result = [f \in Fibers |-> Null]
  /\ Io!RingInit

-----------------------------------------------------------------------------
(* The loop: a generation is the fibers ready when the sweep starts.       *)

\* __builtin_trap ends the process where it stands.
Trap ==
  /\ pc' = "trap"
  /\ UNCHANGED <<turns, parking, exit_code, ready, counts, records, ring>>

\* Mutation: the loop is left while operations are in flight.
BugDrainedUnparked == ready_count = 0

Drained == parked_count + ready_count = 0

\* Mutation: the sweep allots turns to parked fibers too.
BugSweepParked ==
  /\ pc = "loop" /\ ~Drained
  /\ pc' = "dispatch" /\ turns' = ready_count + parked_count
  /\ UNCHANGED <<parking, exit_code, ready, counts, records, ring>>

StartGeneration ==
  /\ pc = "loop" /\ ~Drained
  /\ pc' = "dispatch" /\ turns' = ready_count
  /\ UNCHANGED <<parking, exit_code, ready, counts, records, ring>>

\* Mutation: the loop ends without a look at the joiners.
BugDrainIgnoresJoiners ==
  /\ pc = "loop" /\ Drained
  /\ pc' = "drained" /\ exit_code' = 0
  /\ UNCHANGED <<turns, parking, ready, counts, records, ring>>

\* Nothing runnable and nothing in flight: the loop is left, and joiners that
\* still wait trap at their own line.
Drain ==
  /\ pc = "loop" /\ Drained
  /\ IF joining_count # 0
     THEN pc' = "trap_joining" /\ UNCHANGED exit_code
     ELSE pc' = "drained" /\ exit_code' = 0
  /\ UNCHANGED <<turns, parking, ready, counts, records, ring>>

\* Mutation: the kernel is entered only when nobody is ready.
BugEndGenerationBusy ==
  /\ pc = "dispatch" /\ turns = 0
  /\ pc' = IF parked_count = 0 \/ ready_count # 0 THEN "loop" ELSE "enter"
  /\ UNCHANGED <<turns, parking, exit_code, ready, counts, records, ring>>

\* Mutation: a joiner's deadlock is waited for in the kernel.
BugEndGenerationSleeps ==
  /\ pc = "dispatch" /\ turns = 0
  /\ pc' = IF parked_count + joining_count = 0 THEN "loop" ELSE "enter"
  /\ UNCHANGED <<turns, parking, exit_code, ready, counts, records, ring>>

\* The kernel is not entered when no fiber is parked.
EndGeneration ==
  /\ pc = "dispatch" /\ turns = 0
  /\ pc' = IF parked_count = 0 THEN "loop" ELSE "enter"
  /\ UNCHANGED <<turns, parking, exit_code, ready, counts, records, ring>>

-----------------------------------------------------------------------------
(* One turn: the head is dequeued and resumed, and its request handled.    *)

Resumes(f) == pc = "dispatch" /\ turns # 0 /\ ready # <<>> /\ f = Head(ready)

\* f leaves the queue, and the handler enqueues the fibers of woken in order.
Turn(f, woken) ==
  /\ ready' = Tail(ready) \o woken
  /\ ready_count' = (ready_count - 1) + Len(woken)
  /\ turns' = turns - 1
  /\ UNCHANGED <<pc, parking, exit_code>>

\* f resumes and its answered request's frame is gone; g's request gets r.
Answer(f, g, r) == result' = [result EXCEPT ![f] = Null, ![g] = r]

\* The record and its stack are unmapped, fields and all.
Destroy(f) ==
  /\ life' = [life EXCEPT ![f] = "UNMAPPED"]
  /\ joiner' = [joiner EXCEPT ![f] = Null]
  /\ status' = [status EXCEPT ![f] = Null]

Yield(f) ==
  /\ Resumes(f)
  /\ Turn(f, <<f>>) /\ Answer(f, f, Null)
  /\ UNCHANGED <<parked_count, joining_count, life, joiner, status, ring>>

\* The detach mark outlives the exit, and the record is reclaimed by it.
ExitDetached(f) ==
  /\ Resumes(f) /\ life[f] = "DETACHED"
  /\ Turn(f, <<>>) /\ Destroy(f) /\ Answer(f, f, Null)
  /\ UNCHANGED <<parked_count, joining_count, ring>>

\* Mutation: an exit reclaims the record although nobody has joined.
BugExitForgets(f, s) ==
  /\ Resumes(f) /\ life[f] = "LIVE" /\ joiner[f] = Null
  /\ Turn(f, <<>>) /\ Destroy(f) /\ Answer(f, f, Null)
  /\ UNCHANGED <<parked_count, joining_count, ring>>

\* Nobody joins yet: the record stays, in no queue, holding its status.
ExitUnclaimed(f, s) ==
  /\ Resumes(f) /\ life[f] = "LIVE" /\ joiner[f] = Null
  /\ life' = [life EXCEPT ![f] = "EXITED"]
  /\ status' = [status EXCEPT ![f] = s]
  /\ Turn(f, <<>>) /\ Answer(f, f, Null)
  /\ UNCHANGED <<parked_count, joining_count, joiner, ring>>

\* The waiting joiner takes the status, the record goes, the joiner is queued.
ExitJoined(f, s) ==
  /\ Resumes(f) /\ life[f] = "LIVE" /\ joiner[f] # Null
  /\ joining_count' = joining_count - 1
  /\ Turn(f, <<joiner[f]>>) /\ Destroy(f) /\ Answer(f, joiner[f], s)
  /\ UNCHANGED <<parked_count, ring>>

\* munmap failed: each of the four places that destroy a record traps on it.
DestroyFails(f) ==
  /\ Resumes(f)
  /\ \/ life[f] = "DETACHED"
     \/ joiner[f] # Null
     \/ \E t \in Fibers \ {f} : life[t] = "EXITED"
  /\ Trap

\* Mutation: the child is queued ahead of its spawner.
BugSpawnChildFirst(f, child) ==
  /\ Resumes(f) /\ child # Root /\ ~Mapped(child)
  /\ life' = [life EXCEPT ![child] = "LIVE"]
  /\ Turn(f, <<child, f>>) /\ Answer(f, f, child)
  /\ UNCHANGED <<parked_count, joining_count, joiner, status, ring>>

\* The spawner is queued ahead of the child, so that it has stored the handle
\* before the child can read it.  The root's own address is not reused.
Spawn(f, child) ==
  /\ Resumes(f) /\ child # Root /\ ~Mapped(child)
  /\ life' = [life EXCEPT ![child] = "LIVE"]
  /\ Turn(f, <<f, child>>) /\ Answer(f, f, child)
  /\ UNCHANGED <<parked_count, joining_count, joiner, status, ring>>

\* A mapping could not be made; the spawner is answered nullptr.
SpawnFails(f) ==
  /\ Resumes(f)
  /\ Turn(f, <<f>>) /\ Answer(f, f, Null)
  /\ UNCHANGED <<parked_count, joining_count, life, joiner, status, ring>>

\* Mutation: a second join takes the first one's slot.
BugJoinOverwrites(f, t) == t = f \/ life[t] = "DETACHED"

JoinRefused(f, t) == t = f \/ joiner[t] # Null \/ life[t] = "DETACHED"

JoinExited(f, t) ==
  /\ Resumes(f) /\ ~JoinRefused(f, t) /\ life[t] = "EXITED"
  /\ Turn(f, <<f>>) /\ Answer(f, f, status[t]) /\ Destroy(t)
  /\ UNCHANGED <<parked_count, joining_count, ring>>

JoinWaits(f, t) ==
  /\ Resumes(f) /\ ~JoinRefused(f, t) /\ life[t] = "LIVE"
  /\ joiner' = [joiner EXCEPT ![t] = f]
  /\ joining_count' = joining_count + 1
  /\ Turn(f, <<>>) /\ Answer(f, f, Null)
  /\ UNCHANGED <<parked_count, life, status, ring>>

\* Mutation: a fiber that is waited for can be detached.
BugDetachJoined(t) == life[t] = "DETACHED"

DetachRefused(t) == joiner[t] # Null \/ life[t] = "DETACHED"

DetachExited(f, t) ==
  /\ Resumes(f) /\ ~DetachRefused(t) /\ life[t] = "EXITED"
  /\ Turn(f, <<f>>) /\ Answer(f, f, Null) /\ Destroy(t)
  /\ UNCHANGED <<parked_count, joining_count, ring>>

DetachLive(f, t) ==
  /\ Resumes(f) /\ ~DetachRefused(t) /\ life[t] = "LIVE"
  /\ life' = [life EXCEPT ![t] = "DETACHED"]
  /\ Turn(f, <<f>>) /\ Answer(f, f, Null)
  /\ UNCHANGED <<parked_count, joining_count, joiner, status, ring>>

\* A JOIN or DETACH that breaks its contract on a mapped record.
HandleRefused(f, t) ==
  /\ Resumes(f) /\ Mapped(t)
  /\ JoinRefused(f, t) \/ DetachRefused(t)
  /\ Trap

\* Only root_entry raises it, when main returns; the loop is left at once, and
\* no queue or counter is read again.
ProcessExit(f, s) ==
  /\ Resumes(f) /\ f = Root
  /\ pc' = "exited" /\ exit_code' = s
  /\ UNCHANGED <<turns, parking, ready, counts, records, ring>>

-----------------------------------------------------------------------------
(* AWAIT: park() and the ring.                                             *)

\* Mutation: no limit on the operations out.
BugParkUnlimited(flags) == flags # 0

\* One CQE slot per parked operation; flags that link or skip are refused.
ParkRefused(flags) == flags # 0 \/ parked_count = CqEntries

Await(f) ==
  /\ Resumes(f) /\ ~ParkRefused(0)
  /\ Turn(f, <<>>) /\ Answer(f, f, Null)
  /\ Io!AppendSqe(f)
  /\ parked_count' = parked_count + 1
  /\ UNCHANGED <<joining_count, life, joiner, status>>

\* The batch is full: park() submits it, in mid-sweep, to make room.
AwaitFlushes(f) ==
  /\ Resumes(f) /\ ~ParkRefused(0) /\ Io!BatchFull
  /\ ready' = Tail(ready) /\ ready_count' = ready_count - 1
  /\ turns' = turns - 1
  /\ pc' = "enter" /\ parking' = f /\ Answer(f, f, Null)
  /\ UNCHANGED <<exit_code, parked_count, joining_count, life, joiner, status,
                 ring>>

AwaitRefused(f) ==
  /\ Resumes(f) /\ \E flags \in {0, 1} : ParkRefused(flags)
  /\ Trap

\* Mutation: the reactor always waits for a completion.
BugMinCompleteOne == 1

\* A flush waits for nothing, and so does the reactor while a fiber is ready.
MinComplete == IF parking = Null /\ ready_count = 0 THEN 1 ELSE 0

\* An allocation failed in the kernel in mid-batch: submit goes round again.
EnterShort ==
  /\ pc = "enter"
  /\ \E n \in 1 .. Len(batch) - 1 : Io!Submit(n)
  /\ UNCHANGED <<control, ready, counts, records>>

\* The whole batch is taken and the call goes on to wait.
EnterAll ==
  /\ pc = "enter" /\ pc' = "wait"
  /\ Io!Submit(Len(batch))
  /\ UNCHANGED <<turns, parking, exit_code, ready, counts, records>>

\* Any error but -EINTR is fatal; -EINTR is retried and changes nothing.
EnterFails == pc = "enter" /\ Trap

\* Where submit() returns to: park()'s second append, or the reap loop.
Returned == IF parking = Null THEN "reap" ELSE "append"

\* A signal ends the wait of a call that submitted: its count is returned and
\* no completion with it.
EnterInterrupted ==
  /\ pc = "enter" /\ batch # <<>>
  /\ Io!Submit(Len(batch))
  /\ pc' = Returned
  /\ UNCHANGED <<turns, parking, exit_code, ready, counts, records>>

\* The call returns once min_complete completions stand in the queue.
WaitReturns ==
  /\ pc = "wait"
  /\ \E n \in 0 .. Len(finished) : Len(cq) + n >= MinComplete /\ Io!Post(n)
  /\ pc' = Returned
  /\ UNCHANGED <<turns, parking, exit_code, ready, counts, records>>

\* Mutation: an operation appended after a flush is not counted.
BugParkUncounted ==
  /\ pc = "append"
  /\ Io!AppendSqe(parking)
  /\ pc' = "dispatch" /\ parking' = Null
  /\ UNCHANGED <<turns, exit_code, ready, counts, records>>

\* The flushed batch has room again, and the sweep goes on.
ParkAppends ==
  /\ pc = "append"
  /\ Io!AppendSqe(parking)
  /\ parked_count' = parked_count + 1
  /\ pc' = "dispatch" /\ parking' = Null
  /\ UNCHANGED <<turns, exit_code, ready, ready_count, joining_count, records>>

\* The completion's user_data names the request, and that the fiber to queue.
\* What the result says (res) is left out.
ReapOne ==
  /\ pc = "reap"
  /\ Io!Reap
  /\ ready' = Append(ready, Head(cq))
  /\ ready_count' = ready_count + 1 /\ parked_count' = parked_count - 1
  /\ UNCHANGED <<control, joining_count, records>>

\* The program awaited a stream or a zero-copy send, which park() does not
\* look for: its completion is flagged MORE, NOTIF or SKIP.
ReapRefused == pc = "reap" /\ cq # <<>> /\ Trap

ReapEnds ==
  /\ pc = "reap" /\ cq = <<>>
  /\ pc' = "loop"
  /\ UNCHANGED <<turns, parking, exit_code, ready, counts, records, ring>>

\* The kernel ends an operation whatever the reactor is doing.
KernelFinishes ==
  /\ pc \notin {"trap", "trap_joining", "drained", "exited"}
  /\ \E f \in Fibers : Io!Finish(f)
  /\ UNCHANGED <<control, ready, counts, records>>

-----------------------------------------------------------------------------
Request(f) ==
  \/ Yield(f)
  \/ ExitDetached(f)
  \/ \E s \in Status : ExitUnclaimed(f, s)
  \/ \E s \in Status : ExitJoined(f, s)
  \/ \E child \in Fibers : Spawn(f, child)
  \/ SpawnFails(f)
  \/ \E t \in Fibers : JoinExited(f, t)
  \/ \E t \in Fibers : JoinWaits(f, t)
  \/ \E t \in Fibers : DetachExited(f, t)
  \/ \E t \in Fibers : DetachLive(f, t)
  \/ Await(f)
  \/ AwaitFlushes(f)
  \/ \E s \in Status : ProcessExit(f, s)
  \/ \E t \in Fibers : HandleRefused(f, t)
  \/ AwaitRefused(f)
  \/ DestroyFails(f)

Reactor ==
  \/ StartGeneration
  \/ \E f \in Fibers : Request(f)
  \/ EndGeneration
  \/ EnterShort
  \/ EnterAll
  \/ EnterInterrupted
  \/ EnterFails
  \/ WaitReturns
  \/ ParkAppends
  \/ ReapOne
  \/ ReapRefused
  \/ ReapEnds
  \/ Drain

Stopped == pc \in {"trap", "trap_joining", "drained", "exited"}

\* The process is over.
Over == Stopped /\ UNCHANGED vars

Next == Reactor \/ KernelFinishes \/ Over

Spec == Init /\ [][Next]_vars

\* A resumed fiber comes back with a request, an enter that may return does,
\* and the loop goes on.  Nothing is assumed of when operations finish.
FairSpec == Spec /\ WF_vars(Reactor)

-----------------------------------------------------------------------------
TypeOK ==
  /\ pc \in {"loop", "dispatch", "enter", "wait", "append", "reap",
             "trap", "trap_joining", "drained", "exited"}
  /\ turns \in Nat
  /\ parking \in Fibers \cup {Null}
  /\ exit_code \in Status \cup {0, Null}
  /\ ready \in Seq(Fibers)
  /\ ready_count \in Nat /\ parked_count \in Nat /\ joining_count \in Nat
  /\ life \in [Fibers -> {"UNMAPPED", "LIVE", "DETACHED", "EXITED"}]
  /\ joiner \in [Fibers -> Fibers \cup {Null}]
  /\ status \in [Fibers -> Status \cup {Null}]
  /\ result \in [Fibers -> Fibers \cup Status \cup {Null}]
  /\ batch \in Seq(Fibers) /\ inflight \subseteq Fibers
  /\ finished \in Seq(Fibers) /\ cq \in Seq(Fibers)

Places == {"ready", "batch", "inflight", "finished", "cq", "joining", "parking"}

\* The fibers that stand in each place a suspended fiber can be found.
At(p) ==
  CASE p = "ready" -> Range(ready)
    [] p = "batch" -> Range(batch)
    [] p = "inflight" -> inflight
    [] p = "finished" -> Range(finished)
    [] p = "cq" -> Range(cq)
    [] p = "joining" -> Joining
    [] p = "parking" -> {parking} \ {Null}

\* No queue holds a fiber twice ("a fiber is in at most one queue",
\* fiber.h:73), and no fiber waits behind two joins.
NoneTwice ==
  /\ IsInjective(ready) /\ IsInjective(batch)
  /\ IsInjective(finished) /\ IsInjective(cq)
  /\ \A t, u \in Fibers : joiner[t] = joiner[u] /\ joiner[t] # Null => t = u

\* A fiber that can still run stands in exactly one place, so it is neither
\* lost nor woken twice; an exited or unmapped one stands nowhere, so no queue
\* link, joiner slot or user_data held by the kernel names a released record.
OnePlace ==
  /\ NoneTwice
  /\ \A p, q \in Places : p # q => At(p) \cap At(q) = {}
  /\ \A f \in Fibers : Alive(f) <=> \E p \in Places : f \in At(p)

\* The three counters run() decides by are the sizes of what they count.
CountsExact ==
  /\ ready_count = Len(ready)
  /\ parked_count = Len(batch) + Cardinality(inflight) + Len(finished) + Len(cq)
  /\ joining_count = Cardinality({t \in Fibers : joiner[t] # Null})

\* The sweep dequeues without a look at ready_head (scheduler.c:65): as many
\* fibers are queued as it has turns left, also after a flush in mid-sweep.
TurnsHaveFibers == turns <= Len(ready)

\* The admission limit of park(): every completion the kernel can still post
\* has a CQ entry of its own, so the CQ cannot overflow.
CompletionsFit ==
  Len(batch) + Cardinality(inflight) + Len(finished) + Len(cq) <= CqEntries

\* A fiber that is waited for is running or able to run and not detached: its
\* exit will find the joiner, whatever other fibers asked for meanwhile.
JoinedStaysJoinable ==
  \A t \in Fibers : joiner[t] # Null => life[t] = "LIVE" /\ joiner[t] # t

\* The trap after the loop says "Joiners left with nothing runnable and
\* nothing in flight are a cycle" (scheduler.c:186): then every fiber of some
\* nonempty set waits for another fiber of that set.
DrainTrapIsCycle ==
  pc = "trap_joining" =>
    \E C \in (SUBSET Fibers) \ {{}} :
      \A f \in C : \E t \in C : joiner[t] = f

\* run() returns 0 by draining only after "the last thread's termination"
\* (scheduler.h:30): nobody is left to run, in the ring or behind a join.
DrainedMeansAllEnded ==
  pc = "drained" => \A f \in Fibers : ~Alive(f)

\* A new fiber stands behind its spawner until the spawner has been resumed
\* with the handle (scheduler.c:107-116), across generations and whatever the
\* fibers between them ask for.
HandleStoredFirst ==
  \A f \in Fibers : result[f] \in Fibers =>
    \E i, j \in DOMAIN ready :
      i < j /\ ready[i] = f /\ ready[j] = result[f]

\* t's record, exited, holds its status until a join or a detach of another
\* fiber reclaims it, and a join is answered with that status.
HeldUntilClaimed(t) ==
  life[t] = "EXITED" =>
    \/ life'[t] = "EXITED" /\ status'[t] = status[t]
    \/ /\ ~Mapped(t)'
       /\ \E f \in Fibers \ {t} : /\ Resumes(f) /\ f \in Range(ready')
                                 /\ result'[f] \in {status[t], Null}

\* t's record, not detached, goes with its exit only when a joiner waits, which
\* is answered with a status and queued.
HandedToJoiner(t) ==
  life[t] = "LIVE" /\ ~Mapped(t)' =>
    /\ joiner[t] \in Fibers
    /\ result'[joiner[t]] \in Status
    /\ joiner[t] \in Range(ready')

\* The status of a fiber nobody detached is not lost on its way to the joiner,
\* whichever of the two comes first (scheduler.c:78-97, 118-134): it stays in
\* the exited record unchanged, or goes to the waiting joiner when the record
\* goes, and an answer in a request is neither overwritten nor cleared before
\* the fiber that made the request has been resumed with it.
StatusNotLost ==
  [][\A t \in Fibers :
       /\ HeldUntilClaimed(t) /\ HandedToJoiner(t)
       /\ result[t] # Null /\ result'[t] # result[t] => Resumes(t)]_vars

-----------------------------------------------------------------------------
(* Liveness, under FairSpec.                                               *)

\* A runnable fiber is resumed: no queue position starves, and the reactor
\* does not sleep in the kernel while a fiber is ready (scheduler.c:161).
ReadyIsResumed ==
  \A f \in Fibers : f \in Range(ready) ~> Stopped \/ Resumes(f)

\* An operation that ended wakes its fiber, however long others go on
\* yielding: a sweep ends and the kernel is entered after it.
FinishedIsWoken ==
  \A f \in Fibers : f \in Range(finished) ~> Stopped \/ f \in Range(ready)

\* When all that is left waits in joins the process traps instead of hanging.
JoinDeadlockTraps ==
  (/\ \E f \in Fibers : Alive(f)
   /\ \A f \in Fibers : Alive(f) => f \in Joining) ~> pc = "trap_joining"

-----------------------------------------------------------------------------
\* .scratch/scheduler.md:28: "`ready` and `parked`, which count the two places
\* a live fiber can stand" between turns.
LiveIsReadyOrParked ==
  pc = "loop" =>
    ready_count + parked_count = Cardinality({f \in Fibers : Alive(f)})
=============================================================================
