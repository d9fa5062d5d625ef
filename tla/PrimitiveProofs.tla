--------------------------- MODULE PrimitiveProofs --------------------------
(***************************************************************************)
(* The pieces everything else runs on, for every value of their constants: *)
(* the run queue, the switch between fibers at any depth of nesting, and   *)
(* the byte functions.                                                     *)
(***************************************************************************)
EXTENDS FiberSwitch, ReadyQueue, MemCompare, DataLemmas

(* The intrusive list is a FIFO.                                           *)

\* The links can be followed only because no fiber is queued twice.
ListInv == QueueTypeOK /\ IsInjective(order) /\ LinksSpellOrder

\* The empty list satisfies the invariant.
LEMMA ListInit == QueueInit => ListInv
BY DEF QueueInit, ListInv, QueueTypeOK, LinksSpellOrder, IsInjective, Range

\* Linking at the tail and unlinking at the head keep it.
LEMMA ListNext == ListInv /\ [QueueNext]_queueVars => ListInv'
<1>. SUFFICES ASSUME ListInv, [QueueNext]_queueVars PROVE ListInv'
  OBVIOUS
<1>. USE QueueAssumption DEF ListInv
<1>1. ASSUME NEW f \in Fibers, Enqueue(f) PROVE ListInv'
  <2>1. order' \in Seq(Fibers) /\ Len(order') = Len(order) + 1
        /\ (\A k \in 1 .. Len(order) : order'[k] = order[k])
        /\ order'[Len(order) + 1] = f
    BY <1>1 DEF Enqueue, QueueTypeOK
  <2>2. IsInjective(order)'
    BY <1>1, DistinctAppend DEF Enqueue, QueueTypeOK
  <2>3. QueueTypeOK'
    BY <1>1, <2>1 DEF Enqueue, LinkAtTail, QueueTypeOK
  <2>4. LinksSpellOrder'
    <3>1. CASE order = <<>>
      BY SMTT(30), <1>1, <2>1, <3>1 DEF Enqueue, LinkAtTail, QueueTypeOK, LinksSpellOrder, Range
    <3>2. CASE order # <<>>
      <4>1. ready_tail = order[Len(order)] /\ Len(order) \in Nat \ {0}
        BY <3>2 DEF QueueTypeOK, LinksSpellOrder
      <4>2. ready_next' = [ready_next EXCEPT ![f] = Null, ![ready_tail] = f]
        BY <1>1, <4>1 DEF Enqueue, LinkAtTail, QueueTypeOK
      <4>3. \A k \in 1 .. Len(order) : order[k] # f
        BY <1>1 DEF Enqueue, Range
      <4>4. \A k \in 1 .. Len(order) - 1 : order[k] # ready_tail
        BY <4>1 DEF IsInjective, QueueTypeOK
      <4>5. \A k \in 1 .. Len(order') :
              ready_next'[order'[k]]
                = IF k = Len(order') THEN Null ELSE order'[k + 1]
        BY SMTT(30), <2>1, <4>1, <4>2, <4>3, <4>4 DEF QueueTypeOK, LinksSpellOrder
      <4>6. \A g \in Fibers \ Range(order') : ready_next'[g] = Null
        <5>1. Range(order) \cup {f} \subseteq Range(order')
          BY SMTT(30), <2>1 DEF Range, QueueTypeOK
        <5>2. ready_tail \in Range(order)
          BY <4>1, RangeOfSeq DEF QueueTypeOK
        <5>. QED BY <4>2, <5>1, <5>2 DEF QueueTypeOK, LinksSpellOrder
      <4>. QED BY SMTT(30), <1>1, <2>1, <3>2, <4>1, <4>5, <4>6
               DEF Enqueue, QueueTypeOK, LinksSpellOrder
    <3>. QED BY <3>1, <3>2
  <2>. QED BY <2>2, <2>3, <2>4
<1>2. ASSUME Dequeue PROVE ListInv'
  <2>1. order # <<>> /\ ready_head = order[1] /\ Len(order) \in Nat \ {0}
    BY <1>2 DEF Dequeue, QueueTypeOK, LinksSpellOrder
  <2>2. /\ order' \in Seq(Fibers) /\ Len(order') = Len(order) - 1
        /\ \A k \in 1 .. Len(order) - 1 : order'[k] = order[k + 1]
        /\ IsInjective(order')
        /\ Range(order') = Range(order) \ {order[1]}
    BY <1>2, <2>1, DistinctTail DEF Dequeue, QueueTypeOK
  <2>3. QueueTypeOK'
    BY <1>2, <2>1, <2>2 DEF Dequeue, TailAfterTake, QueueTypeOK, LinksSpellOrder
  <2>4. \A k \in 2 .. Len(order) : order[k] # order[1]
    BY <2>1 DEF IsInjective
  <2>5. ready_next' = [ready_next EXCEPT ![order[1]] = Null]
    BY <1>2, <2>1 DEF Dequeue
  <2>6. LinksSpellOrder'
    <3>1. \A k \in 1 .. Len(order') :
            ready_next'[order'[k]] = IF k = Len(order') THEN Null ELSE order'[k + 1]
      BY <2>1, <2>2, <2>4, <2>5 DEF QueueTypeOK, LinksSpellOrder
    <3>2. \A g \in Fibers \ Range(order') : ready_next'[g] = Null
      BY <2>2, <2>5 DEF QueueTypeOK, LinksSpellOrder
    <3>3. CASE Len(order) = 1
      BY <1>2, <2>1, <2>2, <3>1, <3>2, <3>3
         DEF Dequeue, TailAfterTake, QueueTypeOK, LinksSpellOrder
    <3>4. CASE Len(order) > 1
      <4>1. ready_next[ready_head] = order[2] /\ order[2] # Null
        BY <2>1, <3>4 DEF QueueTypeOK, LinksSpellOrder
      <4>2. /\ ready_head' = order[2] /\ ready_tail' = order[Len(order)]
            /\ ready_count' = Len(order) - 1
        BY <1>2, <2>1, <4>1 DEF Dequeue, TailAfterTake, LinksSpellOrder
      <4>3. order'[1] = order[2] /\ order'[Len(order')] = order[Len(order)]
            /\ order' # <<>>
        BY <2>1, <2>2, <3>4
      <4>. QED BY <2>2, <3>1, <3>2, <4>2, <4>3 DEF LinksSpellOrder
    <3>5. \A m \in Nat \ {0} : m = 1 \/ m > 1
      OBVIOUS
    <3>. QED BY ZenonT(60), <2>1, <3>3, <3>4, <3>5
  <2>. QED BY <2>2, <2>3, <2>6
<1>3. CASE UNCHANGED queueVars
  BY <1>3 DEF queueVars, QueueTypeOK, LinksSpellOrder
<1>. QED BY <1>1, <1>2, <1>3 DEF QueueNext

\* In every reachable state the links from ready_head spell the queue and the
\* count is its length, so the dequeue in run never follows a null head.
THEOREM LinksAlwaysSpellOrder == QueueSpec => [](QueueTypeOK /\ LinksSpellOrder)
<1>1. QueueSpec => []ListInv
  BY ListInit, ListNext, PTL DEF QueueSpec
<1>2. ListInv => QueueTypeOK /\ LinksSpellOrder
  BY DEF ListInv
<1>. QED BY <1>1, <1>2, PTL

\* __libuc_scheduler_enqueue and run's dequeue implement a FIFO queue.
THEOREM ListImplementsFifo == QueueSpec => ImplementsFifo
<1>1. QueueInit => Queue!FifoInit
  BY DEF QueueInit, Queue!FifoInit
<1>2. ListInv /\ [QueueNext]_queueVars => [Queue!FifoNext]_(Queue!fifoVars)
  <2>. SUFFICES ASSUME ListInv, [QueueNext]_queueVars
                PROVE  [Queue!FifoNext]_(Queue!fifoVars)
    OBVIOUS
  <2>1. ASSUME NEW f \in Fibers, Enqueue(f) PROVE Queue!FifoEnqueue(f)
    BY <2>1 DEF Enqueue, Queue!FifoEnqueue, Range, Queue!Range
  <2>2. ASSUME Dequeue PROVE Queue!FifoDequeue
    BY <2>2 DEF Dequeue, Queue!FifoDequeue, ListInv, QueueTypeOK, LinksSpellOrder
  <2>3. CASE UNCHANGED queueVars
    BY <2>3 DEF queueVars, Queue!fifoVars
  <2>. QED BY <2>1, <2>2, <2>3 DEF QueueNext, Queue!FifoNext
<1>. QED BY <1>1, <1>2, ListInit, ListNext, PTL
         DEF QueueSpec, ImplementsFifo, Queue!FifoSpec

-----------------------------------------------------------------------------
(* Control transfer.                                                       *)

Active(f) == return_to[f] # Null

\* The pending resumes, read from both ends: every fiber on the way to the
\* running stack is alive, and a stack that runs or waits is itself resumed.
ChainInv ==
  /\ FramesPaired
  /\ \A f \in Fibers : Active(f) => f \in mapped /\ f \notin ended
  /\ cpu \in Fibers => Active(cpu)
  /\ \A f \in Fibers : frame[f].fiber # Null => Active(f)
  /\ \A f \in Fibers : return_to[f] # f

\* A stopped fiber resumes on its own stack with its own block, or faults; only
\* the one that ends the process may leave with another block installed.
StoppedInv ==
  \A f \in mapped : ~Active(f) =>
    IF f \in ended THEN context[f] = Null
    ELSE context[f] = f /\ (outcome = "runs" => view[f] = f)

\* The thread pointer each stack left is in its frame or in the register.
ViewInv ==
  /\ ThreadPointerKept
  /\ \A t \in Stacks : frame[t].fiber # Null => frame[t].caller = view[t]

\* What holds as long as no fiber has left through the record of another.
Sound ==
  /\ TypeOK /\ ChainInv /\ StoppedInv /\ ViewInv
  /\ RequestFromResumed /\ EndingNeverFaults

\* What holds even then.
Inv ==
  /\ outcome # "misdirected" => Sound
  /\ TypeOK /\ FramesPaired /\ ThreadPointerKept /\ EndingNeverFaults
  /\ StoppedOnOwnStack
  /\ cpu \notin ended

-----------------------------------------------------------------------------

\* The state in which the reactor's stack starts satisfies the invariant.
LEMMA SoundInit == Init => Sound
BY SwitchAssumption
DEF Init, Sound, TypeOK, ChainInv, FramesPaired, StoppedInv, ViewInv, Active,
    ThreadPointerKept, RequestFromResumed, EndingNeverFaults, NoFrame, Stacks, Blocks

\* A call that faults stops the process where it is; only an ending call would
\* break the invariant by it.
LEMMA FaultStep ==
  ASSUME Sound, outcome = "runs",
         NEW what \in {"suspend_faults", "resume_faults"}, Fault(what)
  PROVE  Sound'
BY DEF Sound, TypeOK, ChainInv, FramesPaired, StoppedInv, ViewInv, Active, Fault,
       ThreadPointerKept, RequestFromResumed, EndingNeverFaults, record, history

\* __libuc_fiber_spawn makes a stopped fiber.
LEMMA SpawnStep ==
  ASSUME Sound, outcome = "runs", NEW f \in Fibers, Spawn(f)
  PROVE  Sound'
<1>1. ~Active(f) /\ cpu # f /\ return_to' = return_to /\ frame[f].fiber = Null
  BY DEF Sound, TypeOK, ChainInv, Active, Spawn
<1>2. TypeOK'
  BY DEF Sound, TypeOK, Spawn, MadeContext, Stacks, Blocks
<1>3. ChainInv'
  BY <1>1 DEF Sound, TypeOK, ChainInv, FramesPaired, Active, Spawn
<1>4. StoppedInv'
  BY <1>1 DEF Sound, TypeOK, StoppedInv, Active, Spawn, MadeContext, Stacks
<1>5. ViewInv'
  BY <1>1, SwitchAssumption DEF Sound, TypeOK, ViewInv, ThreadPointerKept, Spawn, Stacks
<1> QED
  BY <1>2, <1>3, <1>4, <1>5 DEF Sound, RequestFromResumed, EndingNeverFaults, Spawn

\* __libuc_fiber_destroy removes a stopped fiber.
LEMMA DestroyStep ==
  ASSUME Sound, NEW f \in Fibers, Destroy(f)
  PROVE  Sound'
BY DEF Sound, TypeOK, ChainInv, FramesPaired, StoppedInv, ViewInv, Active, Destroy,
       ThreadPointerKept, RequestFromResumed, EndingNeverFaults, history

\* A block installed by the running stack is that stack's own affair.
LEMMA InstallStep ==
  ASSUME Sound, outcome = "runs", NEW b \in Blocks, Install(b)
  PROVE  Sound'
<1>1. TypeOK'
  BY DEF Sound, TypeOK, Install, record, Stacks, Blocks
<1>2. ChainInv'
  BY DEF Sound, ChainInv, FramesPaired, Active, Install, record
<1>3. StoppedInv'
  BY DEF Sound, TypeOK, ChainInv, StoppedInv, Active, Install, record, Stacks
<1>4. ViewInv'
  BY SwitchAssumption
  DEF Sound, TypeOK, ChainInv, FramesPaired, ViewInv, ThreadPointerKept, Install, record
<1> QED
  BY <1>1, <1>2, <1>3, <1>4 DEF Sound, RequestFromResumed, EndingNeverFaults, Install

\* __libuc_fiber_resume of a stopped fiber extends the chain by its stack.
LEMMA ResumeStep ==
  ASSUME Sound, outcome = "runs", NEW f \in Fibers, Resume(f)
  PROVE  Sound'
<1>1. CASE context[f] = Null
  BY <1>1, FaultStep DEF Resume
<1>2. CASE context[f] # Null
  <2>1. /\ f \in mapped /\ ~Active(f) /\ f \notin ended
        /\ context[f] = f /\ view[f] = f
        /\ SwitchIn(f)
    BY <1>2 DEF Sound, StoppedInv, Active, Resume
  <2>2. cpu # f /\ frame[f].fiber = Null /\ cpu \in Stacks /\ f # Null
    BY <2>1, SwitchAssumption DEF Sound, TypeOK, ChainInv, Active
  <2>3. TypeOK'
    BY <2>1 DEF Sound, TypeOK, SwitchIn, ContinueOn, history, Stacks, Blocks
  <2>4. ChainInv'
    <3>1. /\ return_to' = [return_to EXCEPT ![f] = cpu] /\ cpu' = f
          /\ frame' = [frame EXCEPT ![cpu] = [fiber |-> f, caller |-> thread_pointer]]
          /\ mapped' = mapped /\ ended' = ended
      BY <2>1 DEF SwitchIn, ContinueOn, history
    <3>2. /\ return_to \in [Fibers -> Stacks \cup {Null}]
          /\ DOMAIN frame = Stacks /\ f \in Stacks
          /\ Null \notin Stacks
      BY SwitchAssumption DEF Sound, TypeOK, Stacks
    <3>3. FramesPaired'
      BY <2>1, <2>2, <3>1, <3>2 DEF Sound, ChainInv, FramesPaired, Active, Stacks
    <3> QED
      BY <2>1, <2>2, <3>1, <3>2, <3>3 DEF Sound, ChainInv, Active, Stacks
  <2>5. StoppedInv'
    BY <2>1, <2>2, SwitchAssumption
    DEF Sound, TypeOK, StoppedInv, Active, SwitchIn, ContinueOn, history, Stacks
  <2>6. ViewInv'
    BY <2>1, <2>2 DEF Sound, TypeOK, ViewInv, ThreadPointerKept, SwitchIn, ContinueOn, history, Stacks
  <2> QED
    BY <2>1, <2>3, <2>4, <2>5, <2>6
    DEF Sound, RequestFromResumed, EndingNeverFaults, SwitchIn
<1> QED
  BY <1>1, <1>2

\* A running fiber's switch back shortens the chain by its stack, and its
\* resumer continues with the thread pointer it left.  A fiber that will run
\* again must leave with its own block installed.
LEMMA SwitchOutStep ==
  ASSUME Sound, outcome = "runs",
         cpu \in Fibers, NEW ends \in BOOLEAN, SwitchOut(cpu, ends),
         ended' = IF ends THEN ended \cup {cpu} ELSE ended,
         outcome' \in {"runs", "exited"},
         ~ends /\ outcome' = "runs" => thread_pointer = cpu
  PROVE  Sound'
<1> DEFINE t == return_to[cpu]
<1>1. /\ Active(cpu) /\ t \in Stacks /\ t # cpu
      /\ frame[t].fiber = cpu
      /\ cpu # Null /\ Null \notin Stacks /\ cpu \in Stacks
      /\ cpu \in mapped /\ cpu \notin ended
  BY SwitchAssumption DEF Sound, TypeOK, ChainInv, FramesPaired, Active, Stacks
<1>2. /\ return_to' = [return_to EXCEPT ![cpu] = Null]
      /\ context' = [context EXCEPT ![cpu] = IF ends THEN Null ELSE cpu]
      /\ frame' = [frame EXCEPT ![t] = NoFrame]
      /\ thread_pointer' = frame[t].caller
      /\ cpu' = t
      /\ delivered' = [stack |-> cpu, fiber |-> cpu]
      /\ mapped' = mapped /\ view' = view
  BY <1>1 DEF SwitchOut, SavedContext, Land, ContinueOn, Sound, TypeOK
<1>3. TypeOK'
  BY SMTT(30), <1>1, <1>2 DEF Sound, TypeOK, NoFrame, Stacks, Blocks
<1>4. FramesPaired'
  <2>1. ASSUME NEW f \in Fibers, NEW g \in Stacks
        PROVE  (return_to[f] = g <=> frame[g].fiber = f)'
    BY <1>1, <1>2, SwitchAssumption
    DEF Sound, TypeOK, ChainInv, FramesPaired, NoFrame
  <2>2. ASSUME NEW f \in Fibers, return_to'[f] # Null
        PROVE  ((f = cpu) # (frame[f].fiber # Null))'
    <3>1. f # cpu /\ return_to[f] # Null /\ frame[f].fiber # Null
      BY <2>2, <1>1, <1>2 DEF Sound, TypeOK, ChainInv, FramesPaired
    <3>2. CASE f = t
      BY <3>1, <3>2, <1>1, <1>2 DEF Sound, TypeOK, NoFrame
    <3>3. CASE f # t
      BY <3>1, <3>3, <1>1, <1>2 DEF Sound, TypeOK
    <3> QED
      BY <3>2, <3>3
  <2> QED
    BY SMTT(30), <2>1, <2>2, <1>1, <1>2 DEF FramesPaired, NoFrame, Sound, TypeOK
<1>5. ChainInv'
  <2>1. \A f \in Fibers : return_to'[f] # Null => f # cpu /\ return_to[f] # Null
    BY <1>1, <1>2 DEF Sound, TypeOK
  <2>2. \A f \in Fibers : f # cpu => return_to'[f] = return_to[f]
    BY <1>2 DEF Sound, TypeOK
  <2>3. ASSUME NEW f \in Fibers, return_to'[f] # Null
        PROVE  f \in mapped' /\ f \notin ended'
    BY <2>1, <2>3, <1>2 DEF Sound, ChainInv, Active
  <2>4. cpu' \in Fibers => return_to'[cpu'] # Null
    BY <1>1, <1>2, <2>2 DEF Sound, ChainInv, Active
  <2>5. ASSUME NEW f \in Fibers, frame'[f].fiber # Null
        PROVE  return_to'[f] # Null
    <3>1. frame[f].fiber # Null /\ f # t /\ f # cpu
      BY <2>5, <1>1, <1>2 DEF Sound, TypeOK, ChainInv, FramesPaired, NoFrame, Stacks
    <3> QED
      BY SMTT(30), <3>1, <2>2 DEF Sound, ChainInv, Active
  <2>6. ASSUME NEW f \in Fibers
        PROVE  return_to'[f] # f
    BY <2>2, <1>1, <1>2 DEF Sound, TypeOK, ChainInv
  <2> QED
    BY <1>4, <2>3, <2>4, <2>5, <2>6 DEF ChainInv, Active
<1>6. StoppedInv'
  <2> SUFFICES ASSUME NEW f \in mapped, return_to'[f] = Null
               PROVE  IF f \in ended' THEN context'[f] = Null
                      ELSE context'[f] = f /\ (outcome' = "runs" => view'[f] = f)
    BY SMTT(30), <1>2 DEF StoppedInv, Active
  <2>1. CASE f = cpu
    BY SMTT(30), <2>1, <1>1, <1>2 DEF Sound, TypeOK, ViewInv, ThreadPointerKept
  <2>2. CASE f # cpu
    <3>1. return_to[f] = Null /\ context'[f] = context[f] /\ (f \in ended' <=> f \in ended)
      BY <2>2, <1>1, <1>2 DEF Sound, TypeOK
    <3> QED
      BY <3>1, <1>2 DEF Sound, StoppedInv, Active
  <2> QED
    BY SMTT(30), <2>1, <2>2
<1>7. ViewInv'
  BY <1>1, <1>2 DEF Sound, TypeOK, ViewInv, ThreadPointerKept, NoFrame
<1> QED
  BY <1>2, <1>3, <1>5, <1>6, <1>7 DEF Sound, RequestFromResumed, EndingNeverFaults

\* A call under the block of another fiber g that is being resumed leaves
\* through g's record: the resumer of g continues, as it left, though the
\* running stack is not g's.
LEMMA MisdirectedStep ==
  ASSUME Sound, outcome = "runs", NEW ends \in BOOLEAN,
         CanSwitchOut(Current), Current # cpu, SwitchOut(Current, ends),
         ended' = IF ends THEN ended \cup {Current} ELSE ended,
         outcome' = "misdirected"
  PROVE  Inv'
<1> DEFINE g == Current
           t == return_to[g]
<1>0. PICK h \in Fibers : h = g
  BY DEF CanSwitchOut
<1>1. /\ t \in Stacks /\ t # h /\ frame[t].fiber = h
      /\ h # Null /\ Null \notin Stacks /\ h \in Stacks
      /\ t \notin ended /\ cpu \in Stacks
  <2>1. t \in Stacks /\ t # h /\ frame[t].fiber = h /\ h # Null /\ h \in Stacks
    BY <1>0, SwitchAssumption DEF CanSwitchOut, Sound, TypeOK, ChainInv, FramesPaired, Stacks
  <2>2. t \in Fibers => Active(t)
    BY <2>1, <1>0 DEF Sound, ChainInv
  <2> QED
    BY <2>1, <2>2, SwitchAssumption DEF Sound, TypeOK, ChainInv, Stacks
<1>2. /\ return_to' = [return_to EXCEPT ![h] = Null]
      /\ context' = [context EXCEPT ![h] = IF ends THEN Null ELSE cpu]
      /\ frame' = [frame EXCEPT ![t] = NoFrame]
      /\ thread_pointer' = frame[t].caller
      /\ cpu' = t
      /\ delivered' = [stack |-> cpu, fiber |-> h]
      /\ mapped' = mapped /\ view' = view
  BY <1>0, <1>1 DEF SwitchOut, SavedContext, Land, ContinueOn, Sound, TypeOK
<1>3. TypeOK'
  BY SMTT(30), <1>0, <1>1, <1>2 DEF Sound, TypeOK, NoFrame, Stacks, Blocks
<1>4. ASSUME NEW f \in Fibers, NEW u \in Stacks
      PROVE  (return_to[f] = u <=> frame[u].fiber = f)'
  BY <1>1, <1>2, SwitchAssumption
  DEF Sound, TypeOK, ChainInv, FramesPaired, NoFrame
<1>5. frame'[cpu'].fiber = Null
  BY <1>1, <1>2 DEF Sound, TypeOK, NoFrame
<1>6. ThreadPointerKept'
  BY <1>1, <1>2 DEF Sound, ViewInv, ThreadPointerKept
<1>7. cpu' \notin ended'
  BY <1>0, <1>1, <1>2
<1>8. StoppedOnOwnStack'
  <2> SUFFICES ASSUME NEW f \in mapped, return_to'[f] = Null, f \notin ended', f # h
               PROVE  context'[f] = f
    BY <1>2 DEF StoppedOnOwnStack
  <2>1. f \in Fibers /\ return_to[f] = Null /\ context'[f] = context[f] /\ f \notin ended
    BY <1>0, <1>2 DEF Sound, TypeOK
  <2> QED
    BY <2>1 DEF Sound, StoppedInv, Active
<1> QED
  BY <1>3, <1>4, <1>5, <1>6, <1>7, <1>8 DEF Inv, FramesPaired, EndingNeverFaults

\* Without such a call, nothing that ended is on the processor.
LEMMA SoundIsInv ==
  ASSUME Sound
  PROVE  Inv
BY SwitchAssumption
DEF Sound, Inv, TypeOK, ChainInv, ViewInv, StoppedInv, StoppedOnOwnStack, Active, Stacks

\* The same of the state a step leads to.
LEMMA SoundIsInvNext ==
  ASSUME Sound'
  PROVE  Inv'
BY SwitchAssumption
DEF Sound, Inv, TypeOK, ChainInv, ViewInv, StoppedInv, StoppedOnOwnStack, Active, Stacks

\* A running fiber always has a resumer to go back to.
LEMMA CanEnd ==
  ASSUME Sound, cpu \in Fibers
  PROVE  CanSwitchOut(cpu)
BY DEF Sound, ChainInv, Active, CanSwitchOut

\* A suspension or an exit is the running fiber's own, or misdirected.
LEMMA LeaveStep ==
  ASSUME Sound, outcome = "runs", Suspend \/ Exit
  PROVE  Inv'
<1>1. CASE ~CanSwitchOut(Current)
  BY ZenonT(60), <1>1, FaultStep, SoundIsInvNext DEF Suspend, Exit
<1>2. CASE CanSwitchOut(Current) /\ Current = cpu
  <2>1. cpu \in Fibers /\ thread_pointer = cpu
    BY <1>2, SwitchAssumption DEF CanSwitchOut, Current
  <2>2. outcome' = "runs"
    BY ZenonT(60), <1>2 DEF Suspend, Exit, Directed
  <2>3. CASE Suspend
    <3>1. SwitchOut(cpu, FALSE) /\ ended' = ended
      BY ZenonT(60), <1>2, <2>3 DEF Suspend
    <3>2. Sound'
      BY ZenonT(60), <2>1, <2>2, <3>1, SwitchOutStep
    <3> QED BY <3>2, SoundIsInvNext
  <2>4. CASE Exit
    <3>1. SwitchOut(cpu, TRUE) /\ ended' = ended \cup {cpu}
      BY ZenonT(60), <1>2, <2>4 DEF Exit
    <3>2. Sound'
      BY ZenonT(60), <2>1, <2>2, <3>1, SwitchOutStep
    <3> QED BY <3>2, SoundIsInvNext
  <2> QED BY <2>3, <2>4
<1>3. CASE CanSwitchOut(Current) /\ Current # cpu
  <2>1. outcome' = "misdirected"
    BY ZenonT(60), <1>3 DEF Suspend, Exit, Directed
  <2>2. CASE Suspend
    BY ZenonT(60), <1>3, <2>1, <2>2, MisdirectedStep DEF Suspend
  <2>3. CASE Exit
    BY ZenonT(60), <1>3, <2>1, <2>3, MisdirectedStep DEF Exit
  <2> QED BY <2>2, <2>3
<1> QED BY <1>1, <1>2, <1>3

\* Every step preserves the invariant.
LEMMA InvNext == Inv /\ [Next]_vars => Inv'
<1> SUFFICES ASSUME Inv, [Next]_vars
             PROVE  Inv'
  OBVIOUS
<1>1. CASE UNCHANGED vars
  <2>1. TypeOK = TypeOK' /\ (ThreadPointerKept = ThreadPointerKept')
        /\ (EndingNeverFaults = EndingNeverFaults') /\ outcome' = outcome
    BY SMTT(30), <1>1
    DEF vars, record, history, TypeOK, ThreadPointerKept, EndingNeverFaults
  <2>2. (FramesPaired = FramesPaired') /\ (RequestFromResumed = RequestFromResumed')
    BY SMTT(30), <1>1 DEF vars, record, history, FramesPaired, RequestFromResumed
  <2>3. StoppedOnOwnStack = StoppedOnOwnStack' /\ (cpu \notin ended => cpu' \notin ended')
    BY SMTT(30), <1>1 DEF vars, record, history, StoppedOnOwnStack
  <2>4. ChainInv = ChainInv'
    BY SMTT(30), <1>1, <2>2 DEF vars, record, history, ChainInv, Active
  <2>5. StoppedInv = StoppedInv' /\ (ViewInv = ViewInv')
    BY SMTT(30), <1>1, <2>1 DEF vars, record, history, StoppedInv, ViewInv, Active
  <2> QED
    BY ZenonT(60), <2>1, <2>2, <2>3, <2>4, <2>5 DEF Inv, Sound
<1>2. CASE Next
  <2> outcome = "runs" /\ Sound
    BY <1>2 DEF Next, Inv
  <2>1. ASSUME NEW f \in Fibers, Spawn(f) PROVE Inv'
    BY <2>1, SpawnStep, SoundIsInvNext
  <2>2. ASSUME NEW f \in Fibers, Destroy(f) PROVE Inv'
    BY <2>2, DestroyStep, SoundIsInvNext
  <2>3. ASSUME NEW f \in Fibers, Resume(f) PROVE Inv'
    BY <2>3, ResumeStep, SoundIsInvNext
  <2>4. ASSUME NEW b \in Blocks, Install(b) PROVE Inv'
    BY <2>4, InstallStep, SoundIsInvNext
  <2>5. CASE Suspend \/ Exit
    BY <2>5, LeaveStep
  <2>7. CASE ReturnFromEntry
    BY ZenonT(60), <2>7, CanEnd, SwitchOutStep, SoundIsInvNext DEF ReturnFromEntry
  <2>8. CASE ProcessExit
    BY ZenonT(60), <2>8, CanEnd, SwitchOutStep, SoundIsInvNext DEF ProcessExit
  <2> QED
    BY <1>2, <2>1, <2>2, <2>3, <2>4, <2>5, <2>7, <2>8 DEF Next
<1> QED
  BY <1>1, <1>2

\* The invariant always holds.
LEMMA InvAlways == Spec => []Inv
<1>1. Init => Inv
  BY SoundInit, SoundIsInv
<1> QED
  BY <1>1, InvNext, PTL DEF Spec

\* Whatever a stack resumes and whatever blocks the resumed fibers install,
\* other fibers' among them, it continues with the thread pointer it left
\* (fiber.c:96-101), for any nesting.
THEOREM ResumeKeepsThreadPointer == Spec => [](TypeOK /\ ThreadPointerKept)
<1>1. Inv => TypeOK /\ ThreadPointerKept
  BY DEF Inv
<1> QED
  BY <1>1, InvAlways, PTL

\* return_to and the frame it points at live and die together, and the pending
\* resumes form one chain to the running stack (fiber.c:94, 113), which only a
\* suspension under the block of another fiber on the chain breaks.
THEOREM ReturnFramesLive == Spec => []FramesPaired
<1>1. Inv => FramesPaired
  BY DEF Inv
<1> QED
  BY <1>1, InvAlways, PTL

\* A stopped fiber's context is its own stack's, however resumes were nested
\* and whatever blocks were installed (fiber.c:106-114); the one call that
\* saves a stack in another fiber's record is a suspension or an exit under the
\* block of a fiber that is being resumed, and it spoils that record alone.
THEOREM StoppedKeepStacks == Spec => []StoppedOnOwnStack
<1>1. Inv => StoppedOnOwnStack
  BY DEF Inv
<1> QED
  BY <1>1, InvAlways, PTL

\* A fiber that has ended is never on the processor again (fiber.h:98).
THEOREM EndedStayEnded == Spec => []EndedNeverRuns
<1>1. Inv => EndedNeverRuns
  BY DEF Inv, EndedNeverRuns
<1> QED
  BY <1>1, InvAlways, PTL

\* A request carries the fiber on whose stack it lies (fiber.c:114).
THEOREM RequestsNameTheirFiber == Spec => []RequestFromResumed
<1>1. Inv => RequestFromResumed
  BY DEF Inv, Sound, RequestFromResumed
<1> QED
  BY <1>1, InvAlways, PTL

\* A return from an entry or from main reaches its resumer with any block
\* installed (fiber.c:10-11).
THEOREM EndingReachesResumer == Spec => []EndingNeverFaults
<1>1. Inv => EndingNeverFaults
  BY DEF Inv
<1> QED
  BY <1>1, InvAlways, PTL

-----------------------------------------------------------------------------
(* memmove, memcpy and memset.                                             *)

\* The bytes of the destination that have been stored so far.
Stored == IF Up THEN d .. d + i - 1 ELSE d + i .. d + n - 1

\* The ranges a running function was called with lie in the memory, and those
\* of memcpy are disjoint.
RangesInv ==
  /\ d \in Addresses /\ s \in Addresses /\ n \in 0 .. Size /\ c \in Int
  /\ d + n <= Size /\ (fn # "memset" => s + n <= Size)
  /\ fn = "memcpy" => d + n <= s \/ s + n <= d
  /\ i \in 0 .. n

\* MovedWhole speaks of the return only: in between, the bytes stored are as
\* promised and all the others are those of the call.
MoveInv ==
  /\ mem \in [Addresses -> Byte] /\ before \in [Addresses -> Byte]
  /\ fn \in {"none", "memmove", "memcpy", "memset"}
  /\ fn # "none" =>
       /\ RangesInv
       /\ \A a \in Addresses :
            mem[a] = IF a \in Stored THEN Promised(a - d) ELSE before[a]

\* No function runs at first.
LEMMA MoveInvInit == StringsInit => MoveInv
BY DEF StringsInit, MoveInit, MoveInv

\* A call has stored nothing yet.
LEMMA MoveInvCall ==
  ASSUME MoveInv, NEW to \in Addresses, NEW from \in Addresses,
         NEW length \in 0 .. Size, NEW value \in Values,
         \/ Memmove(to, from, length)
         \/ Memcpy(to, from, length)
         \/ Memset(to, value, length)
  PROVE  MoveInv'
<1>1. /\ mem' = mem /\ before' = mem
      /\ fn' \in {"memmove", "memcpy", "memset"}
  BY DEF Memmove, Memcpy, Memset, Arguments
<1>2. RangesInv' /\ Stored' = {}
  <2>1. CASE Memmove(to, from, length)
    BY <2>1, ObjectAssumption
    DEF Memmove, Arguments, RangesInv, Stored, Up, Ascends, Addresses
  <2>2. CASE Memcpy(to, from, length)
    BY <2>2, ObjectAssumption
    DEF Memcpy, Arguments, RangesInv, Stored, Up, Addresses
  <2>3. CASE Memset(to, value, length)
    BY <2>3, ObjectAssumption
    DEF Memset, Arguments, RangesInv, Stored, Up, Addresses, Values
  <2>. QED BY <2>1, <2>2, <2>3
<1>. QED BY <1>1, <1>2 DEF MoveInv

\* The source byte the next store reads has not been stored to: whatever the
\* overlap, the loop goes in the direction that leaves it alone.
LEMMA SourceUntouched ==
  ASSUME MoveInv, fn \in {"memmove", "memcpy"}
  PROVE  /\ Up /\ i < n => mem[s + i] = before[s + i]
         /\ ~Up /\ i > 0 => mem[s + i - 1] = before[s + i - 1]
<1>1. /\ d \in Nat /\ s \in Nat /\ n \in Nat /\ i \in 0 .. n /\ Size \in Nat
      /\ s + n <= Size /\ (fn = "memcpy" => d + n <= s \/ s + n <= d)
  BY ObjectAssumption DEF MoveInv, RangesInv, Addresses
<1>2. ASSUME Up, i < n PROVE s + i \in Addresses /\ s + i \notin Stored
  <2>1. s + i \in Addresses
    BY <1>1, <1>2 DEF Addresses
  <2>2. d + n <= s \/ s + n <= d \/ d < s
    BY <1>1, <1>2 DEF Up, Ascends
  <2>3. s + i \notin d .. d + i - 1
    BY <1>1, <1>2, <2>2
  <2>. QED BY <1>2, <2>1, <2>3 DEF Stored
<1>3. ASSUME ~Up, i > 0 PROVE s + i - 1 \in Addresses /\ s + i - 1 \notin Stored
  <2>1. s + i - 1 \in Addresses
    BY <1>1, <1>3 DEF Addresses
  <2>2. ~(d < s)
    BY <1>3 DEF Up, Ascends
  <2>3. s + i - 1 \notin d + i .. d + n - 1
    BY <1>1, <1>3, <2>2
  <2>. QED BY <1>3, <2>1, <2>3 DEF Stored
<1>. QED BY <1>2, <1>3 DEF MoveInv

\* A store puts the promised byte at the next address and leaves the rest.
LEMMA MoveInvStore ==
  ASSUME MoveInv, fn # "none", NEW at_store \in Addresses, NEW byte \in Byte,
         mem' = [mem EXCEPT ![at_store] = byte],
         UNCHANGED <<fn, d, s, n, c, before>>, i' \in 0 .. n,
         Stored' = Stored \cup {at_store}, byte = Promised(at_store - d)
  PROVE  MoveInv'
<1>1. Up' = Up /\ \A a \in Addresses : Promised(a - d)' = Promised(a - d)
  BY DEF Up, Ascends, Promised
<1>2. RangesInv'
  BY DEF MoveInv, RangesInv
<1>. QED BY <1>1, <1>2 DEF MoveInv

\* Every step of a running function keeps the invariant.
LEMMA MoveInvNext == MoveInv /\ [StringsNext]_<<moveVars, compareVars>> => MoveInv'
<1>. SUFFICES ASSUME MoveInv, [StringsNext]_<<moveVars, compareVars>> PROVE MoveInv'
  OBVIOUS
<1>. USE ObjectAssumption
<1>1. ASSUME StoreUp PROVE MoveInv'
  <2>. DEFINE byte == IF fn = "memset" THEN UnsignedChar(c) ELSE mem[s + i]
  <2>1. RangesInv /\ fn # "none" /\ Up /\ i < n
    BY <1>1 DEF StoreUp, MoveInv
  <2>2. d + i \in Addresses /\ i + 1 \in 0 .. n /\ (d + i) - d = i
    BY <2>1 DEF RangesInv, Addresses
  <2>3. Stored' = Stored \cup {d + i}
    BY <1>1, <2>1 DEF StoreUp, RangesInv, Stored, Up, Ascends, Addresses
  <2>4. byte = Promised((d + i) - d) /\ byte \in Byte
    <3>1. CASE fn = "memset"
      BY <2>1, <3>1 DEF RangesInv, Promised, UnsignedChar, Byte
    <3>2. CASE fn # "memset"
      <4>1. fn \in {"memmove", "memcpy"} /\ s + i \in Addresses
        BY <2>1, <3>2 DEF MoveInv, RangesInv, Addresses
      <4>2. mem[s + i] = before[s + i]
        BY <2>1, <4>1, SourceUntouched
      <4>. QED BY <2>2, <3>2, <4>1, <4>2 DEF Promised, MoveInv
    <3>. QED BY <3>1, <3>2
  <2>5. mem' = [mem EXCEPT ![d + i] = byte] /\ UNCHANGED <<fn, d, s, n, c, before>>
        /\ i' \in 0 .. n
    BY <1>1, <2>2 DEF StoreUp
  <2>. HIDE DEF byte
  <2>. QED BY ZenonT(60), <2>1, <2>2, <2>3, <2>4, <2>5, MoveInvStore
<1>2. ASSUME StoreDown PROVE MoveInv'
  <2>1. RangesInv /\ fn = "memmove" /\ ~Up /\ i > 0
    BY <1>2 DEF StoreDown, MoveInv, Up
  <2>2. /\ d + i - 1 \in Addresses /\ i - 1 \in 0 .. n /\ (d + i - 1) - d = i - 1
        /\ s + i - 1 \in Addresses /\ s + (i - 1) = s + i - 1
    BY <2>1 DEF RangesInv, Addresses
  <2>3. Stored' = Stored \cup {d + i - 1}
    BY <1>2, <2>1 DEF StoreDown, RangesInv, Stored, Up, Ascends, Addresses
  <2>4. mem[s + i - 1] = Promised((d + i - 1) - d) /\ mem[s + i - 1] \in Byte
    BY <2>1, <2>2, SourceUntouched DEF Promised, MoveInv
  <2>5. mem' = [mem EXCEPT ![d + i - 1] = mem[s + i - 1]]
        /\ UNCHANGED <<fn, d, s, n, c, before>> /\ i' \in 0 .. n
    BY <1>2, <2>2 DEF StoreDown
  <2>. QED BY ZenonT(60), <2>1, <2>2, <2>3, <2>4, <2>5, MoveInvStore
<1>3. CASE MoveReturns
  BY <1>3 DEF MoveReturns, MoveInv
<1>4. CASE UNCHANGED moveVars
  BY <1>4 DEF moveVars, MoveInv, RangesInv, Stored, Promised, Up, Ascends
<1>5. ASSUME NEW to \in Addresses, NEW length \in 0 .. Size,
             \/ \E from \in Addresses : Memmove(to, from, length) \/ Memcpy(to, from, length)
             \/ \E value \in Values : Memset(to, value, length)
      PROVE  MoveInv'
  <2>1. to \in Addresses /\ 0 \in Values
    BY ObjectAssumption DEF Values
  <2>. QED BY <1>5, <2>1, MoveInvCall
<1>. QED BY <1>1, <1>2, <1>3, <1>4, <1>5 DEF StringsNext, CompareNext, MoveNext, MoveStep

\* memmove, memcpy and memset return with the whole destination written from
\* the bytes of the call and nothing else touched, for any memory and any
\* overlap (memmove.c:8-16, memcpy.c:6-8, memset.c:5-7).
THEOREM MoveIsWhole == StringsSpec => []MovedWhole
<1>1. MoveInv => MovedWhole
  <2>. SUFFICES ASSUME MoveInv, Done PROVE MovedWhole
    BY DEF MovedWhole
  <2>1. fn # "none" /\ Stored = d .. d + n - 1
    BY DEF MoveInv, Done, RangesInv, Stored, Addresses
  <2>. QED BY <2>1 DEF MoveInv, MovedWhole
<1>. QED BY <1>1, MoveInvInit, MoveInvNext, PTL DEF StringsSpec

(* memcmp: numbers and their digits.                                      *)

\* The sizes one by one.
LEMMA ObjectSizes ==
  /\ UcharRange \in Nat \ {0} /\ Scalar \in Nat \ {0} /\ Block \in Nat \ {0}
  /\ Size \in Nat
BY ObjectAssumption

\* What the leading digits make: the recursion has a solution.
LEMMA LeadingUnfolds ==
  ASSUME NEW digit \in [1 .. Scalar -> Nat]
  PROVE  /\ Leading(digit) \in [0 .. Scalar -> Nat] /\ Leading(digit)[0] = 0
         /\ \A k \in 1 .. Scalar : Leading(digit)[k] = Leading(digit)[k - 1] * UcharRange + digit[k]
<1>. DEFINE G == [k \in 1 .. Scalar |-> [y \in Nat |-> y * UcharRange + digit[k]]]
            none == 0
            Is(v) == v = [k \in 0 .. Scalar |-> IF k = 0 THEN none ELSE v[k - 1] * UcharRange + digit[k]]
            H == Leading(digit)
<1>1. \A y \in Nat, k \in 1 .. Scalar : y * UcharRange + digit[k] \in Nat
  BY ObjectSizes
<1>2. G \in [1 .. Scalar -> [Nat -> Nat]]
  BY <1>1
<1>3. H = CHOOSE u : Is(u)
  BY DEF Leading
<1>4. Scalar \in Nat /\ none \in Nat
  BY ObjectSizes
<1>. HIDE DEF none
<1>5. \E v : Is(v)
  <2>1. PICK v \in [0 .. Scalar -> Nat] : v[0] = none /\ \A k \in 1 .. Scalar : v[k] = G[k][v[k - 1]]
    <3>. HIDE DEF G
    <3>. QED BY <1>2, <1>4, IterationExists, ZenonT(60)
  <2>2. ASSUME NEW k \in 0 .. Scalar
        PROVE  v[k] = IF k = 0 THEN none ELSE v[k - 1] * UcharRange + digit[k]
    <3>1. k # 0 => k \in 1 .. Scalar /\ k - 1 \in 0 .. Scalar
      BY <1>4
    <3>2. k # 0 => v[k - 1] \in Nat
      BY <3>1
    <3>. QED BY <2>1, <3>1, <3>2, ZenonT(60)
  <2>3. v = [k \in 0 .. Scalar |-> v[k]]
    OBVIOUS
  <2>4. Is(v)
    BY <2>2, <2>3, ZenonT(60)
  <2>. HIDE DEF Is
  <2>. QED BY <2>4, ZenonT(60)
<1>6. Is(H)
  <2>. HIDE DEF Is, H
  <2>. QED BY <1>3, <1>5, ZenonT(60)
<1>7. /\ H = [k \in 0 .. Scalar |-> H[k]] /\ H[0] = none
      /\ \A k \in 1 .. Scalar : H[k] = H[k - 1] * UcharRange + digit[k]
  <2>1. 0 \in 0 .. Scalar /\ \A k \in 1 .. Scalar : k \in 0 .. Scalar /\ k # 0
    BY <1>4
  <2>. HIDE DEF H
  <2>2. H = [k \in 0 .. Scalar |-> IF k = 0 THEN none ELSE H[k - 1] * UcharRange + digit[k]]
    BY <1>6, ZenonT(60)
  <2>. QED BY <2>1, <2>2, ZenonT(60)
<1>8. \A k \in 1 .. Scalar : H[k - 1] \in Nat => H[k] = G[k][H[k - 1]]
  BY <1>7, ZenonT(60)
<1>9. H \in [0 .. Scalar -> Nat]
  <2>. HIDE DEF G, H
  <2>. QED BY <1>2, <1>4, <1>7, <1>8, IterationUnique, ZenonT(120)
<1>. QED BY <1>7, <1>9, ZenonT(60) DEF none

\* The same of repeated shifts.
LEMMA ShiftedUnfolds ==
  ASSUME NEW x \in Nat
  PROVE  /\ Shifted(x) \in [0 .. Scalar -> Nat] /\ Shifted(x)[0] = x
         /\ \A k \in 1 .. Scalar : Shifted(x)[k] = Shifted(x)[k - 1] \div UcharRange
<1>. DEFINE G == [k \in 1 .. Scalar |-> [y \in Nat |-> y \div UcharRange]]
            Is(v) == v = [k \in 0 .. Scalar |-> IF k = 0 THEN x ELSE v[k - 1] \div UcharRange]
            Q == Shifted(x)
<1>1. \A y \in Nat : y \div UcharRange \in Nat
  BY ObjectSizes, Division
<1>2. G \in [1 .. Scalar -> [Nat -> Nat]]
  BY <1>1
<1>3. \E v : Is(v)
  <2>1. Scalar \in Nat
    BY ObjectSizes
  <2>2. PICK v \in [0 .. Scalar -> Nat] : v[0] = x /\ \A k \in 1 .. Scalar : v[k] = G[k][v[k - 1]]
    <3>. HIDE DEF G
    <3>. QED BY <1>2, <2>1, IterationExists, ZenonT(60)
  <2>3. ASSUME NEW k \in 0 .. Scalar
        PROVE  v[k] = IF k = 0 THEN x ELSE v[k - 1] \div UcharRange
    <3>1. k # 0 => k \in 1 .. Scalar /\ k - 1 \in 0 .. Scalar
      BY <2>1
    <3>2. k # 0 => v[k - 1] \in Nat
      BY <3>1
    <3>. QED BY <2>2, <3>1, <3>2, ZenonT(60)
  <2>4. v = [k \in 0 .. Scalar |-> v[k]]
    OBVIOUS
  <2>5. Is(v)
    BY <2>3, <2>4, ZenonT(60)
  <2>. QED BY ZenonT(60), <2>5
<1>4. Is(Q)
  <2>1. Q = CHOOSE u : Is(u)
    BY DEF Shifted
  <2>. HIDE DEF Is
  <2>. QED BY <1>3, <2>1, ZenonT(60)
<1>5. /\ Q = [k \in 0 .. Scalar |-> Q[k]] /\ Q[0] = x
      /\ \A k \in 1 .. Scalar : Q[k] = Q[k - 1] \div UcharRange
  <2>1. 0 \in 0 .. Scalar /\ \A k \in 1 .. Scalar : k \in 0 .. Scalar /\ k # 0
    BY ObjectSizes
  <2>. HIDE DEF Q
  <2>2. Q = [k \in 0 .. Scalar |-> IF k = 0 THEN x ELSE Q[k - 1] \div UcharRange]
    BY <1>4, ZenonT(60)
  <2>. QED BY <2>1, <2>2, ZenonT(60)
<1>6. \A k \in 1 .. Scalar : Q[k - 1] \in Nat => Q[k] = G[k][Q[k - 1]]
  BY <1>5, ZenonT(60)
<1>7. Q \in [0 .. Scalar -> Nat]
  <2>1. Scalar \in Nat
    BY ObjectSizes
  <2>. HIDE DEF G, Q
  <2>. QED BY <1>2, <1>5, <1>6, <2>1, IterationUnique, ZenonT(120)
<1>. QED BY ZenonT(60), <1>5, <1>7

\* Shifting a number drops its last digit, which is the remainder.
LEMMA LeadingShift ==
  ASSUME NEW digit \in [1 .. Scalar -> Byte], NEW k \in 1 .. Scalar
  PROVE  /\ Leading(digit)[k] \div UcharRange = Leading(digit)[k - 1]
         /\ Leading(digit)[k] % UcharRange = digit[k]
<1>. DEFINE H == Leading(digit)
<1>0. digit \in [1 .. Scalar -> Nat] /\ k - 1 \in 0 .. Scalar /\ digit[k] \in 0 .. UcharRange - 1
  BY ObjectSizes DEF Byte
<1>1. H[k - 1] \in Nat /\ H[k] = H[k - 1] * UcharRange + digit[k]
  BY ZenonT(60), <1>0, LeadingUnfolds
<1>. HIDE DEF H
<1>2. H[k] = UcharRange * H[k - 1] + digit[k]
  BY <1>0, <1>1, ObjectSizes
<1>3. H[k - 1] \in Int
  BY <1>1
<1>4. H[k] \div UcharRange = H[k - 1] /\ H[k] % UcharRange = digit[k]
  BY <1>0, <1>2, <1>3, ObjectSizes, RemainderUnique, ZenonT(60)
<1>. QED BY <1>4 DEF H

\* The bytes of a number are its digits, the last one first.
LEMMA ShiftedDigits ==
  ASSUME NEW digit \in [1 .. Scalar -> Byte]
  PROVE  \A j \in 0 .. Scalar : Shifted(Leading(digit)[Scalar])[j] = Leading(digit)[Scalar - j]
<1>. DEFINE H == Leading(digit)
            Q == Shifted(H[Scalar])
            Parts == {j \in 0 .. Scalar : Q[j] # H[Scalar - j]}
<1>0. digit \in [1 .. Scalar -> Nat] /\ Scalar \in 0 .. Scalar /\ Scalar \in Nat
  BY ObjectSizes DEF Byte
<1>1. H[Scalar] \in Nat
  BY <1>0, LeadingUnfolds
<1>2. Q[0] = H[Scalar] /\ \A k \in 1 .. Scalar : Q[k] = Q[k - 1] \div UcharRange
  BY <1>1, ShiftedUnfolds
<1>3. \A k \in 1 .. Scalar : H[k] \div UcharRange = H[k - 1]
  BY LeadingShift
<1>. HIDE DEF H, Q
<1>4. Parts = {}
  <2>. SUFFICES ASSUME Parts # {} PROVE FALSE
    OBVIOUS
  <2>1. Parts \in SUBSET Nat
    OBVIOUS
  <2>2. PICK j \in Parts : \A y \in Parts : j <= y
    <3>. HIDE DEF Parts
    <3>. QED BY <2>1, LeastNatural, ZenonT(60)
  <2>3. j # 0
    BY <1>2, <1>0
  <2>4. j \in 1 .. Scalar /\ j - 1 \in 0 .. Scalar /\ ~(j <= j - 1)
    BY <1>0, <2>3
  <2>5. /\ Scalar - (j - 1) \in 1 .. Scalar
        /\ Scalar - (j - 1) - 1 = Scalar - j
    BY <1>0, <2>4
  <2>6. Q[j - 1] = H[Scalar - (j - 1)]
    BY <2>2, <2>4, ZenonT(60)
  <2>7. Q[j] = H[Scalar - j]
    BY <1>2, <1>3, <2>4, <2>5, <2>6, ZenonT(60)
  <2>. QED BY <2>7
<1>. QED BY <1>4 DEF H, Q

\* Of two numbers, the first digit that differs decides.
LEMMA LeadingOrder ==
  ASSUME NEW a \in [1 .. Scalar -> Byte], NEW b \in [1 .. Scalar -> Byte], NEW p \in 1 .. Scalar,
         \A k \in 1 .. p - 1 : a[k] = b[k], a[p] < b[p]
  PROVE  Leading(a)[Scalar] < Leading(b)[Scalar]
<1>. DEFINE A == Leading(a)
            B == Leading(b)
<1>0. a \in [1 .. Scalar -> Nat] /\ b \in [1 .. Scalar -> Nat] /\ Scalar \in Nat
  BY ObjectSizes DEF Byte
<1>1. A \in [0 .. Scalar -> Nat] /\ A[0] = 0 /\ \A k \in 1 .. Scalar : A[k] = A[k - 1] * UcharRange + a[k]
  BY ZenonT(60), <1>0, LeadingUnfolds
<1>2. B \in [0 .. Scalar -> Nat] /\ B[0] = 0 /\ \A k \in 1 .. Scalar : B[k] = B[k - 1] * UcharRange + b[k]
  BY ZenonT(60), <1>0, LeadingUnfolds
<1>. HIDE DEF A, B
<1>3. \A k \in 0 .. p - 1 : A[k] = B[k]
  <2>. DEFINE Parts == {k \in 0 .. p - 1 : A[k] # B[k]}
  <2>. SUFFICES ASSUME Parts # {} PROVE FALSE
    OBVIOUS
  <2>1. Parts \in SUBSET Nat
    OBVIOUS
  <2>2. PICK j \in Parts : \A y \in Parts : j <= y
    <3>. HIDE DEF Parts
    <3>. QED BY <2>1, LeastNatural, ZenonT(60)
  <2>3. j # 0
    BY <1>1, <1>2
  <2>4. j \in 1 .. p - 1 /\ j \in 1 .. Scalar /\ j - 1 \in 0 .. p - 1 /\ ~(j <= j - 1)
    BY <1>0, <2>3
  <2>5. A[j - 1] = B[j - 1]
    BY <2>2, <2>4, ZenonT(60)
  <2>6. A[j] = B[j]
    BY <1>1, <1>2, <2>4, <2>5, ZenonT(60)
  <2>. QED BY <2>6
<1>4. \A x, y \in Nat, e, f \in Byte :
        /\ x < y => x * UcharRange + e < y * UcharRange + f
        /\ e < f => x * UcharRange + e < x * UcharRange + f
  <2>. TAKE x, y \in Nat, e, f \in Byte
  <2>1. e \in Nat /\ f \in Nat /\ e < UcharRange /\ UcharRange \in Nat /\ x * UcharRange \in Nat
    BY ObjectSizes DEF Byte
  <2>2. ASSUME x < y PROVE x * UcharRange + UcharRange <= y * UcharRange
    <3>. DEFINE z == y - x - 1
    <3>1. z \in Nat /\ y = x + 1 + z
      BY <2>2
    <3>. HIDE DEF z
    <3>2. (x + 1 + z) * UcharRange = x * UcharRange + UcharRange + z * UcharRange /\ z * UcharRange \in Nat
      BY <2>1, <3>1, SMTT(30)
    <3>. QED BY <2>1, <3>1, <3>2
  <2>3. y * UcharRange \in Nat
    BY <2>1
  <2>. QED BY <2>1, <2>2, <2>3
<1>5. A[p] < B[p]
  <2>1. p - 1 \in 0 .. p - 1 /\ p - 1 \in 0 .. Scalar
    BY <1>0
  <2>2. A[p - 1] = B[p - 1] /\ A[p - 1] \in Nat
    BY <1>1, <1>3, <2>1
  <2>3. a[p] \in Byte /\ b[p] \in Byte
    OBVIOUS
  <2>. QED BY <1>1, <1>2, <1>4, <2>2, <2>3, ZenonT(60)
<1>6. \A k \in p .. Scalar : A[k] < B[k]
  <2>. DEFINE Parts == {k \in p .. Scalar : ~(A[k] < B[k])}
  <2>. SUFFICES ASSUME Parts # {} PROVE FALSE
    OBVIOUS
  <2>1. Parts \in SUBSET Nat
    BY <1>0
  <2>2. PICK j \in Parts : \A y \in Parts : j <= y
    <3>. HIDE DEF Parts
    <3>. QED BY <2>1, LeastNatural, ZenonT(60)
  <2>3. j # p
    BY <1>5
  <2>4. j \in 1 .. Scalar /\ j - 1 \in p .. Scalar /\ j - 1 \in 0 .. Scalar /\ ~(j <= j - 1)
    BY <1>0, <2>3
  <2>5. A[j - 1] < B[j - 1]
    BY <2>2, <2>4, ZenonT(60)
  <2>6. A[j - 1] \in Nat /\ B[j - 1] \in Nat /\ a[j] \in Byte /\ b[j] \in Byte
    BY SMTT(30), <1>1, <1>2, <2>4
  <2>7. A[j] < B[j]
    BY <1>1, <1>2, <1>4, <2>4, <2>5, <2>6, ZenonT(60)
  <2>. QED BY <2>7
<1>7. Scalar \in p .. Scalar
  BY <1>0
<1>. QED BY <1>6, <1>7 DEF A, B

\* Swapping the bytes of a little-endian load gives the number the bytes make
\* in memory order.
LEMMA BswapLoad ==
  ASSUME at \in Nat, NEW object, \A k \in 1 .. Scalar : object[at + k - 1] \in Byte
  PROVE  Bswap(Load(object)) = Number([k \in 1 .. Scalar |-> object[at + k - 1]])
<1>. DEFINE low == [k \in 1 .. Scalar |-> object[at + Scalar - k]]
            x == Load(object)
<1>1. \A k \in 1 .. Scalar : /\ Scalar - (k - 1) \in 1 .. Scalar /\ k - 1 \in 0 .. Scalar
                             /\ at + Scalar - k = at + (Scalar - (k - 1)) - 1
                             /\ at + Scalar - (Scalar - (k - 1)) = at + k - 1
  BY ObjectSizes
<1>2. low \in [1 .. Scalar -> Byte]
  <2>1. \A k \in 1 .. Scalar : object[at + Scalar - k] \in Byte
    BY <1>1, ZenonT(60)
  <2>. QED BY <2>1
<1>3. x = Leading(low)[Scalar]
  BY DEF Load, Number
<1>. HIDE DEF x
<1>4. ASSUME NEW k \in 1 .. Scalar PROVE Shifted(x)[k - 1] % UcharRange = object[at + k - 1]
  <2>1. low[Scalar - (k - 1)] = object[at + k - 1]
    BY <1>1, ZenonT(60)
  <2>. HIDE DEF low
  <2>2. Shifted(x)[k - 1] = Leading(low)[Scalar - (k - 1)]
    BY <1>1, <1>2, <1>3, ShiftedDigits, ZenonT(60)
  <2>3. Leading(low)[Scalar - (k - 1)] % UcharRange = low[Scalar - (k - 1)]
    BY <1>1, <1>2, LeadingShift, ZenonT(60)
  <2>. QED BY <2>1, <2>2, <2>3
<1>5. [k \in 1 .. Scalar |-> Shifted(x)[k - 1] % UcharRange] = [k \in 1 .. Scalar |-> object[at + k - 1]]
  BY <1>4, ZenonT(60)
<1>6. Bswap(x) = Number([k \in 1 .. Scalar |-> object[at + k - 1]])
  BY <1>5, ZenonT(60) DEF Bswap
<1>. QED BY <1>6 DEF x

\* Up to the offset the objects agree, whichever of the loops has got there.
CompareInv ==
  /\ phase \in {"idle", "block", "scalar", "byte", "done"}
  /\ phase # "idle" =>
       /\ at \in Nat /\ left \in Nat
       /\ lhs \in [0 .. at + left - 1 -> Byte] /\ rhs \in [0 .. at + left - 1 -> Byte]
       /\ \A k \in 0 .. at - 1 : lhs[k] = rhs[k]
  /\ phase = "done" => result = Ordered

\* The order is that of the first difference.
LEMMA OrderedBy ==
  ASSUME CompareInv, phase # "idle", NEW p \in 0 .. at + left - 1,
         \A k \in 0 .. p - 1 : lhs[k] = rhs[k], lhs[p] # rhs[p]
  PROVE  Ordered = IF lhs[p] < rhs[p] THEN -1 ELSE 1
<1>1. at \in Nat /\ left \in Nat /\ DOMAIN lhs = 0 .. at + left - 1
  BY DEF CompareInv
<1>2. p \in Differ /\ Differ \subseteq Nat
  BY <1>1 DEF Differ
<1>3. \A y \in Differ : p <= y
  <2>. SUFFICES ASSUME NEW y \in Differ, ~(p <= y) PROVE FALSE
    OBVIOUS
  <2>1. y \in 0 .. p - 1
    BY <1>1, <1>2
  <2>. QED BY <2>1 DEF Differ
<1>4. Min(Differ) = p
  <2>1. \A x \in Nat : p <= x /\ x <= p => x = p
    BY <1>1
  <2>. QED BY ZenonT(60), <1>2, <1>3, <2>1 DEF Min
<1>. QED BY <1>2, <1>4 DEF Ordered

\* Two scalars are equal exactly when their bytes are, and the swapped numbers
\* compare as the first bytes that differ do.
LEMMA ScalarDecides ==
  ASSUME CompareInv, phase = "scalar", left >= Scalar
  PROVE  /\ Load(lhs) = Load(rhs) => \A k \in 0 .. Scalar - 1 : lhs[at + k] = rhs[at + k]
         /\ Load(lhs) # Load(rhs) =>
              Ordered = IF Bswap(Load(lhs)) < Bswap(Load(rhs)) THEN -1 ELSE 1
<1>. DEFINE a == [k \in 1 .. Scalar |-> lhs[at + k - 1]]
            b == [k \in 1 .. Scalar |-> rhs[at + k - 1]]
            Parts == {k \in 1 .. Scalar : lhs[at + k - 1] # rhs[at + k - 1]}
<1>1. /\ at \in Nat /\ left \in Nat
      /\ lhs \in [0 .. at + left - 1 -> Byte] /\ rhs \in [0 .. at + left - 1 -> Byte]
      /\ \A k \in 0 .. at - 1 : lhs[k] = rhs[k]
  BY DEF CompareInv
<1>2. \A k \in 1 .. Scalar : at + k - 1 \in 0 .. at + left - 1
  BY <1>1, ObjectSizes
<1>3. \A k \in 1 .. Scalar : lhs[at + k - 1] \in Byte /\ rhs[at + k - 1] \in Byte
  BY <1>1, <1>2
<1>4. a \in [1 .. Scalar -> Byte] /\ b \in [1 .. Scalar -> Byte]
  BY <1>3
<1>5. Bswap(Load(lhs)) = Leading(a)[Scalar] /\ Bswap(Load(rhs)) = Leading(b)[Scalar]
  BY <1>1, <1>3, BswapLoad, ZenonT(60) DEF Number
<1>6. CASE Parts = {}
  <2>1. \A k \in 0 .. Scalar - 1 : k + 1 \in 1 .. Scalar /\ at + (k + 1) - 1 = at + k
    BY <1>1, ObjectSizes
  <2>2. \A k \in 0 .. Scalar - 1 : lhs[at + k] = rhs[at + k]
    BY <1>6, <2>1, ZenonT(60)
  <2>3. \A k \in 1 .. Scalar : Scalar - k \in 0 .. Scalar - 1 /\ at + (Scalar - k) = at + Scalar - k
    BY <1>1, ObjectSizes
  <2>4. \A k \in 1 .. Scalar : lhs[at + Scalar - k] = rhs[at + Scalar - k]
    BY <2>2, <2>3, ZenonT(60)
  <2>5. [k \in 1 .. Scalar |-> lhs[at + Scalar - k]] = [k \in 1 .. Scalar |-> rhs[at + Scalar - k]]
    BY <2>4, ZenonT(60)
  <2>6. Load(lhs) = Load(rhs)
    BY <2>5, ZenonT(60) DEF Load
  <2>. QED BY <2>2, <2>6
<1>7. CASE Parts # {}
  <2>1. Parts \in SUBSET Nat
    OBVIOUS
  <2>2. PICK p \in Parts : \A y \in Parts : p <= y
    <3>. HIDE DEF Parts
    <3>. QED BY <1>7, <2>1, LeastNatural, ZenonT(60)
  <2>3. p \in 1 .. Scalar /\ lhs[at + p - 1] # rhs[at + p - 1]
    OBVIOUS
  <2>4. \A k \in 1 .. p - 1 : lhs[at + k - 1] = rhs[at + k - 1]
    <3>. SUFFICES ASSUME NEW k \in 1 .. p - 1, k \in Parts PROVE FALSE
      BY <2>3, ObjectSizes
    <3>. QED BY <2>2, <2>3, ObjectSizes
  <2>5. ASSUME NEW k \in 0 .. (at + p - 1) - 1 PROVE lhs[k] = rhs[k]
    <3>1. CASE k \in 0 .. at - 1
      BY <1>1, <3>1
    <3>2. CASE k \notin 0 .. at - 1
      <4>1. k - at + 1 \in 1 .. p - 1 /\ at + (k - at + 1) - 1 = k
        BY <1>1, <2>3, <3>2, ObjectSizes
      <4>. QED BY <2>4, <4>1, ZenonT(60)
    <3>. QED BY <3>1, <3>2
  <2>6. Ordered = IF lhs[at + p - 1] < rhs[at + p - 1] THEN -1 ELSE 1
    <3>. DEFINE q == at + p - 1
    <3>0. phase # "idle"
      OBVIOUS
    <3>1. /\ q \in 0 .. at + left - 1 /\ lhs[q] # rhs[q]
          /\ \A k \in 0 .. q - 1 : lhs[k] = rhs[k]
      <4>1. q \in 0 .. at + left - 1
        BY ONLY <1>2, <2>3, ZenonT(60)
      <4>2. lhs[q] # rhs[q]
        BY ONLY <2>3, ZenonT(60)
      <4>3. \A k \in 0 .. q - 1 : lhs[k] = rhs[k]
        BY ONLY <2>5
      <4>. QED BY ONLY <4>1, <4>2, <4>3
    <3>. HIDE DEF q
    <3>2. Ordered = IF lhs[q] < rhs[q] THEN -1 ELSE 1
      BY <3>0, <3>1, OrderedBy, ZenonT(60)
    <3>. QED BY <3>2 DEF q
  <2>7. a[p] = lhs[at + p - 1] /\ b[p] = rhs[at + p - 1]
    BY <2>3
  <2>8. \A k \in 1 .. p - 1 : a[k] = b[k] /\ b[k] = a[k]
    <3>1. \A k \in 1 .. p - 1 : k \in 1 .. Scalar
      BY <2>3, ObjectSizes
    <3>. QED BY <2>4, <3>1, ZenonT(60)
  <2>9. a[p] < b[p] \/ b[p] < a[p]
    BY <1>3, <2>3, <2>7, ObjectSizes DEF Byte
  <2>10. Leading(a)[Scalar] \in Nat /\ Leading(b)[Scalar] \in Nat
    <3>1. a \in [1 .. Scalar -> Nat] /\ b \in [1 .. Scalar -> Nat] /\ Scalar \in 0 .. Scalar
      BY <1>4, ObjectSizes DEF Byte
    <3>. QED BY ZenonT(60), <3>1, LeadingUnfolds
  <2>11. a[p] < b[p] => Leading(a)[Scalar] < Leading(b)[Scalar]
    <3>. HIDE DEF a, b
    <3>. QED BY <1>4, <2>3, <2>8, LeadingOrder, ZenonT(60)
  <2>12. b[p] < a[p] => Leading(b)[Scalar] < Leading(a)[Scalar]
    <3>. HIDE DEF a, b
    <3>. QED BY <1>4, <2>3, <2>8, LeadingOrder, ZenonT(60)
  <2>13. /\ Leading(a)[Scalar] # Leading(b)[Scalar]
         /\ Leading(a)[Scalar] < Leading(b)[Scalar] <=> a[p] < b[p]
    <3>1. a[p] \in Nat /\ b[p] \in Nat
      BY <1>3, <2>3, <2>7, ObjectSizes DEF Byte
    <3>. HIDE DEF a, b
    <3>. QED BY SMTT(30), <2>9, <2>10, <2>11, <2>12, <3>1
  <2>14. Load(lhs) # Load(rhs)
    BY <1>5, <2>13, ZenonT(60)
  <2>. QED BY <1>5, <2>6, <2>7, <2>13, <2>14, ZenonT(60)
<1>. QED BY <1>6, <1>7

\* Nothing has been compared at first.
LEMMA CompareInvInit == StringsInit => CompareInv
<1>. SUFFICES ASSUME StringsInit PROVE CompareInv
  OBVIOUS
<1>1. CASE phase = "idle"
  BY <1>1 DEF CompareInv
<1>2. CASE phase # "idle"
  <2>1. phase = "block" /\ at = 0
    BY <1>2 DEF StringsInit
  <2>2. PICK length \in 0 .. Longest :
          /\ lhs \in [0 .. length - 1 -> Byte] /\ rhs \in [0 .. length - 1 -> Byte]
          /\ left = length
    BY <1>2 DEF StringsInit
  <2>3. left \in Nat /\ at + left = left
    BY <2>1, <2>2, ObjectAssumption
  <2>. QED BY <2>1, <2>2, <2>3 DEF CompareInv
<1>. QED BY <1>1, <1>2

\* Bytes found equal are passed over.
LEMMA Advances ==
  ASSUME CompareInv, phase \notin {"idle", "done"}, NEW width \in Nat, width <= left,
         \A k \in 0 .. width - 1 : lhs[at + k] = rhs[at + k],
         Advance(width), UNCHANGED <<lhs, rhs, phase, result>>
  PROVE  CompareInv'
<1>1. /\ at \in Nat /\ left \in Nat
      /\ lhs \in [0 .. at + left - 1 -> Byte] /\ rhs \in [0 .. at + left - 1 -> Byte]
      /\ \A k \in 0 .. at - 1 : lhs[k] = rhs[k]
  BY DEF CompareInv
<1>2. at' = at + width /\ left' = left - width
  BY DEF Advance
<1>3. at' \in Nat /\ left' \in Nat /\ at' + left' = at + left
  BY <1>1, <1>2
<1>4. ASSUME NEW k \in 0 .. at' - 1 PROVE lhs[k] = rhs[k]
  <2>1. CASE k \in 0 .. at - 1
    BY <1>1, <2>1
  <2>2. CASE k \notin 0 .. at - 1
    <3>1. k - at \in 0 .. width - 1 /\ at + (k - at) = k
      BY <1>1, <1>2, <2>2
    <3>. QED BY <3>1, ZenonT(60)
  <2>. QED BY <2>1, <2>2
<1>5. phase' \in {"block", "scalar", "byte"}
  BY DEF CompareInv
<1>6. lhs' \in [0 .. at' + left' - 1 -> Byte] /\ rhs' \in [0 .. at' + left' - 1 -> Byte]
  <2>1. lhs' = lhs /\ rhs' = rhs
    OBVIOUS
  <2>2. at' + left' - 1 = at + left - 1
    <3>1. \A x, y, z \in Nat : (x + z) + (y - z) - 1 = x + y - 1
      OBVIOUS
    <3>. QED BY <1>1, <1>2, <3>1, ZenonT(60)
  <2>. QED BY ONLY <1>1, <2>1, <2>2
<1>. QED BY ZenonT(60), <1>3, <1>4, <1>5, <1>6 DEF CompareInv, Byte

\* A loop left as it is, and an answer given, keep what was compared.
LEMMA Settles ==
  ASSUME CompareInv, phase # "idle", UNCHANGED <<lhs, rhs, at, left>>,
         \/ phase' \in {"block", "scalar", "byte"}
         \/ phase' = "done" /\ result' = Ordered
  PROVE  CompareInv'
<1>1. Ordered' = Ordered
  BY ZenonT(60) DEF Ordered, Differ
<1>2. phase' # "idle" /\ phase' \in {"idle", "block", "scalar", "byte", "done"}
  OBVIOUS
<1>. QED BY SMTT(30), <1>1, <1>2 DEF CompareInv

\* Every step of the comparison keeps the invariant.
LEMMA CompareInvNext == CompareInv /\ [StringsNext]_<<moveVars, compareVars>> => CompareInv'
<1>. SUFFICES ASSUME CompareInv, [StringsNext]_<<moveVars, compareVars>> PROVE CompareInv'
  OBVIOUS
<1>0. phase # "idle" =>
        /\ at \in Nat /\ left \in Nat
        /\ lhs \in [0 .. at + left - 1 -> Byte] /\ rhs \in [0 .. at + left - 1 -> Byte]
        /\ \A k \in 0 .. at - 1 : lhs[k] = rhs[k]
  BY DEF CompareInv
<1>1. CASE SkipBlock
  <2>1. /\ phase \notin {"idle", "done"} /\ Block <= left /\ Block \in Nat
        /\ \A k \in 0 .. Block - 1 : lhs[at + k] = rhs[at + k]
        /\ Advance(Block) /\ UNCHANGED <<lhs, rhs, phase, result>>
    BY <1>1, <1>0, ObjectSizes DEF SkipBlock, BlocksEqual
  <2>. QED BY <2>1, Advances, ZenonT(60)
<1>2. CASE LeaveBlocks \/ LeaveScalars
  <2>1. phase # "idle" /\ phase' \in {"block", "scalar", "byte"} /\ UNCHANGED <<lhs, rhs, at, left>>
    BY <1>2 DEF LeaveBlocks, LeaveScalars
  <2>. QED BY <2>1, Settles, ZenonT(60)
<1>3. CASE CompareScalar
  <2>1. phase = "scalar" /\ left >= Scalar /\ Scalar <= left /\ Scalar \in Nat /\ phase \notin {"idle", "done"}
    BY <1>3, <1>0, ObjectSizes DEF CompareScalar
  <2>2. CASE Load(lhs) = Load(rhs)
    <3>1. \A k \in 0 .. Scalar - 1 : lhs[at + k] = rhs[at + k]
      BY <2>1, <2>2, ScalarDecides, ZenonT(60)
    <3>2. Advance(Scalar) /\ UNCHANGED <<lhs, rhs, phase, result>>
      BY <1>3, <2>2, ZenonT(60) DEF CompareScalar
    <3>. QED BY <2>1, <3>1, <3>2, Advances, ZenonT(60)
  <2>3. CASE Load(lhs) # Load(rhs)
    <3>1. Ordered = IF Bswap(Load(lhs)) < Bswap(Load(rhs)) THEN -1 ELSE 1
      BY <2>1, <2>3, ScalarDecides, ZenonT(60)
    <3>2. /\ Decide(Bswap(Load(lhs)) < Bswap(Load(rhs)))
          /\ UNCHANGED <<lhs, rhs, at, left>>
      BY <1>3, <2>3, ZenonT(60) DEF CompareScalar
    <3>3. phase' = "done" /\ result' = Ordered
      BY <3>1, <3>2, ZenonT(60) DEF Decide
    <3>. QED BY <2>1, <3>2, <3>3, Settles
  <2>. QED BY <2>2, <2>3
<1>4. CASE CompareByte
  <2>1. /\ phase \notin {"idle", "done"} /\ left > 0 /\ 1 <= left /\ 1 \in Nat
        /\ at \in 0 .. at + left - 1 /\ \A k \in 0 .. 1 - 1 : at + k = at
    BY <1>4, <1>0 DEF CompareByte
  <2>2. CASE lhs[at] = rhs[at]
    <3>1. \A k \in 0 .. 1 - 1 : lhs[at + k] = rhs[at + k]
      BY <2>1, <2>2, ZenonT(60)
    <3>2. Advance(1) /\ UNCHANGED <<lhs, rhs, phase, result>>
      BY <1>4, <2>2, ZenonT(60) DEF CompareByte
    <3>. QED BY <2>1, <3>1, <3>2, Advances, ZenonT(60)
  <2>3. CASE lhs[at] # rhs[at]
    <3>0. phase # "idle"
      BY <2>1
    <3>1. Ordered = IF lhs[at] < rhs[at] THEN -1 ELSE 1
      BY <1>0, <2>1, <2>3, <3>0, OrderedBy, ZenonT(60)
    <3>2. Decide(lhs[at] < rhs[at]) /\ UNCHANGED <<lhs, rhs, at, left>>
      BY <1>4, <2>3, ZenonT(60) DEF CompareByte
    <3>3. phase' = "done" /\ result' = Ordered
      BY <3>1, <3>2, ZenonT(60) DEF Decide
    <3>. QED BY <3>0, <3>2, <3>3, Settles
  <2>. QED BY SMTT(30), <2>2, <2>3
<1>5. CASE AllEqual
  <2>1. /\ phase # "idle" /\ phase' = "done" /\ result' = 0
        /\ UNCHANGED <<lhs, rhs, at, left>> /\ at + left - 1 = at - 1
    BY <1>5, <1>0 DEF AllEqual
  <2>2. Differ = {}
    BY SMTT(30), <1>0, <2>1 DEF Differ
  <2>3. result' = Ordered
    BY SMTT(30), <2>1, <2>2 DEF Ordered
  <2>. QED BY <2>1, <2>3, Settles
<1>6. CASE UNCHANGED compareVars
  BY ZenonT(60), <1>6 DEF compareVars, CompareInv, Ordered, Differ
<1>. QED BY SMTT(30), <1>1, <1>2, <1>3, <1>4, <1>5, <1>6 DEF StringsNext, CompareNext, MoveNext

\* memcmp answers with the sign of the first difference, for objects of every
\* length and content and every size of block and scalar, whichever of its
\* loops meets that difference (memcmp.c:14-47).
THEOREM ComparesInOrder == StringsSpec => []FirstDifferenceDecides
<1>1. CompareInv => FirstDifferenceDecides
  BY DEF CompareInv, FirstDifferenceDecides
<1>. QED BY <1>1, CompareInvInit, CompareInvNext, PTL DEF StringsSpec
=============================================================================
