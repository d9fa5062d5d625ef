------------------------------- MODULE UcRing -------------------------------
(***************************************************************************)
(* src/uc/scheduler/ring.c, the draft scheduler's ring (not built yet): it *)
(* differs from src/ring/ring.c in moving the remainder of a short         *)
(* submission with a loop of its own, shift_unsubmitted, which is one step *)
(* per slot here.  Everything else is Ring's, and its behaviours are among *)
(* those of UcSpec: a short submission moves the remainder either way.     *)
(***************************************************************************)
EXTENDS Ring

VARIABLES
  submitted, index   \* the parameter and the loop index of shift_unsubmitted

ucVars == <<vars, submitted, index>>
shift == <<submitted, index>>

UcInit == Init /\ submitted = 0 /\ index = 0

Remaining == batch_count - submitted

UcEnterShort(n) ==
  /\ pc = "submit" /\ n \in 1 .. batch_count - 1
  /\ inflight' = inflight \cup Taken(n)
  /\ submitted' = n /\ index' = 0 /\ pc' = "shift"
  /\ UNCHANGED <<sqes, batch_count, cqes, cq_head, cq_tail, finished, idle,
                 min_complete>>

\* Mutation: the slot the kernel stopped at is copied to every place.
BugShiftOne ==
  /\ pc = "shift" /\ index < Remaining
  /\ sqes' = [sqes EXCEPT ![index] = sqes[submitted]]
  /\ index' = index + 1
  /\ UNCHANGED <<batch_count, cqes, cq_head, cq_tail, inflight, finished, idle,
                 pc, min_complete, submitted>>

ShiftOne ==
  /\ pc = "shift" /\ index < Remaining
  /\ sqes' = [sqes EXCEPT ![index] = sqes[submitted + index]]
  /\ index' = index + 1
  /\ UNCHANGED <<batch_count, cqes, cq_head, cq_tail, inflight, finished, idle,
                 pc, min_complete, submitted>>

\* submit goes round again with the remainder at slot zero.
ShiftEnds ==
  /\ pc = "shift" /\ index >= Remaining
  /\ batch_count' = Remaining
  /\ pc' = "submit" /\ submitted' = 0 /\ index' = 0
  /\ UNCHANGED <<sqes, cqes, cq_head, cq_tail, inflight, finished, idle,
                 min_complete>>

\* What the draft shares with src/ring/ring.c is Ring's, step for step.
UcNext ==
  \/ Next /\ UNCHANGED shift
  \/ \E n \in 1 .. SqEntries : UcEnterShort(n)
  \/ ShiftOne
  \/ ShiftEnds

UcSpec == UcInit /\ [][UcNext]_ucVars

\* What moves a submit on: the enter takes operations, the slots are moved, and
\* the kernel, once asked to wait, posts what has ended and returns.
Progress ==
  \/ (EnterAll \/ WaitReturns \/ \E n \in 1 .. SqEntries : EnterShort(n)) /\ UNCHANGED shift
  \/ (pc = "wait" /\ Post) /\ UNCHANGED shift
  \/ \E n \in 1 .. SqEntries : UcEnterShort(n)
  \/ ShiftOne
  \/ ShiftEnds

\* An enter that is retried is answered with other than -EINTR in the end, and
\* one that waits runs the deferred work.  No operation is assumed to end.
FairUcSpec == UcSpec /\ WF_ucVars(Progress)

-----------------------------------------------------------------------------
\* The staged operations, in the middle of a shift too: the slots moved so far
\* and behind them those still to move.
Staged ==
  [i \in 1 .. Remaining |->
     IF i <= index THEN sqes[i - 1] ELSE sqes[submitted + i - 1]]

\* Short submissions, failed and retried submits and wrapping indices lose no
\* operation and duplicate none: the staged slots, the kernel's two stages, the
\* unreaped entries and the idle operations are together each operation once.
EachOnce ==
  /\ Range(Staged) \cup inflight \cup Range(finished) \cup Range(Posted)
       = Ops \ idle
  /\ Remaining + Cardinality(inflight) + Len(finished) + Unreaped
       = Cardinality(Ops \ idle)

Io == INSTANCE IoRing WITH batch <- Staged, cq <- Posted

\* The slots and indices behave as the queues the reactor works with, at every
\* step of the draft's loop too: no slot is overwritten before it is moved,
\* whatever part of the batch was taken (uc/scheduler/ring.c:99-106).
ImplementsIoRing == Io!RingSpec

\* submit returns, except for the wait it is there for: whatever the kernel takes
\* of the batch at each enter, a pass that does not return shrinks it (ring.c:126),
\* and a wait for a completion ends once an operation has (ring.c:103-107).  Inside
\* a call no completion is reaped, so what has ended only grows: the call never
\* stays open with enough ended.
SubmitReturns ==
  []<>(pc = "caller" \/ Unreaped + Len(finished) < min_complete)
=============================================================================
