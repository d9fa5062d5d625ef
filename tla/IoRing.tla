------------------------------- MODULE IoRing -------------------------------
(***************************************************************************)
(* What src/ring promises the reactor, without its memory layout: a staged *)
(* batch of operations, the operations the kernel holds, and a queue of    *)
(* posted completions.  Ring.tla implements it with slots and indices;     *)
(* Scheduler.tla drives it.  The kernel's half (what io_uring_enter may    *)
(* do) is modelled from how ring.c and scheduler.c use it.                 *)
(***************************************************************************)
EXTENDS Naturals, Sequences, FiniteSets, Functions

CONSTANTS
  Ops,         \* operations, each named by the user_data of its SQE
  SqEntries    \* slots of the submission array

VARIABLES
  batch,       \* staged SQEs, slot zero first
  inflight,    \* accepted by the kernel, still running
  finished,    \* over in the kernel, their CQEs not posted yet
  cq           \* posted CQEs the process has not reaped, oldest first

ringVars == <<batch, inflight, finished, cq>>

\* An operation between its append and its reap.
Outstanding == Range(batch) \cup inflight \cup Range(finished) \cup Range(cq)

RingInit == batch = <<>> /\ inflight = {} /\ finished = <<>> /\ cq = <<>>

\* __libuc_ring_append_sqe hands out no slot when the batch is full.
BatchFull == Len(batch) = SqEntries

AppendSqe(op) ==
  /\ ~BatchFull
  /\ batch' = Append(batch, op)
  /\ UNCHANGED <<inflight, finished, cq>>

\* One successful io_uring_enter takes the first n staged operations; what it
\* leaves is staged from slot zero again.  Taking none of a nonempty batch is
\* reported as -EAGAIN (ring.c:121-126), which is a failure and not a count.
Submit(n) ==
  /\ n \in 0 .. Len(batch)
  /\ n = 0 => batch = <<>>
  /\ batch' = SubSeq(batch, n + 1, Len(batch))
  /\ inflight' = inflight \cup Range(SubSeq(batch, 1, n))
  /\ UNCHANGED <<finished, cq>>

\* An operation ends in the kernel, at any time.
Finish(op) ==
  /\ op \in inflight
  /\ inflight' = inflight \ {op}
  /\ finished' = Append(finished, op)
  /\ UNCHANGED <<batch, cq>>

\* Under IORING_SETUP_DEFER_TASKRUN completions are posted only inside an
\* enter with GETEVENTS, which runs some of the deferred work in order.
Post(n) ==
  /\ n \in 0 .. Len(finished)
  /\ n = 0 => finished = <<>>
  /\ cq' = cq \o SubSeq(finished, 1, n)
  /\ finished' = SubSeq(finished, n + 1, Len(finished))
  /\ UNCHANGED <<batch, inflight>>

Reap ==
  /\ cq # <<>>
  /\ cq' = Tail(cq)
  /\ UNCHANGED <<batch, inflight, finished>>

RingNext ==
  \/ \E op \in Ops \ Outstanding : AppendSqe(op)
  \/ \E n \in 0 .. Len(batch) : Submit(n)
  \/ \E op \in Ops : Finish(op)
  \/ \E n \in 0 .. Len(finished) : Post(n)
  \/ Reap

RingSpec == RingInit /\ [][RingNext]_ringVars
=============================================================================
