-------------------------------- MODULE Fifo --------------------------------
(***************************************************************************)
(* What the run queue promises the reactor: fibers are resumed in the      *)
(* order they were enqueued, each as often as it was enqueued.             *)
(***************************************************************************)
EXTENDS Naturals, Sequences, Functions

CONSTANTS Fibers, Null

VARIABLES
  queue,      \* enqueued fibers, oldest first
  resumed     \* the fiber dequeued last, or Null

fifoVars == <<queue, resumed>>

FifoInit == queue = <<>> /\ resumed = Null

FifoEnqueue(f) ==
  /\ f \notin Range(queue)
  /\ queue' = Append(queue, f)
  /\ UNCHANGED resumed

FifoDequeue ==
  /\ queue # <<>>
  /\ resumed' = Head(queue)
  /\ queue' = Tail(queue)

FifoNext == FifoDequeue \/ \E f \in Fibers : FifoEnqueue(f)

FifoSpec == FifoInit /\ [][FifoNext]_fifoVars
=============================================================================
