----------------------------- MODULE ReadyQueue -----------------------------
(***************************************************************************)
(* The intrusive run queue of src/scheduler: two ends in the scheduler, a  *)
(* link in every fiber record, and a count kept beside them.  Enqueue is   *)
(* __libuc_scheduler_enqueue; Dequeue is the head of a turn in             *)
(* __libuc_scheduler_run, which trusts the count and never tests the head. *)
(* order is a history variable: the queued fibers as they were enqueued.   *)
(***************************************************************************)
EXTENDS Integers, Sequences, Functions, FiberRecords

ASSUME QueueAssumption == Null \notin Fibers

VARIABLES
  ready_head, ready_tail,
  ready_next,     \* fiber->ready_next of every fiber
  ready_count,
  resumed,        \* the local fiber of run's loop body
  order

queueVars == <<ready_head, ready_tail, ready_next, ready_count, resumed, order>>

QueueInit ==
  /\ ready_head = Null /\ ready_tail = Null
  /\ ready_next = [f \in Fibers |-> Null]
  /\ ready_count = 0
  /\ resumed = Null
  /\ order = <<>>

\* The links after an append at the tail.
LinkAtTail(f) ==
  IF ready_tail = Null
  THEN [ready_next EXCEPT ![f] = Null]
  ELSE [ready_next EXCEPT ![f] = Null, ![ready_tail] = f]

\* Mutation: the fiber is put in front.
BugEnqueueFront(f) ==
  /\ f \notin Range(order)
  /\ ready_count' = ready_count + 1
  /\ ready_next' = [ready_next EXCEPT ![f] = ready_head]
  /\ ready_head' = f
  /\ ready_tail' = IF ready_tail = Null THEN f ELSE ready_tail
  /\ order' = Append(order, f)
  /\ UNCHANGED resumed

\* The reactor enqueues only a fiber that is in no queue (Scheduler!OnePlace).
Enqueue(f) ==
  /\ f \notin Range(order)
  /\ ready_count' = ready_count + 1
  /\ ready_next' = LinkAtTail(f)
  /\ ready_head' = IF ready_tail = Null THEN f ELSE ready_head
  /\ ready_tail' = f
  /\ order' = Append(order, f)
  /\ UNCHANGED resumed

\* Mutation: an emptied queue keeps its tail.
BugTailKept == ready_tail

\* The tail after the head has been taken off.
TailAfterTake == IF ready_next[ready_head] = Null THEN Null ELSE ready_tail

Dequeue ==
  /\ ready_count # 0
  /\ resumed' = ready_head
  /\ ready_head' = ready_next[ready_head]
  /\ ready_count' = ready_count - 1
  /\ ready_tail' = TailAfterTake
  /\ ready_next' = [ready_next EXCEPT ![ready_head] = Null]
  /\ order' = Tail(order)

QueueNext == Dequeue \/ \E f \in Fibers : Enqueue(f)

QueueSpec == QueueInit /\ [][QueueNext]_queueVars

-----------------------------------------------------------------------------
QueueTypeOK ==
  /\ ready_head \in Fibers \cup {Null} /\ ready_tail \in Fibers \cup {Null}
  /\ ready_next \in [Fibers -> Fibers \cup {Null}]
  /\ ready_count \in Nat
  /\ resumed \in Fibers \cup {Null}
  /\ order \in Seq(Fibers)

\* Following the links from ready_head meets the queued fibers in the order
\* they were enqueued, ends at ready_tail with a null link, and takes
\* ready_count steps; a fiber outside the queue keeps no link into it.
LinksSpellOrder ==
  /\ ready_count = Len(order)
  /\ order = <<>> => ready_head = Null /\ ready_tail = Null
  /\ order # <<>> => ready_head = order[1] /\ ready_tail = order[Len(order)]
  /\ \A i \in 1 .. Len(order) :
       ready_next[order[i]] = IF i = Len(order) THEN Null ELSE order[i + 1]
  /\ \A f \in Fibers \ Range(order) : ready_next[f] = Null

Queue == INSTANCE Fifo WITH queue <- order

\* What the list does is a first-in, first-out queue.
ImplementsFifo == Queue!FifoSpec
=============================================================================
