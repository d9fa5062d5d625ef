-------------------------------- MODULE Ring --------------------------------
(***************************************************************************)
(* src/ring/ring.c over one ring: the SQE slots staged from slot zero      *)
(* (SQ_REWIND), the submit loop over io_uring_enter, and the completion    *)
(* queue read through wrapping indices.  Operations are named by their     *)
(* user_data; idle holds those the caller may stage: never submitted, or   *)
(* handed back by a reap.                                                  *)
(***************************************************************************)
EXTENDS Integers, Sequences, FiniteSets, Functions

CONSTANTS
  Ops,
  Zero,        \* a zeroed slot
  SqEntries, CqEntries,
  Word         \* the range of a uint32_t index: 2^32 in the code

ASSUME SlotAssumption == Zero \notin Ops
ASSUME SizeAssumption ==
  /\ SqEntries \in Nat \ {0} /\ CqEntries \in Nat \ {0}
  /\ Word \in Nat /\ Word > CqEntries /\ Word % CqEntries = 0

VARIABLES
  sqes, batch_count,         \* the slots, and how many are staged
  cqes, cq_head, cq_tail,    \* the completion queue
  inflight, finished,        \* the kernel's operations, as in IoRing
  idle,
  pc,                        \* "caller"; inside the submit loop "submit", and
                             \* "wait" once the kernel has taken the batch
  min_complete               \* the submit loop's parameter, 0 outside it

vars == <<sqes, batch_count, cqes, cq_head, cq_tail, inflight, finished, idle, pc,
          min_complete>>

Slots == 0 .. SqEntries - 1
Entries == 0 .. CqEntries - 1

Unreaped == (cq_tail - cq_head) % Word

\* A created ring stages nothing and its queue is empty.
Init ==
  /\ sqes = [i \in Slots |-> Zero] /\ batch_count = 0
  /\ cqes = [i \in Entries |-> Zero]
  /\ cq_head = 0 /\ cq_tail = 0
  /\ inflight = {} /\ finished = <<>>
  /\ idle = Ops
  /\ pc = "caller" /\ min_complete = 0

\* The reactor's admission: one CQ entry for each operation out (park()).
Admits == Cardinality(Ops \ idle) < CqEntries

\* The slot is zeroed, counted, and filled by the caller.
AppendSqe(op) ==
  /\ pc = "caller" /\ Admits
  /\ batch_count # SqEntries
  /\ op \in idle
  /\ sqes' = [sqes EXCEPT ![batch_count] = op]
  /\ batch_count' = batch_count + 1
  /\ idle' = idle \ {op}
  /\ UNCHANGED <<cqes, cq_head, cq_tail, inflight, finished, pc, min_complete>>

\* The reactor waits for a completion when it has nothing else to do, and only
\* with an operation out (scheduler.c:157-161); park() asks for none.
StartSubmit ==
  /\ pc = "caller" /\ pc' = "submit"
  /\ min_complete' \in {0, 1} /\ (idle = Ops => min_complete' = 0)
  /\ UNCHANGED <<sqes, batch_count, cqes, cq_head, cq_tail, inflight, finished,
                 idle>>

\* The operations the kernel reads from the first n slots.
Taken(n) == {sqes[i] : i \in 0 .. n - 1}

\* The slots after memmove(sqes, &sqes[n], batch_count - n): what lies behind
\* the moved remainder stays as it was.
MovedDown(n) ==
  [i \in Slots |-> IF i < batch_count - n THEN sqes[i + n] ELSE sqes[i]]

\* Mutation: an empty batch is submitted again and again.
BugEnterAllLoops ==
  /\ pc = "submit" /\ batch_count # 0
  /\ inflight' = inflight \cup Taken(batch_count)
  /\ batch_count' = 0
  /\ UNCHANGED <<sqes, cqes, cq_head, cq_tail, finished, idle, pc, min_complete>>

\* The kernel takes the whole batch and waits for min_complete completions.  A
\* signal ends the wait: an enter that took something still returns the count,
\* and one that took nothing returns -EINTR and is retried, which is to go on
\* waiting.
EnterAll ==
  /\ pc = "submit" /\ pc' \in {"wait", "caller"}
  /\ pc' = "caller" => batch_count # 0
  /\ min_complete' = IF pc' = "caller" THEN 0 ELSE min_complete
  /\ inflight' = inflight \cup Taken(batch_count)
  /\ batch_count' = 0
  /\ UNCHANGED <<sqes, cqes, cq_head, cq_tail, finished, idle>>

\* The enter returns, and submit with it.
WaitReturns ==
  /\ pc = "wait" /\ Unreaped >= min_complete
  /\ pc' = "caller" /\ min_complete' = 0
  /\ UNCHANGED <<sqes, batch_count, cqes, cq_head, cq_tail, inflight, finished,
                 idle>>

\* The kernel ran out of memory in mid-batch, and returns without waiting;
\* submit goes round again.
EnterShort(n) ==
  /\ pc = "submit" /\ n \in 1 .. batch_count - 1
  /\ inflight' = inflight \cup Taken(n)
  /\ sqes' = MovedDown(n)
  /\ batch_count' = batch_count - n
  /\ UNCHANGED <<cqes, cq_head, cq_tail, finished, idle, pc, min_complete>>

\* submit returns the error and keeps what is staged, for the caller to submit
\* again.  -EINTR changes nothing and is retried inside the loop.
EnterFails ==
  /\ pc = "submit" /\ pc' = "caller" /\ min_complete' = 0
  /\ UNCHANGED <<sqes, batch_count, cqes, cq_head, cq_tail, inflight, finished,
                 idle>>

\* An operation ends in the kernel, at any time.
Finish(op) ==
  /\ op \in inflight
  /\ inflight' = inflight \ {op} /\ finished' = Append(finished, op)
  /\ UNCHANGED <<sqes, batch_count, cqes, cq_head, cq_tail, idle, pc, min_complete>>

\* Inside an enter, the kernel writes the next CQE and moves the tail.
Post ==
  /\ pc \in {"submit", "wait"} /\ finished # <<>>
  /\ cqes' = [cqes EXCEPT ![cq_tail % CqEntries] = Head(finished)]
  /\ cq_tail' = (cq_tail + 1) % Word
  /\ finished' = Tail(finished)
  /\ UNCHANGED <<sqes, batch_count, cq_head, inflight, idle, pc, min_complete>>

\* Mutation: the entry after the head is read.
BugReapAhead ==
  /\ pc = "caller" /\ cq_head # cq_tail
  /\ idle' = idle \cup {cqes[(cq_head + 1) % CqEntries]}
  /\ cq_head' = (cq_head + 1) % Word
  /\ UNCHANGED <<sqes, batch_count, cqes, cq_tail, inflight, finished, pc,
                 min_complete>>

\* The caller gets back the operation the head entry names.
Reap ==
  /\ pc = "caller" /\ cq_head # cq_tail
  /\ idle' = idle \cup {cqes[cq_head % CqEntries]}
  /\ cq_head' = (cq_head + 1) % Word
  /\ UNCHANGED <<sqes, batch_count, cqes, cq_tail, inflight, finished, pc,
                 min_complete>>

Next ==
  \/ \E op \in Ops : AppendSqe(op)
  \/ StartSubmit
  \/ EnterAll
  \/ WaitReturns
  \/ \E n \in 1 .. SqEntries : EnterShort(n)
  \/ EnterFails
  \/ \E op \in Ops : Finish(op)
  \/ Post
  \/ Reap

Spec == Init /\ [][Next]_vars

-----------------------------------------------------------------------------
Posted == [i \in 1 .. Unreaped |-> cqes[(cq_head + i - 1) % CqEntries]]
=============================================================================
