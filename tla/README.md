# A TLA+ model of libuc's reactor

libuc is a C library for Linux in which every C11 thread is a *fiber*: a stack
with a record at its top, resumed and suspended by a single-threaded reactor
that waits on one io_uring.  This directory models the reactor and what it
stands on, checks the models with TLC on small instances, and proves their
safety properties with TLAPS for all instances.  On both sides of the reactor it
models what leads to it, from the process entry, and what is built on it: the C11
threads and the I/O calls.  The pure functions of `src/string` and the draft under
`src/uc` are modelled beside it.

Paths below are relative to the repository (`src/` in `PROJECT.json` is the
repository root, so the reactor is `src/src/scheduler/scheduler.c` there).

## Inventory

| part | source | state | operations |
|---|---|---|---|
| reactor | `src/scheduler/` | ready, parked and joining counters, the run queue | become, enqueue, run: one handler per request kind, park, submit, reap, drain |
| run queue | `src/scheduler/` | head, tail, a link per fiber, a count | enqueue, dequeue |
| ring | `src/ring/` | SQE slots, `batch_count`, CQ head and tail | create, append, submit, reap |
| fibers | `src/fiber/` | life, joiner, status, context, thread-local block | spawn, destroy, resume, yield, await, join, detach, exit, process_exit |
| thread-local storage | `src/thread_local/`, `src/arch/*/thread_local_arch.h` | cached layout, one block per fiber | layout, block create/destroy/install, placement |
| startup | `src/start.c`, `src/arch/*/start.c` | scheduler zero, the root fiber | argument and auxv parsing, root entry |
| threads | `src/threads/thrd.c` | none | create, join, detach, exit, yield, current, equal |
| I/O calls | `src/unistd/`, `src/sys/socket/`, `src/errno/` | per-fiber errno | one await and one errno translation each |
| auxv | `src/sys/auxv/` | the vector's address | init, get |
| strings | `src/string/` | none | memcpy, memmove, memset, memcmp |
| context switch | `src/arch/*/fiber_arch.h` | a saved context per stack | switch, start, make |
| draft scheduler | `src/uc/scheduler/` | operation states, a ring | next, dispatch, completion; append, submit, reap; not built |

How they interact: `start.c` makes a scheduler and the root fiber and calls
`run`.  `run` resumes the head of the run queue; the fiber comes back with the
address of a request on its own stack.  AWAIT copies an SQE into the ring with
that address as `user_data`; the completion brings it back and the fiber is
queued again.  JOIN leaves the address in the target's record; the target's EXIT
finds it.  The other requests are answered at once.

What is hard about it: records are unmapped, and their addresses reused, while
queues, joiner slots and the kernel hold pointers; three counters decide when
to wait, when to stop and when to trap; `park` may enter the kernel in the
middle of a sweep; the kernel takes a batch in parts, is interrupted, or fails;
fibers wait for each other.  Around the reactor, creation fails half-way, lengths
pass through fields of different widths, and each architecture saves its registers
by hand.

## Modules

| module | models |
|---|---|
| `Scheduler` | `run`, `park`, and the record changes of every request, for an arbitrary program; the kernel finishes operations at any time |
| `IoRing` | what the ring promises the reactor: staged, in flight, finished, posted |
| `Ring` | `ring.c`: slots, `memmove` after a short submission, the submit loop, wrapping CQ indices |
| `Fifo` | what the run queue promises |
| `ReadyQueue` | the intrusive list with its count; implements `Fifo` |
| `FiberSwitch` | `fiber.c`: nested resumes, suspensions and ends, `return_to`, the thread pointer |
| `ThreadLocal` | `thread_local.c` and both placements: decoding, sizes, mappings |
| `FiberMemory` | `fiber.c`'s spawn and destroy over `ThreadLocal`: two mappings per fiber, where the record and the stack lie, partial failures |
| `Threads` | what `thrd.c` promises a C11 program |
| `SchedulerThreads` | the mapping under which `Scheduler` implements `Threads` |
| `RingCreate` | `__libuc_ring_create`: sizes, mappings, failure paths |
| `Startup` | `start.c`, `_start` and `src/sys/auxv`, over `RingCreate` |
| `IoCalls` | `src/unistd`, `src/sys/socket` and `src/errno` |
| `MemMove`, `MemCompare` | `src/string` |
| `UcRing` | `Ring` and, beside it, the draft ring's shift loop; both implement `IoRing` |
| `UcScheduler` | the draft's `handle_next`, `dispatch` and `handle_completion` |
| `MCScheduler`, `MCFiberSwitch`, `MCFiberMemory`, `MCStartup`, `MCIoCalls`, `MCUcScheduler` | the instances for TLC |
| `FiberRecords`, `Widths` | constants that several modules share: the fibers' addresses; the widths of `int` and `size_t` |
| `DataLemmas` | lemmas on sequences, remainders and recursive functions |
| `SchedulerProofs`, `ThreadsProofs` | the reactor's invariant and the theorems on the reactor and on the C11 threads |
| `PrimitiveProofs` | theorems on the run queue's list, on control transfer and on the string functions |
| `LibcProofs` | theorems on the I/O calls, the ring's creation and the startup |
| `RingProofs`, `FiberMemoryProofs`, `UcSchedulerProofs` | theorems on the rings, memory and the draft's operations |

`Scheduler` uses the run queue as a sequence and the ring through
`INSTANCE IoRing`.  `ReadyQueue`, `Ring` and `UcRing` show that the data structures behave
that way, given what `Scheduler` in turn guarantees them: no fiber is enqueued
twice (`OnePlace`), no sweep takes more turns than there are ready fibers
(`TurnsHaveFibers`), and no more operations are out than the CQ has entries
(`CompletionsFit`).  `Scheduler` takes a resume as one step that returns the
resumed fiber's request; `FiberSwitch` shows that it does, given that only
stopped fibers are resumed, which `OnePlace` guarantees.  `FiberSwitch` in turn takes
a switch as one step.
`Startup` ends where the root fiber's first resume in `Scheduler` begins.

### Scheduler

A fiber is an address.  It stands for the record, the stack and the one request
a suspended fiber can have.  `life` adds `UNMAPPED` to the three values of the
code, so that addresses are reused by later spawns; only the root's is not.
`pc` is the place in `run`: `loop` (the while condition), `dispatch` (the
sweep), `enter` and `wait` (inside `submit`), `append` (park after a flush),
`reap`, and four ends: `drained`, `exited` (process exit), `trap_joining` (the
trap after the loop) and `trap` (any other).  One action is one turn with the
whole of its handler: the dequeue, the resume, the request and what it enqueues.
A turn whose `park` finds the batch full continues in `enter`.

The program is arbitrary.  A resumed fiber makes any request and names any
mapped record, so wrong joins and detaches occur and trap.  A handle whose
record has been unmapped is never passed: that is undefined in C11 and the code
could not tell.  PROCESS_EXIT comes from the root only, as in `start.c`.

`park` does not look at the opcode, so any awaited operation may be a stream or a
zero-copy send; `ReapRefused` is the trap on its flagged completion.

Left out: the values of completions and SQE contents other than `flags`.
Counters are unbounded naturals: a 32-bit counter would need 2^32 mapped stacks
to wrap.

### FiberSwitch

A saved context is the stack it continues on, and a thread pointer the owner of
the block it points into.  `SwitchIn` is `__libuc_fiber_resume` up to the switch;
`SwitchOut` is the switch back and, with `Land`, the rest of that resume.  Yield,
await, join, detach and start differ only in the request and are one action,
`Suspend`.  Suspending with no current fiber, and resuming an ended one, fault, as
`fiber.h` says.  A stack may install a block without a fiber (`Bare`), as
`test/thread_local_install.c` does, or any fiber's.  Under the block of another fiber
that is itself being resumed, a suspension saves the running stack in that fiber's
record and goes on at that fiber's resumer.  Nothing in the code refuses it, and from
then on a record is wrong; the step is modelled in full and the model ends after it
(`misdirected`).  `view` and `ended` are history variables for the properties.

### ThreadLocal

Sizes and addresses are `Bits` wide and every checked sum may fail.  `x & ~(a-1)`
is `AlignDown`; the alignment is a power of two because `SegmentOk` checks it.
The executable is chosen in `Init`, and with it what the auxiliary vector and the
program headers say; both architectures are in one run.  `mmap` returns any free
page-aligned range or fails.  What is written is kept as intervals, not bytes.  The
module has no next-state relation of its own: its caller is `FiberMemory`.

### FiberMemory

One call runs at a time, in two steps with the second mapping or unmapping between
them.  A spawn that gets no block unmaps the stack.  `mmap` and `munmap` may fail; a
destroy that could not release one of its mappings says so, and its caller traps
(`kept`).  The munmap of a refused spawn is not looked at (`fiber.c:65`): if it fails,
the stack stays mapped and nobody knows (`lost`).

### Threads and SchedulerThreads

`Threads` knows threads that run, wait, join or have ended, who joins whom, which
status an ended thread keeps and what a call is about to return.  A fiber in the run
queue is a thread that runs; one behind a join joins; any other live one waits.  A
failed `thrd_create` is a call without an answer, like `thrd_yield`.  Uses that the
reactor traps on are no steps of `Threads`.

### RingCreate and Startup

The initial stack is a sequence of words: counts, pointers and the auxiliary vector.
`Parse` is `__libuc_start` up to `auxv_init`; then each step succeeds or returns 127:
the layout, the ring with its two mappings and its mask, the root fiber.
`io_uring_setup` answers with counts that are powers of two, the shared words ahead
of the entries, and any mask, and every checked product or sum may overflow.  `head &
cq_mask` is a remainder: a created ring's mask is one less than a power of two.  The
unmaps of a failed creation may fail too, and their results are discarded (`kept`).
That the descriptor stays open on failure is as in the code: the process exits next.
`getauxval` may be called at any time from the init functions
and `main`.  The draft's `__libuc_scheduler_ring_create` repeats this function line
for line and has no model of its own.

### IoCalls

A call is four steps: the SQE, its issue in the kernel, its completion and the return,
with those of other fibers in between.  The files are the two ends of one pipe, which
the fibers share and may close; reads, writes and closes do what the kernel does, the
other calls only succeed or fail.  `direct` records what the system call with the
caller's own arguments would have answered.  An `int` is `Bits` wide and a `size_t`
twice that; flags, types, protocols and backlogs are ints of either sign (`Ints`).
`MAX_RW_COUNT` is the kernel's.  A count past `SSIZE_MAX` is refused before the SQE is
made, with EINVAL; the system call looks at the descriptor and the buffer first and has
EBADF or EFAULT there.  `AsTheSystemCall` names that one difference.

### MemMove and MemCompare

A step is a byte stored, or one block, scalar or byte compared.  Memory is a function
from addresses to bytes; the bytes are a small range, since the functions only copy
and compare them, and `memset`'s argument may be out of that range on either side.
A scalar is
the number a little-endian load gives (`Load`), and `Bswap` takes that number apart
and puts it together again in the opposite order.  `MemCompare` extends `MemMove` so that one run covers both: a behaviour is one
comparison, or any sequence of the other calls.

### UcRing and UcScheduler

`UcRing` replaces `memmove` after a short submission by the draft's loop over slots,
one step each, and keeps `Ring`'s way as an alternative, so that its run covers both
rings: each is the abstract queue, the draft's in the middle of its loop too.

In `UcScheduler` the loop around `dispatch` and `handle_completion`, and the operation
adapters, are not written yet.  The ready queue is the set of fibers that yielded, taken
in any order.  Of the adapters the model asks two things, after the comments at
`uc/scheduler/scheduler.c:29-31` and `78-80`: a fiber asks NEXT for an operation of its
own or for one that is not in flight (`MayNext`), and it prepares a completed record
again before it asks for it (`Prepare`).  Without the second, NEXT on a completed
operation strands its owner (line 54).

Nothing makes an owner wait.  It may yield, return, or wait for another of its operations
while one is in flight, and `handle_completion` resumes it all the same (line 124), with
the completion of an operation it did not ask for.  `UC-020-pull-iterators.md:60-62`
plans to buffer such a completion and not to wake the owner; the draft does not do that
yet, and the model does what the draft does.  What `uc_fiber_resume` does with a fiber that has
returned is not written either: the model ends there.

### The kernel

`io_uring_enter` takes a nonempty prefix of the batch, or fails.  If it takes all
of it, it waits for `min_complete` completions; a signal can end that wait early
once something was submitted, and otherwise gives `-EINTR`, which `submit` retries
and which changes no state.  Operations finish at any time and in any order.
Because of `IORING_SETUP_DEFER_TASKRUN`, completions appear only inside an enter,
which posts a nonempty prefix of the finished ones, if there are any.  That a
short count is never zero is the code's assumption (`ring.c:121-126`) and is
taken over.

## Runs

| run | instance | shows |
|---|---|---|
| `reactor` | 4 fibers, 1 SQE slot, 2 CQ entries, 2 statuses | safety of every program: see the properties in `Scheduler.tla`; the reactor implements `Threads` |
| `reactor_live` | 3 fibers, 2 SQE slots, 4 CQ entries | liveness |
| `two_places` | 3 fibers | a disagreement with the design record, below |
| `run_queue` | 4 fibers | the list is a FIFO |
| `ring` | 3 operations, 3 slots, 3 CQ entries, indices modulo 6 | the ring, and the draft's, implement `IoRing`; `submit` returns |
| `switch` | 3 fibers, 2 bare blocks | resumes return to the right stack with the right thread pointer, whatever blocks are installed meanwhile |
| `thread_local` | 2 fibers, 7-bit words, 16-byte pages, 2-byte pointers, 89 executables, stacks of 6, 7 and 20 bytes for a 6-byte record | blocks are where compiled code looks and records above stacks, all inside their mappings; only what `munmap` did not release has no owner |
| `startup` | 4-bit words, a ring of 3 entries, up to 2 arguments and variables, 7 auxiliary vectors, 2 init functions | vectors, ring and root are right, or nothing of the program runs |
| `unchecked_install` | the same | a disagreement with `thread_local.h`, below |
| `io_calls` | 2 fibers, 3-bit `int`, a pipe of 3 bytes | calls answer as the system calls would |
| `uc_scheduler` | 3 fibers, 3 operations, 2 slots, 2 CQ entries, 2 completions per request | one request per record, completions in order, no waiting fiber stranded |
| `strings` | 5 bytes of memory, 2 byte values; blocks of 4, scalars of 2, objects of up to 8 bytes | every overlap, length and content; every pair of objects |

Four fibers allow a join cycle of two with a bystander in the ring and another
in the queue, a join overtaken by a detach, an address reused while a joiner
waits, and, with one SQE slot and two CQ entries, a flush in mid-sweep and the
admission limit.  Short submissions need two slots and are in `reactor_live`.
In `ring`, three operations fill the batch and the completion queue, indices
modulo 6 wrap after two laps of the queue, and with three slots a remainder of two
overlaps the slots it is moved to.  In `switch`, three fibers nest resumes
three deep below the control stack.  In `thread_local`, alignments run from less
than a pointer to several pages, and sizes up to sums that overflow; two live
blocks are enough for an overlap, and the stacks' lengths lie at and above the
record's size, aligned and not, and past a page.  In `uc_scheduler`, two slots fill for
a third operation, two CQ entries overflow, and a request with two completions has
one that is not the last.  In `io_calls` the counts lie at
and past `INT_MAX`, 2^32 and `SSIZE_MAX` of the instance, and 3 bytes through a pipe of 3
make transfers short.  `strings` reaches two blocks, a block and a scalar, and every
remainder; two byte values suffice because an order of bytes is decided by one pair.
`Total` in `IoCalls` and `MaxItems` in `UcScheduler` bound what would go on for ever; the
other states are finite without further bounds.  Spawned fibers, and operations, are symmetric; the liveness runs
do not use symmetry.

Deadlock is checked except where the system may stop: after an exit or a fault in
`switch`, a trap in `thread_local`, a pipe on which both fibers wait in `io_calls`, fibers
that have all returned in `uc_scheduler`, and a comparison that is over in `strings`.  For `Scheduler` it means that the reactor never
sleeps in the kernel with nothing in flight, and that the second append of
`park` always finds a slot.

Fairness: `FairSpec` of `Scheduler` is weak fairness of the reactor's own steps.
It says that a resumed fiber makes a request in the end, and that a system call
that can return does.  Nothing is assumed about when operations finish;
`FinishedIsWoken` speaks of finished ones.  `FairUcSpec` of `UcRing` says that an
enter is not interrupted for ever, and that one that waits posts what has ended
(`Progress`).  `SubmitReturns` therefore allows for a submit that waits for completions
of operations that do not end.  The other specifications have no fairness.

Every property has a mutation: a definition named `Bug...` next to the one it
changes, under which TLC finds the property violated.

### Disagreements found

`two_places`: `.scratch/scheduler.md:28` says that `ready` and `parked` "count the
two places a live fiber can stand".  A fiber blocked in JOIN stands in neither;
`joining_count` counts it.  The document predates JOIN; the code is consistent
with its own comments.

`unchecked_install`: `thread_local.h:42` says of the availability of the thread register
"Ask at initialization, before the first install", line 47 that "The caller has confirmed
availability; without it the write traps", and `.scratch/libuc.md:111` that "Capability
is checked once before the scheduler begins".  `__libuc_start` does not ask, and
`__libuc_fiber_resume` installs.  On x86-64 without FSGSBASE the first resume traps
(`FirstResume`) instead of `__libuc_start` returning 127.  `RunsOnlyStarted` shows that
nothing of the program has run by then.

## Proofs

A theorem holds for every value of the constants that satisfies the named
assumptions.  Each inductive invariant below is first checked by TLC on the instance
of the run.  `DataLemmas` has what the proofs share: sequences without duplicates,
remainders and multiples, and two facts that stand in for induction.  `LeastNatural`
says that a nonempty set of naturals has a least element, so a claim about all
naturals follows from there being no least counterexample; `IterationExists` and
`IterationUnique` say that a function defined by recursion over `0 .. n` exists and
is the only one.

`PrimitiveProofs` proves, for every set of fibers, that the links, the two ends
and the count always describe the same queue (`LinksAlwaysSpellOrder`) and that
the list implements a FIFO (`ListImplementsFifo`).  The inductive invariant is
`ListInv`: the links alone are not inductive, because overwriting the link of the
tail is harmless only if the tail occurs once in the queue.  The only assumption
is that `Null` is no fiber.

`SchedulerProofs` and `ThreadsProofs` prove every safety property of the `reactor`
run for every program, every finite set of fibers and every ring with at least one entry:
`FiberInOnePlace`, `CountersAreExact`, `SweepFindsFibers`, `QueueNeverOverflows`,
`JoinersAreKept`, `DrainedIsOver`, `DrainTrapIsRight`, `SpawnerRunsFirst`,
`StatusIsDelivered` and `ReactorImplementsThreads`.  They rest on one inductive
invariant, `Inv`.  `OnePlace` alone is not inductive.  It needs

- the counters to be exact, because the loop condition and the admission limit
  read only the counters;
- `JoinedStaysJoinable`, because an exit wakes its joiner only while the record
  still names it;
- `TurnsHaveFibers`, because the dequeue does not test for an empty queue;
- `ControlInv`, which says what holds at each place in `run`: during a flush in
  `park` exactly one fiber is in no queue, and the limit has left room for it.

`Placed` restates `OnePlace` set by set, which is the form the step lemmas use.
There is one lemma per request and per ring step; `RequestStep` and `InvNext`
combine them.  `DrainTrapIsRight` then needs no induction: with both queues empty, every
live fiber is a joiner (`OnlyWaitersLeft`), so following joiners stays inside a finite
set.  `SpawnerRunsFirst` follows from an order lemma for each kind of step.  The
assumptions are those named in `Scheduler`: finitely many fibers, `Null` outside
them and outside the statuses, a ring with at least one entry on each side, and a
nonempty set of integer statuses none of which is a fiber.

For `ReactorImplementsThreads`, `Inv` gives what the mapping reads: a fiber is in at
most one place, so its stage is the one its place says (`StageIs`), and a request is
made by a fiber that runs.  There is one lemma per request (`SpawnIsCreate`,
`JoinWaitsIsJoin`, `ExitIsExit`, ...) and one for a reaped completion
(`ReapIsUnblocks`); the rest leave the queue and the records alone.  One invariant is
new, `StatusHeld`: only an exited record holds a status, which a join of it hands over.

`PrimitiveProofs` also proves the properties of the `switch` run for any set of fibers
and so for any depth of nesting: `ResumeKeepsThreadPointer`, `ReturnFramesLive`,
`StoppedKeepStacks`, `EndedStayEnded`, `RequestsNameTheirFiber` and
`EndingReachesResumer`.  The invariant adds to the properties
that a stack that runs or waits is itself being resumed and that a waiting stack's
frame holds the thread pointer it left (`Sound`).  A suspension under the running fiber's
own block keeps `Sound`.  One under the block of a fiber that is not being resumed faults.
One under the block of another that is being resumed is the model's last step;
`MisdirectedStep` shows what still holds after it, and `Inv` is that together with `Sound`
up to there.  The only assumption is that the constants are distinct.

`RingProofs` proves the two safety properties of the `ring` run, for any number of operations and
slots and any CQ size that divides the range of the indices: `NoOperationLost` and
`SlotsImplementQueues`, the refinement of `IoRing`.  The abstract queues are what the
slots and the entries between head and tail hold (`Staged`, `Posted`), so each step
needs a lemma on what it does to them: `AppendStages`, `EnterShortTakes`, `ShiftKeeps`,
`PostAppends`, `ReapTakes`.  In the middle of the draft's loop `Staged` is read from
both ends of the slots.  The invariant, `RingInv`, says that the four places of an
operation are separate and hold no more than the CQ has entries.  Without that count
the kernel's store behind the tail could overwrite an entry that is not yet reaped;
`WrapEntry` and `TailEntry` show that with it the wrapped indices are different entries.

`UcSchedulerProofs` proves the properties of the `uc_scheduler` run for any number of
fibers, operations, slots and completions per request: `OneRequestPerRecord`,
`WaiterHasOperation` and `CompletionsInOrder`.  None is inductive alone.  A record may be
prepared again only once nothing of its last request is left in the ring; that the last
completion is really the last needs the order of all those before it; and that a waiting
fiber's operation is on its way needs that one in flight is staged, with the kernel, or
has its last completion to come.  `UcInv` has these together.  A dispatch is one
step in which a completion may be noted, its owner runs, and an operation is
prepared and staged, so `Found` says what the owner finds in the middle of it, and there
is one lemma for each way the owner goes on: `Ends`, `Leaves`, `GoesOn`, `Traps` and
`Stages`.  The constants need no assumption.

`FiberMemoryProofs` proves the properties of the `thread_local` run for any word width,
page size, executable, TCB and record size, and any set of fibers:
`BlocksAreContained`, `BlocksAreFound`, `RecordsAreAboveStacks` and `MappingsAreOwned`.
The arithmetic is in lemmas without state: what `AlignDown` returns (`AlignedDown`,
`AlignedUp`), that of two powers of two one divides the other (`PowersDivide`), where
each architecture places block and TCB (`PlacedX86`, `PlacedAarch64`), and that the
slack in the mapping's length is enough to raise the base (`CreatedFits`), and the
check at `thread_local.c:134` never fails (`RaiseFits`), which is why `Create` has no
step for it.  The invariant, `MemInv`, says that each block and stack that was made fits its own mapping,
and that the mappings that no `munmap` failed to release (`Owned`) are held apart
(`Held`); the count in `MappingsOwned` follows
because holders of mappings that are apart are different.  It assumes of the constants what the
code relies on: sizes and header fields are unsigned, a page is a multiple of the
alignments, `alignof(void *)` is a power of two.  `PowerAssumption` states what
exponentiation is on the powers that fit a word, which the provers do not know for a
symbolic exponent; TLC evaluates it.

The third part of `PrimitiveProofs` is about the string functions.  `MoveIsWhole` holds
for any memory, overlap and length: the invariant, `MoveInv`, says that the bytes stored
so far are as promised and all others as at the call.  A step reads a source byte
that may lie in the destination; `SourceUntouched` shows that the direction `memmove`
chose has not overwritten it yet.  `ComparesInOrder` holds for any block and scalar width
and any range of a byte.  `CompareInv` says that everything before the offset is equal;
the hard step is a scalar that differs.  `ShiftedDigits` shows that dividing a number by
the range of a byte yields its digits again, `BswapLoad` that the swapped scalar is the
number whose most significant digit is the first byte in memory, and `LeadingOrder`
that the first different digit orders two such numbers.  `ObjectAssumption` asks for
positive widths and blocks of whole scalars, which `memcmp.c:3-7` fixes.

`LibcProofs` proves the properties of the `io_calls` run for every width of `int`, every
pipe and every set of fibers: `CallsAreSystemCalls` and `SqesCarryArguments`.  The invariant,
`IoInv`, says of a fiber between calls that it has the outcome of the system call, and of
one in a call that the SQE still encodes the arguments, and that the answer that is
on its way is the one the kernel would have given.  `IntRoundTrip` shows that an int comes
back from the SQE's unsigned fields.  The count is the one argument that is not carried
whole; clamping it is harmless because `MAX_RW_COUNT` is no larger than what it is clamped to.
`PowerAssumption` of `Widths` is as in `FiberMemoryProofs`.  `IoAssumption` and
`CallAssumption` say that counts and ints fit their types and that `Null` is no call.

`LibcProofs` also proves the properties of the `startup` run for any width,
structure sizes and process images: `CreatedRingUsable`, `FailedRingUnmapped`,
`VectorsAreFound` and `OnlyStartedRuns`.  `RingInv` says which mappings exist at each step of the creation and that
the lengths did not overflow; that the entries a wrapping head selects are different
needs the number of entries to divide the range of the index (`EntriesDivideWord`).
`WordsForm` says which word of the initial stack is which, `EnvironmentEndsThere` that the
scan for the null behind the environment stops at that null, and `AuxvGetMeans` that the loop
over the vector finds the first entry of a type.  `StartInv` adds what each place in the startup has
behind it (`PassedInv`).  `ImageAssumption` is what the kernel gives a process: an
auxiliary vector without a null type inside, and an argument count that is either too
large for an `int` or not above the number of arguments; `NullAssumption` and
`StartAssumption` keep `Null` apart from rings and the root.

Only model-checked are the four liveness properties, `ReadyIsResumed`,
`FinishedIsWoken`, `JoinDeadlockTraps` and `SubmitReturns`: they need
fairness and `ENABLED`, which TLAPS 1.4.5 does not prove.

## Plan

1. `UcScheduler` again, once the draft has its loop and its adapters.
2. The registers of `fiber_switch` and `fiber_start`.

## Not modelled

- System call stubs (`src/syscall.h`, `src/arch/*/syscall_arch.h`): one instruction each;
  what the calls do is part of the models that use them.
- Which registers `fiber_switch` and `fiber_start` save and load, and in which member of
  the context: `FiberSwitch` has the stack a context continues on.
- `thrd_equal`, which compares two handles and has no state.
- The draft's ready queue, driver loop and adapters, which do not exist yet.
- `ubsan.c`, whose handlers only trap, the linker script and the headers' constants.
- More than one scheduler: the code makes one, and nothing shares state with it but
  the kernel.
