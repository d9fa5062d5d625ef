---------------------------- MODULE FiberMemory -----------------------------
(***************************************************************************)
(* The memory of a fiber: __libuc_fiber_spawn and __libuc_fiber_destroy    *)
(* (src/fiber/fiber.c:35-89) over the blocks of ThreadLocal, whose owners  *)
(* are the fibers.  A fiber is a stack mapping with the record at its top  *)
(* and a block mapping.  A step is one call of mmap or munmap and what     *)
(* follows it.                                                             *)
(***************************************************************************)
EXTENDS ThreadLocal

CONSTANTS
  RecordSize,   \* sizeof(struct __libuc_fiber)
  RecordAlign,  \* alignof(struct __libuc_fiber)
  StackAlign,   \* what the ABIs align the stack pointer to: 16
  Lengths       \* stack lengths callers ask for

ASSUME RecordAssumption ==
  /\ {RecordSize, RecordAlign, StackAlign} \subseteq Nat \ {0} /\ Lengths \subseteq Nat
  /\ Page % RecordAlign = 0 /\ Page % StackAlign = 0

\* What is kept of a fiber, and of a running call.
FiberMemoryRecord == [stack : Nat, stack_length : Nat, record : Nat, sp : Nat]
Calls == [fn : {"spawn", "destroy"}, owner : Owners, ok : BOOLEAN]

ASSUME NoFiberAssumption == Null \notin FiberMemoryRecord \cup Calls

VARIABLES
  fiber,        \* per owner, [stack, stack_length, record, sp], or Null
  call,         \* the running spawn or destroy: [fn, owner, ok], or Null
  trapped,      \* a destroy reported failure, and its caller trapped
  lost, kept    \* history: what a munmap failed to release, in a spawn that was
                \* undone and in a destroy

leaks == <<lost, kept>>
memoryVars == <<vars, fiber, call, trapped, leaks>>

MemoryInit ==
  /\ Init
  /\ fiber = [o \in Owners |-> Null] /\ call = Null /\ trapped = FALSE
  /\ lost = {} /\ kept = {}

\* Mutation: the record ends where the mapping does, aligned or not.
BugRecordAt(stack, length) == stack + length - RecordSize

\* The record takes the top of the mapping, lowered to its alignment.
RecordAt(stack, length) == AlignDown(stack + length - RecordSize, RecordAlign)

\* fiber_context_make is given the record's address as the top of the stack.
StackTop(stack, length) == AlignDown(RecordAt(stack, length), StackAlign)

StackMap(o) == [start |-> fiber[o].stack, length |-> fiber[o].stack_length]
BlockMap(o) == [start |-> block[o].start, length |-> block[o].length]

\* A stack that cannot hold the record is refused.
HoldsRecord(length) == length > RecordSize

\* The refusal and a failed mmap return before anything has changed.
SpawnMaps(o, length) ==
  /\ call = Null /\ fiber[o] = Null /\ HoldsRecord(length)
  /\ \E start \in {Page * k : k \in 1 .. Word \div Page} :
       /\ Free(start, length)
       /\ mappings' = mappings \cup {[start |-> start, length |-> length]}
       /\ fiber' = [fiber EXCEPT ![o] =
            [stack |-> start, stack_length |-> length,
             record |-> RecordAt(start, length), sp |-> StackTop(start, length)]]
  /\ call' = [fn |-> "spawn", owner |-> o, ok |-> TRUE]
  /\ UNCHANGED <<arch, exe, layout, block, trapped, leaks>>

SpawnDone(o) ==
  /\ call # Null /\ call.fn = "spawn" /\ call.owner = o
  /\ Create(o)
  /\ call' = Null
  /\ UNCHANGED <<fiber, trapped, leaks>>

\* Mutation: the stack stays mapped when there is no block.
BugSpawnUndone(o) ==
  /\ call # Null /\ call.fn = "spawn" /\ call.owner = o
  /\ layout' = Layout
  /\ fiber' = [fiber EXCEPT ![o] = Null] /\ call' = Null
  /\ UNCHANGED <<arch, exe, block, mappings, trapped, leaks>>

\* The block could not be created: the stack is unmapped again, and whether it
\* is gone is not looked at.  The spawn is refused either way.
SpawnUndone(o) ==
  /\ call # Null /\ call.fn = "spawn" /\ call.owner = o
  /\ layout' = Layout
  /\ \/ mappings' = mappings \ {StackMap(o)} /\ UNCHANGED lost
     \/ lost' = lost \cup {StackMap(o)} /\ UNCHANGED mappings
  /\ fiber' = [fiber EXCEPT ![o] = Null] /\ call' = Null
  /\ UNCHANGED <<arch, exe, block, trapped, kept>>

\* munmap of the block may fail; the destroy goes on with the stack.
DestroyBlock(o) ==
  /\ call = Null /\ ~trapped /\ fiber[o] # Null
  /\ \/ /\ Destroy(o) /\ call' = [fn |-> "destroy", owner |-> o, ok |-> TRUE]
        /\ UNCHANGED kept
     \/ /\ call' = [fn |-> "destroy", owner |-> o, ok |-> FALSE]
        /\ block' = [block EXCEPT ![o] = Null] /\ kept' = kept \cup {BlockMap(o)}
        /\ UNCHANGED <<arch, exe, layout, mappings>>
  /\ UNCHANGED <<fiber, trapped, lost>>

\* The destroy succeeds when both mappings are gone.
Reported(released) == call.ok /\ released

\* The geometry was read out of the record before this; the caller traps on a
\* destroy that is not reported as done (Scheduler!DestroyFails).
DestroyStack ==
  /\ call # Null /\ call.fn = "destroy"
  /\ \E released \in BOOLEAN :
       /\ mappings' = IF released THEN mappings \ {StackMap(call.owner)} ELSE mappings
       /\ kept' = IF released THEN kept ELSE kept \cup {StackMap(call.owner)}
       /\ trapped' = ~Reported(released)
  /\ fiber' = [fiber EXCEPT ![call.owner] = Null] /\ call' = Null
  /\ UNCHANGED <<arch, exe, layout, block, lost>>

MemoryNext ==
  /\ ~trapped
  /\ \/ \E o \in Owners :
          \/ \E length \in Lengths : SpawnMaps(o, length)
          \/ SpawnDone(o) \/ SpawnUndone(o) \/ DestroyBlock(o)
     \/ DestroyStack

MemorySpec == MemoryInit /\ [][MemoryNext]_memoryVars

-----------------------------------------------------------------------------
Spawned == {o \in Owners : fiber[o] # Null}

\* For every length that is accepted the record lies aligned inside its own
\* stack mapping, and the first stack pointer inside it too, aligned and not
\* above the record: "the stack grows down away from it" (fiber.c:50-55).
RecordAboveStack ==
  \A o \in Spawned :
    /\ Interval(fiber[o].record, RecordSize) \subseteq Bytes(StackMap(o))
    /\ fiber[o].record % RecordAlign = 0 /\ fiber[o].sp % StackAlign = 0
    /\ fiber[o].stack <= fiber[o].sp /\ fiber[o].sp <= fiber[o].record

\* Through failed spawns, reused addresses and destroys in any order, every
\* mapping that no munmap failed to release is the stack or the block of a fiber
\* that is alive or in the middle of its spawn or destroy, each of those is a
\* mapping of its own, and a fiber outside a spawn or destroy has both.  What a
\* munmap failed to release stays mapped: a destroy that could not release a
\* mapping is the one that is reported as failed (fiber.c:77-89,
\* thread_local.c:162-166), a spawn's stack is lost unreported (fiber.c:64-67).
MappingsOwned ==
  /\ mappings \ (lost \cup kept)
       = {StackMap(o) : o \in Spawned} \cup {BlockMap(o) : o \in Live}
  /\ Cardinality(mappings \ (lost \cup kept)) = Cardinality(Spawned) + Cardinality(Live)
  /\ lost \cup kept \subseteq mappings
  /\ Live \subseteq Spawned
  /\ \A o \in Spawned \ Live : call # Null /\ call.owner = o
  /\ kept # {} <=> trapped \/ (call # Null /\ ~call.ok)
=============================================================================
