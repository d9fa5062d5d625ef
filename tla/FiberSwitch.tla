---------------------------- MODULE FiberSwitch -----------------------------
(***************************************************************************)
(* Control transfer between stacks: __libuc_fiber_resume, the calls by     *)
(* which a fiber suspends or ends, and the thread pointer (src/fiber/      *)
(* fiber.c, fiber_switch of src/arch).  A resume may be made on any stack, *)
(* so resumes nest: the reactor resumes the root, whose body may resume    *)
(* other fibers or run a scheduler of its own.                             *)
(*                                                                         *)
(* A saved register context is abstracted to the stack it continues on,    *)
(* and a thread pointer to the owner of the block it points into.  A stack *)
(* has at most one resume pending, the innermost call on it, so a frame    *)
(* `here` of __libuc_fiber_resume is named by its stack.                   *)
(***************************************************************************)
EXTENDS Naturals, FiniteSets, FiberRecords

CONSTANTS
  Control,     \* the stack the process started on, which runs the reactor
  Bare         \* thread-local blocks that belong to no fiber

ASSUME SwitchAssumption ==
  /\ Fibers \cap Bare = {}
  /\ {Control, Null} \cap (Fibers \cup Bare) = {}
  /\ Control # Null

Stacks == Fibers \cup {Control}
Blocks == Fibers \cup Bare

VARIABLES
  cpu,           \* the stack that executes
  thread_pointer,
  mapped,        \* fibers with a record
  context,       \* fiber->context
  return_to,     \* fiber->return_to
  frame,         \* per stack, its pending resume: the fiber and the caller's
                 \* thread pointer
  delivered,     \* the last request a resume returned: whose stack it is on,
                 \* and the fiber it was stamped with
  outcome,       \* "runs", "exited", what faulted, or "misdirected": a fiber
                 \* left through the record of another, and the model ends there
  ended,         \* history: fibers that have ended
  view           \* history: the thread pointer each stack set for itself

record == <<mapped, context, return_to>>
history == <<ended, view>>
vars == <<cpu, thread_pointer, record, frame, delivered, outcome, history>>

NoFrame == [fiber |-> Null, caller |-> Null]

TypeOK ==
  /\ cpu \in Stacks
  /\ thread_pointer \in Blocks \cup {Null}
  /\ mapped \in SUBSET Fibers
  /\ context \in [Fibers -> Stacks \cup {Null}]
  /\ return_to \in [Fibers -> Stacks \cup {Null}]
  /\ frame \in [Stacks -> [fiber : Fibers \cup {Null}, caller : Blocks \cup {Null}]]
  /\ delivered \in [stack : Stacks \cup {Null}, fiber : Fibers \cup {Null}]
  /\ outcome \in {"runs", "exited", "misdirected",
                  "suspend_faults", "end_faults", "resume_faults"}
  /\ ended \in SUBSET Fibers
  /\ view \in [Stacks -> Blocks \cup {Null}]

Init ==
  /\ cpu = Control /\ thread_pointer = Null
  /\ mapped = {}
  /\ context = [f \in Fibers |-> Null] /\ return_to = [f \in Fibers |-> Null]
  /\ frame = [s \in Stacks |-> NoFrame]
  /\ delivered = [stack |-> Null, fiber |-> Null]
  /\ outcome = "runs" /\ ended = {}
  /\ view = [s \in Stacks |-> Null]

\* __libuc_fiber_current: the fiber in the TCB of the installed block, which
\* __libuc_fiber_spawn set and a bare block leaves null.  The block of a fiber
\* that was destroyed is gone, and reading it faults as a null fiber does.
Current == IF thread_pointer \in mapped THEN thread_pointer ELSE Null

Fault(what) ==
  /\ outcome' = what
  /\ UNCHANGED <<cpu, thread_pointer, record, frame, delivered, history>>

-----------------------------------------------------------------------------
(* fiber_context_make, and the two halves of fiber_switch: what it stores  *)
(* through save, and where it goes on through restore.                     *)

MadeContext(f) == [context EXCEPT ![f] = f]

SavedContext(f) == [context EXCEPT ![f] = cpu]

ContinueOn(stack) == cpu' = stack

-----------------------------------------------------------------------------
(* Operations of the running stack.                                        *)

\* The context starts on the new stack, and the TCB names the fiber.  A spawn
\* that fails changes nothing.
Spawn(f) ==
  /\ f \notin mapped
  /\ mapped' = mapped \cup {f}
  /\ context' = MadeContext(f)
  /\ return_to' = [return_to EXCEPT ![f] = Null]
  /\ ended' = ended \ {f}
  /\ view' = [view EXCEPT ![f] = f]
  /\ UNCHANGED <<cpu, thread_pointer, frame, delivered, outcome>>

\* A fiber is destroyed from another stack and while no resume of it is
\* pending: its stack goes away.
Destroy(f) ==
  /\ f \in mapped /\ return_to[f] = Null
  /\ mapped' = mapped \ {f}
  /\ UNCHANGED <<cpu, thread_pointer, context, return_to, frame, delivered,
                 outcome, history>>

\* __libuc_thread_local_block_install, of any block there is: a bare one, the
\* fiber's own, or another fiber's.
Install(b) ==
  /\ b \in Bare \cup mapped
  /\ thread_pointer' = b
  /\ view' = [view EXCEPT ![cpu] = b]
  /\ UNCHANGED <<cpu, record, frame, delivered, outcome, ended>>

BugResumeKeepsBlock(f) ==
  /\ return_to' = [return_to EXCEPT ![f] = cpu]
  /\ frame' = [frame EXCEPT ![cpu] = [fiber |-> f, caller |-> f]]
  /\ thread_pointer' = f
  /\ ContinueOn(context[f])
  /\ UNCHANGED <<mapped, context, delivered, outcome, history>>

\* The first half of __libuc_fiber_resume, up to the switch onto f's stack.
SwitchIn(f) ==
  /\ return_to' = [return_to EXCEPT ![f] = cpu]
  /\ frame' = [frame EXCEPT ![cpu] = [fiber |-> f, caller |-> thread_pointer]]
  /\ thread_pointer' = f
  /\ ContinueOn(context[f])
  /\ UNCHANGED <<mapped, context, delivered, outcome, history>>

\* The caller resumes a fiber that is stopped, as the reactor does with the
\* one it has just dequeued.  A poisoned context faults at the jump.
Resume(f) ==
  /\ f \in mapped /\ return_to[f] = Null
  /\ IF context[f] = Null THEN Fault("resume_faults") ELSE SwitchIn(f)

\* The __libuc_fiber_resume that waits on stack s goes on: it puts its caller's
\* thread pointer back, stamps the request and returns it.
Land(s, stamp) ==
  /\ frame' = [frame EXCEPT ![s] = NoFrame]
  /\ thread_pointer' = frame[s].caller
  /\ ContinueOn(s)
  /\ delivered' = [stack |-> cpu, fiber |-> stamp]
  /\ UNCHANGED <<mapped, view>>

BugKeepReturn(f, ends) ==
  LET s == return_to[f]
      r == frame[s].fiber
      saved == SavedContext(f)
  IN /\ context' = IF ends THEN [saved EXCEPT ![r] = Null] ELSE saved
     /\ UNCHANGED return_to
     /\ Land(s, r)

BugNoPoison(f, ends) ==
  LET s == return_to[f]
      r == frame[s].fiber
  IN /\ context' = SavedContext(f)
     /\ return_to' = [return_to EXCEPT ![r] = Null]
     /\ Land(s, r)

BugAlwaysPoison(f, ends) ==
  LET s == return_to[f]
      r == frame[s].fiber
  IN /\ context' = [context EXCEPT ![r] = Null]
     /\ return_to' = [return_to EXCEPT ![r] = Null]
     /\ Land(s, r)

BugStampCurrent(f, ends) ==
  LET s == return_to[f]
      r == frame[s].fiber
      saved == SavedContext(f)
  IN /\ context' = IF ends THEN [saved EXCEPT ![r] = Null] ELSE saved
     /\ return_to' = [return_to EXCEPT ![r] = Null]
     /\ Land(s, IF frame[s].caller \in Fibers THEN frame[s].caller ELSE Null)

\* fiber_switch saves the running stack into f->context and continues at
\* f->return_to, in the __libuc_fiber_resume of the fiber r.  An ended fiber's
\* context is poisoned, and the pointer to the frame cleared.  (What an exit
\* does to fiber->life is in Scheduler.)
SwitchOut(f, ends) ==
  LET s == return_to[f]
      r == frame[s].fiber
      saved == SavedContext(f)
  IN /\ context' = IF ends THEN [saved EXCEPT ![r] = Null] ELSE saved
     /\ return_to' = [return_to EXCEPT ![r] = Null]
     /\ Land(s, r)

\* A switch from a null fiber, or to a null frame, faults.
CanSwitchOut(f) == f \in Fibers /\ return_to[f] # Null

\* Under the block of another fiber that is itself being resumed, the running
\* stack is saved in that fiber's record and continues that fiber's resumer.
Directed == outcome' = IF Current = cpu THEN outcome ELSE "misdirected"

\* __libuc_fiber_yield, await, join, detach and start: the same transfer with
\* different requests, all by __libuc_fiber_current.
Suspend ==
  IF CanSwitchOut(Current)
  THEN SwitchOut(Current, FALSE) /\ Directed /\ UNCHANGED ended
  ELSE Fault("suspend_faults")

\* __libuc_fiber_exit ends the current fiber.
Exit ==
  IF CanSwitchOut(Current)
  THEN SwitchOut(Current, TRUE) /\ Directed /\ ended' = ended \cup {Current}
  ELSE Fault("suspend_faults")

BugReturnByThreadPointer ==
  /\ cpu \in Fibers
  /\ IF CanSwitchOut(Current)
     THEN SwitchOut(Current, TRUE) /\ ended' = ended \cup {cpu} /\ UNCHANGED outcome
     ELSE Fault("end_faults")

\* run_fiber: the entry returns, with whatever block installed; by pointer.
ReturnFromEntry ==
  /\ cpu \in Fibers
  /\ IF CanSwitchOut(cpu)
     THEN SwitchOut(cpu, TRUE) /\ ended' = ended \cup {cpu} /\ UNCHANGED outcome
     ELSE Fault("end_faults")

\* __libuc_fiber_process_exit, by pointer too; whoever resumed the fiber ends
\* the process.  The context is kept.
ProcessExit ==
  /\ cpu \in Fibers
  /\ IF CanSwitchOut(cpu)
     THEN SwitchOut(cpu, FALSE) /\ outcome' = "exited" /\ UNCHANGED ended
     ELSE Fault("end_faults")

Next ==
  /\ outcome = "runs"
  /\ \/ \E f \in Fibers : Spawn(f) \/ Destroy(f) \/ Resume(f)
     \/ \E b \in Blocks : Install(b)
     \/ Suspend \/ Exit \/ ReturnFromEntry \/ ProcessExit

Spec == Init /\ [][Next]_vars

-----------------------------------------------------------------------------
(* Properties.                                                             *)

\* Whatever a stack resumes, and whatever blocks the resumed fibers install
\* meanwhile, it continues with the thread pointer it left: its own thread-
\* local variables, errno among them (fiber.c:96-101).
ThreadPointerKept == thread_pointer = view[cpu]

\* A frame on a stack and the return_to that points at it are set and cleared
\* together, so no fiber keeps a pointer to a frame that has returned
\* (fiber.h, "dead between resumes"); and a fiber being resumed is running or
\* waits for one it has itself resumed, so pending resumes form one chain that
\* ends at the running stack, until a fiber leaves through another's record.
FramesPaired ==
  /\ \A f \in Fibers, s \in Stacks : return_to[f] = s <=> frame[s].fiber = f
  /\ outcome # "misdirected" =>
       \A f \in Fibers : return_to[f] # Null => (f = cpu) # (frame[f].fiber # Null)
  /\ frame[cpu].fiber = Null

\* A stopped fiber's context continues on its own stack, whatever blocks the
\* fibers have installed and however their resumes are nested.  What breaks it
\* is one call alone, which nothing in the code refuses: to suspend or exit with
\* the block of another fiber installed that is itself being resumed
\* (fiber.c:119-127).  It breaks the record of that fiber and no other.  With a
\* bare block or a stopped fiber's the call faults, and an entry that returns
\* goes by pointer.
StoppedOnOwnStack ==
  \A f \in mapped :
    /\ return_to[f] = Null /\ f \notin ended
    /\ ~(outcome = "misdirected" /\ f = delivered.fiber)
    => context[f] = f

\* The request a resume hands back lies on the stack of the fiber it is
\* stamped with, so an answer that arrives later wakes the asker (fiber.c:114),
\* unless the asker suspended through another fiber's record.
RequestFromResumed ==
  outcome # "misdirected" /\ delivered.fiber # Null => delivered.stack = delivered.fiber

\* An entry that returns, and main, reach their resumer whatever block is
\* installed (fiber.c:10, fiber.h:125).
EndingNeverFaults == outcome # "end_faults"

\* A fiber that has ended is never on the processor again: resuming it faults
\* (fiber.h:98).
EndedNeverRuns == cpu \notin ended
=============================================================================
