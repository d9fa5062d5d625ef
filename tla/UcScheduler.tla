----------------------------- MODULE UcScheduler -----------------------------
(***************************************************************************)
(* src/uc/scheduler/scheduler.c, the draft reactor over the public fiber   *)
(* API (not built yet).  An operation record lives as long as its kernel   *)
(* request, which may complete many times (IORING_CQE_F_MORE); its fiber   *)
(* asks for the next completion with REQUEST_NEXT.                         *)
(*                                                                         *)
(* The loop around dispatch and handle_completion does not exist yet, and  *)
(* neither do the operation adapters.  They are modelled from the draft's  *)
(* comments: a ready queue of the fibers that yielded, taken in any order, *)
(* a driver that submits, reaps and dispatches, and fibers that ask for    *)
(* their own operations or idle ones, and prepare a completed record again *)
(* before they ask for it.  An owner need not be waiting when a completion *)
(* of its operation arrives: it may have yielded, wait for another of its  *)
(* operations, or have returned.                                           *)
(***************************************************************************)
EXTENDS Naturals, Sequences, FiniteSets, Functions

CONSTANTS
  Fibers, Ops, NoOp,
  SqEntries, CqEntries,
  MaxItems      \* bound: completions of one kernel request

ASSUME NoOpAssumption == NoOp \notin Ops

VARIABLES
  current,      \* [Fibers -> the operation of the REQUEST_NEXT it is suspended
                \* in, or NoOp]
  ready,        \* fibers on the ready queue
  returned,     \* fibers that have returned
  state, owner, \* the fields of each operation
  batch, inflight, finished, cq,   \* the ring, as in IoRing
  items,        \* [Ops -> completions the kernel made of the current request]
  got,          \* [Ops -> completions the owner was resumed with]
  trapped

fiberVars == <<current, ready, returned>>
opVars == <<state, owner>>
ringVars == <<batch, inflight, finished, cq>>
vars == <<fiberVars, opVars, ringVars, items, got, trapped>>

None == "none"

\* The adapters' records are prepared before their first use.
Init ==
  /\ current = [f \in Fibers |-> NoOp] /\ ready = Fibers /\ returned = {}
  /\ state = [o \in Ops |-> "PREPARED"] /\ owner = [o \in Ops |-> None]
  /\ batch = <<>> /\ inflight = {} /\ finished = <<>> /\ cq = <<>>
  /\ items = [o \in Ops |-> 0] /\ got = [o \in Ops |-> 0]
  /\ trapped = FALSE

-----------------------------------------------------------------------------
(* What a fiber may ask for when it is resumed: s is the state of the      *)
(* operations at that moment.  It goes on with any operation of its own,   *)
(* and starts any that is not in flight.                                   *)

MayNext(f, o, s) == s[o] = "IN_FLIGHT" => owner[o] = f

\* An adapter prepares a completed record again before it asks for it.
Prepare(o, s) == IF s[o] = "COMPLETE" THEN [s EXCEPT ![o] = "PREPARED"] ELSE s

\* Mutation: the operation that found the batch full is left out of it.
BugHandleNext(f, o, s, g) ==
  \/ /\ s[o] # "PREPARED"
     /\ state' = s /\ got' = g
     /\ UNCHANGED <<batch, inflight, owner, items, trapped>>
  \/ /\ s[o] = "PREPARED"
     /\ IF Len(batch) = SqEntries
        THEN batch' = <<>> /\ inflight' = inflight \cup Range(batch)
        ELSE batch' = Append(batch, o) /\ UNCHANGED inflight
     /\ owner' = [owner EXCEPT ![o] = f]
     /\ state' = [s EXCEPT ![o] = "IN_FLIGHT"]
     /\ items' = [items EXCEPT ![o] = 0] /\ got' = [g EXCEPT ![o] = 0]
     /\ UNCHANGED trapped

\* Mutation: an operation in flight is queued again.
BugHandleNextAgain(f, o, s, g) ==
  /\ Len(batch) < SqEntries
  /\ batch' = Append(batch, o)
  /\ owner' = [owner EXCEPT ![o] = f]
  /\ state' = [s EXCEPT ![o] = "IN_FLIGHT"]
  /\ items' = [items EXCEPT ![o] = 0] /\ got' = [g EXCEPT ![o] = 0]
  /\ UNCHANGED <<inflight, trapped>>

\* An operation that is not PREPARED only waits for its next completion.  A
\* full batch is submitted first, and a failure to do so is a trap; submit(0)
\* takes the whole batch or fails, so the second append has a slot.
HandleNext(f, o, s, g) ==
  \/ /\ s[o] # "PREPARED"
     /\ state' = s /\ got' = g
     /\ UNCHANGED <<batch, inflight, owner, items, trapped>>
  \/ /\ s[o] = "PREPARED" /\ Len(batch) = SqEntries
     /\ trapped' = TRUE
     /\ state' = s /\ got' = g
     /\ UNCHANGED <<batch, inflight, owner, items>>
  \/ /\ s[o] = "PREPARED"
     /\ IF Len(batch) = SqEntries
        THEN batch' = <<o>> /\ inflight' = inflight \cup Range(batch)
        ELSE batch' = Append(batch, o) /\ UNCHANGED inflight
     /\ owner' = [owner EXCEPT ![o] = f]
     /\ state' = [s EXCEPT ![o] = "IN_FLIGHT"]
     /\ items' = [items EXCEPT ![o] = 0] /\ got' = [g EXCEPT ![o] = 0]
     /\ UNCHANGED trapped

\* f leaves the processor without a request for an operation.
Leave(f, s, g) ==
  /\ current' = [current EXCEPT ![f] = NoOp]
  /\ state' = s /\ got' = g
  /\ UNCHANGED <<owner, batch, inflight, items, trapped>>

\* uc_fiber_resume of a fiber that has returned is left open by its interface:
\* the model ends there, as at a trap.
ResumeReturned(s, g) ==
  /\ trapped' = TRUE
  /\ state' = s /\ got' = g
  /\ UNCHANGED <<current, returned, owner, batch, inflight, items>>

\* uc_fiber_resume runs f to its return or its next suspension; s, g and q are
\* state, got and ready as f finds them.  The code only comments on what becomes
\* of a fiber that yields, "Put scheduled back on the ready queue".
Dispatch(f, s, g, q) ==
  \/ f \in returned /\ ResumeReturned(s, g) /\ ready' = q
  \/ f \notin returned /\ returned' = returned \cup {f} /\ ready' = q /\ Leave(f, s, g)
  \/ f \notin returned /\ UNCHANGED returned /\ ready' = q \cup {f} /\ Leave(f, s, g)
  \/ /\ f \notin returned /\ UNCHANGED returned /\ ready' = q
     /\ \E o \in Ops :
          /\ MayNext(f, o, s)
          /\ current' = [current EXCEPT ![f] = o]
          /\ HandleNext(f, o, Prepare(o, s), g)

\* Mutation: the test of IORING_CQE_F_MORE is inverted.
BugCompleted(c) == IF c.more THEN [state EXCEPT ![c.op] = "COMPLETE"] ELSE state

\* The operations after c is noted in its record, before its owner runs.
Completed(c) == IF c.more THEN state ELSE [state EXCEPT ![c.op] = "COMPLETE"]

\* The owner is resumed wherever it is; what it left on the ready queue stays.
HandleCompletion ==
  /\ ~trapped /\ cq # <<>>
  /\ LET c == Head(cq) IN
       Dispatch(owner[c.op], Completed(c), [got EXCEPT ![c.op] = c.item], ready)
  /\ cq' = Tail(cq)
  /\ UNCHANGED finished

-----------------------------------------------------------------------------
(* The driver and the kernel.                                              *)

DispatchReady(f) ==
  /\ ~trapped /\ f \in ready
  /\ Dispatch(f, state, got, ready \ {f})
  /\ UNCHANGED <<finished, cq>>

Enter(n) ==
  /\ ~trapped /\ n \in 1 .. Len(batch)
  /\ batch' = SubSeq(batch, n + 1, Len(batch))
  /\ inflight' = inflight \cup Range(SubSeq(batch, 1, n))
  /\ UNCHANGED <<fiberVars, opVars, finished, cq, items, got, trapped>>

\* A request completes once more, or for the last time.
Complete(o, more) ==
  /\ o \in inflight /\ items[o] < MaxItems - (IF more THEN 1 ELSE 0)
  /\ items' = [items EXCEPT ![o] = @ + 1]
  /\ finished' = Append(finished, [op |-> o, item |-> items[o] + 1, more |-> more])
  /\ inflight' = IF more THEN inflight ELSE inflight \ {o}
  /\ UNCHANGED <<fiberVars, opVars, batch, cq, got, trapped>>

\* A completion that finds the queue full waits in the kernel.
Post ==
  /\ finished # <<>> /\ Len(cq) < CqEntries
  /\ cq' = Append(cq, Head(finished)) /\ finished' = Tail(finished)
  /\ UNCHANGED <<fiberVars, opVars, batch, inflight, items, got, trapped>>

Next ==
  \/ HandleCompletion
  \/ \E f \in Fibers : DispatchReady(f)
  \/ \E n \in 1 .. SqEntries : Enter(n)
  \/ \E o \in Ops, more \in BOOLEAN : Complete(o, more)
  \/ Post

Spec == Init /\ [][Next]_vars

-----------------------------------------------------------------------------
\* The completions on their way to the reactor, oldest first, and the places of
\* those of o among them.
Way == cq \o finished
Coming(o) == {i \in DOMAIN Way : Way[i].op = o}

\* A record serves one kernel request at a time and is stable for as long as the
\* kernel can name it: what is staged, with the kernel or on its way back is
\* IN_FLIGHT and has an owner, it is staged or accepted once, and nothing comes
\* after a last completion, although its owner may ask for it again at any
\* moment, from the ready queue or out of a wait for another operation, and
\* prepares it again as soon as it has seen the last completion
\* (uc/scheduler/scheduler.c:29, 54, 120).
RecordStable ==
  /\ IsInjective(batch) /\ Range(batch) \cap inflight = {}
  /\ \A o \in Range(batch) \cup inflight \cup {c.op : c \in Range(Way)} :
       state[o] = "IN_FLIGHT" /\ owner[o] \in Fibers
  /\ \A c \in Range(Way) : ~c.more => c.op \notin Range(batch) \cup inflight

\* A fiber suspended in REQUEST_NEXT is waiting for something that will resume
\* it: its operation is its own, and staged, with the kernel or on its way back,
\* also when it was appended only after a full batch was submitted, and when the
\* fiber was resumed meanwhile from the ready queue or by another operation's
\* completion (uc/scheduler/scheduler.c:54-75).
NeverStranded ==
  ~trapped => \A f \in Fibers : current[f] # NoOp =>
    /\ owner[current[f]] = f
    /\ \/ current[f] \in Range(batch) \cup inflight
       \/ Coming(current[f]) # {}

\* A fiber is resumed with each completion of its operation once and in the
\* order the kernel made them, the last one last, though they share one
\* completion field and the queue may overflow.  Whether it was waiting for them
\* the code does not ask (uc/scheduler/scheduler.c:115-124).
EachInOrder ==
  \A o \in Ops : state[o] = "IN_FLIGHT" =>
    /\ {Way[i].item : i \in Coming(o)} = got[o] + 1 .. items[o]
    /\ \A i, j \in Coming(o) : i < j => Way[i].item < Way[j].item
    /\ \A i \in Coming(o) : ~Way[i].more => Way[i].item = items[o]
=============================================================================
