------------------------------- MODULE Threads -------------------------------
(***************************************************************************)
(* What the calls of src/threads/thrd.c promise a C11 program: threads     *)
(* that run, wait for an operation or a join, and end.  No run queue, no   *)
(* counters, no ring and no generations; Scheduler implements it.          *)
(***************************************************************************)
CONSTANTS Threads, Main, Nothing, Status

VARIABLES
  stage,      \* [Threads -> "none", "runs", "waits", "joins" or "ended"]
  detached,   \* the detached threads
  awaited,    \* [Threads -> the thread that joins it, or Nothing]
  kept,       \* [Threads -> the status an ended thread keeps, or Nothing]
  answer      \* [Threads -> what its call is about to return, or Nothing]

threadVars == <<stage, detached, awaited, kept, answer>>

ThreadInit ==
  /\ stage = [t \in Threads |-> IF t = Main THEN "runs" ELSE "none"]
  /\ detached = {}
  /\ awaited = [t \in Threads |-> Nothing]
  /\ kept = [t \in Threads |-> Nothing] /\ answer = [t \in Threads |-> Nothing]

Runs(t) == stage[t] = "runs"

\* The thread answers to nobody any more and its handle may be reused.
Gone(t) == [stage EXCEPT ![t] = "none"]

\* t's earlier call has returned; this one returns r to u.
Returns(t, u, r) == answer' = [answer EXCEPT ![t] = Nothing, ![u] = r]

\* thrd_create: the new thread runs, and the handle is the creator's answer;
\* thrd_nomem starts none.
ThrdCreate(t, new) ==
  /\ Runs(t) /\ stage[new] = "none" /\ new # Main
  /\ stage' = [stage EXCEPT ![new] = "runs"]
  /\ Returns(t, t, new)
  /\ UNCHANGED <<detached, awaited, kept>>

\* thrd_yield, and a thrd_create that fails.
ThrdYield(t) ==
  /\ Runs(t) /\ Returns(t, t, Nothing)
  /\ UNCHANGED <<stage, detached, awaited, kept>>

\* thrd_join of a thread that has ended takes its status.
ThrdJoinEnded(t, u) ==
  /\ Runs(t) /\ stage[u] = "ended"
  /\ stage' = Gone(u)
  /\ kept' = [kept EXCEPT ![u] = Nothing]
  /\ Returns(t, t, kept[u])
  /\ UNCHANGED <<detached, awaited>>

\* thrd_join of another, undetached thread that nobody joins yet.
ThrdJoinWaits(t, u) ==
  /\ Runs(t) /\ t # u
  /\ stage[u] \in {"runs", "waits", "joins"}
  /\ u \notin detached /\ awaited[u] = Nothing
  /\ stage' = [stage EXCEPT ![t] = "joins"]
  /\ awaited' = [awaited EXCEPT ![u] = t]
  /\ Returns(t, t, Nothing)
  /\ UNCHANGED <<detached, kept>>

\* thrd_detach: an ended thread is given up at once, another when it ends.
ThrdDetach(t, u) ==
  /\ Runs(t) /\ awaited[u] = Nothing
  /\ \/ /\ stage[u] = "ended"
        /\ stage' = Gone(u) /\ kept' = [kept EXCEPT ![u] = Nothing]
        /\ UNCHANGED detached
     \/ /\ stage[u] \in {"runs", "waits", "joins"} /\ u \notin detached
        /\ detached' = detached \cup {u}
        /\ UNCHANGED <<stage, kept>>
  /\ Returns(t, t, Nothing)
  /\ UNCHANGED awaited

\* thrd_exit, or the return of the thread's function.
ThrdExit(t, s) ==
  /\ Runs(t)
  /\ \/ /\ t \in detached
        /\ stage' = Gone(t) /\ detached' = detached \ {t}
        /\ Returns(t, t, Nothing) /\ UNCHANGED <<awaited, kept>>
     \/ /\ t \notin detached /\ awaited[t] = Nothing
        /\ stage' = [stage EXCEPT ![t] = "ended"]
        /\ kept' = [kept EXCEPT ![t] = s]
        /\ Returns(t, t, Nothing) /\ UNCHANGED <<detached, awaited>>
     \/ /\ t \notin detached /\ awaited[t] # Nothing
        /\ stage' = [Gone(t) EXCEPT ![awaited[t]] = "runs"]
        /\ awaited' = [awaited EXCEPT ![t] = Nothing]
        /\ Returns(t, awaited[t], s) /\ UNCHANGED <<detached, kept>>

\* A call that blocks: the thread waits for its operation, and runs again.
Blocks(t) ==
  /\ Runs(t)
  /\ stage' = [stage EXCEPT ![t] = "waits"]
  /\ Returns(t, t, Nothing)
  /\ UNCHANGED <<detached, awaited, kept>>

Unblocks(t) ==
  /\ stage[t] = "waits"
  /\ stage' = [stage EXCEPT ![t] = "runs"]
  /\ UNCHANGED <<detached, awaited, kept, answer>>

ThreadNext ==
  \E t \in Threads :
    \/ ThrdYield(t) \/ Blocks(t) \/ Unblocks(t)
    \/ \E u \in Threads :
         ThrdCreate(t, u) \/ ThrdJoinEnded(t, u) \/ ThrdJoinWaits(t, u)
         \/ ThrdDetach(t, u)
    \/ \E s \in Status : ThrdExit(t, s)

ThreadSpec == ThreadInit /\ [][ThreadNext]_threadVars
=============================================================================
