-------------------------- MODULE SchedulerThreads --------------------------
(***************************************************************************)
(* The reactor implements the C11 threads: where a fiber stands says what  *)
(* its thread does.                                                        *)
(***************************************************************************)
EXTENDS Scheduler

Stage(f) ==
  IF life[f] = "UNMAPPED" THEN "none"
  ELSE IF life[f] = "EXITED" THEN "ended"
  ELSE IF f \in Range(ready) THEN "runs"
  ELSE IF f \in Joining THEN "joins" ELSE "waits"

T == INSTANCE Threads WITH
       Threads <- Fibers, Main <- Root, Nothing <- Null,
       stage <- [f \in Fibers |-> Stage(f)],
       detached <- {f \in Fibers : life[f] = "DETACHED"},
       awaited <- joiner, kept <- status, answer <- result

\* Whatever the queue, the generations, the counters and the ring do, each
\* step is one of the calls' or of no thread's: a thread runs on only when its
\* call is answered, and a join is answered once, with the status its target
\* ended with (thrd.c:9-38 over scheduler.c:59-189).
ImplementsThreads == T!ThreadSpec
=============================================================================
