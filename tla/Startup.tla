------------------------------ MODULE Startup -------------------------------
(***************************************************************************)
(* From the process entry to main (src/start.c, src/arch/*/start.c), with  *)
(* the auxiliary vector (src/sys/auxv) and the creation of the ring.  The  *)
(* kernel's initial stack is a sequence of words; a pointer is a nonzero   *)
(* word.  The decoding of the program headers is in ThreadLocal and the    *)
(* root's memory in FiberMemory: here each only succeeds or fails.         *)
(***************************************************************************)
EXTENDS RingCreate, Sequences, FiniteSetsExt

CONSTANTS
  IntMax,      \* __INT_MAX__
  Images,      \* processes the kernel may start
  Inits,       \* number of entries between the init array's two symbols
  Status,      \* what main may return
  Entries      \* what __libuc_scheduler_become asks the ring for

ASSUME StartAssumption ==
  /\ IntMax \in Nat /\ Inits \in Nat /\ Status \subseteq Int
  /\ Null # "root"

VARIABLES
  image,          \* what the kernel started, and on which architecture
  pc,
  argc, argv, envp, auxiliary_vector,  \* word indices, once parsed
  root,           \* arguments.fiber
  inits_run,      \* init functions called, in order
  answer,         \* the last getauxval: [type, value, errno], or Null
  exit_code

startVars == <<image, pc, argc, argv, envp, auxiliary_vector, root, inits_run,
               answer, exit_code>>
vars == <<ringVars, startVars>>

AT_NULL == 0
AT_PHDR == 3
AT_PHENT == 4
AT_PHNUM == 5
AT_HWCAP2 == 26

\* A process image: its argument count, the strings and the auxiliary vector on
\* its stack.  The count may be too large for an int or fall short of the
\* arguments there are, and the vector ends at its first null type.
ASSUME ImageAssumption ==
  \A p \in Images :
    /\ p.argc \in Nat /\ p.args \in Nat /\ p.envs \in Nat
    /\ p.argc <= p.args \/ p.argc > IntMax
    /\ p.auxv \in Seq(Nat \X Nat)
    /\ \A k \in DOMAIN p.auxv : p.auxv[k][1] # AT_NULL

\* An argument or an environment string; its address does not matter.
Pointer == 99

Flat(pairs) ==
  [k \in 1 .. 2 * Len(pairs) |-> pairs[(k + 1) \div 2][IF k % 2 = 1 THEN 1 ELSE 2]]

\* The words the kernel writes: argc, the arguments, the environment and the
\* auxiliary vector, each ended by its null.
Words ==
  <<image.argc>> \o [k \in 1 .. image.args |-> Pointer] \o <<0>>
    \o [k \in 1 .. image.envs |-> Pointer] \o <<0>>
    \o Flat(image.auxv) \o <<AT_NULL, 0>>

words(k) == Words[k + 1]

Init ==
  /\ RingInit
  /\ image \in Images /\ pc = "parse"
  /\ argc = 0 /\ argv = 0 /\ envp = 0 /\ auxiliary_vector = 0
  /\ root = Null /\ inits_run = <<>> /\ answer = Null /\ exit_code = Null

\* __libuc_start returns 127, and _start passes it to exit_group.
Refuse == pc' = "exit" /\ exit_code' = 127

\* Mutation: the environment's null is taken for the vector's first word.
BugEnvironmentEnd(e) == Min({k \in e .. Len(Words) - 1 : words(k) = 0}) - 1

EnvironmentEnd(e) == Min({k \in e .. Len(Words) - 1 : words(k) = 0})

Parse ==
  /\ pc = "parse"
  /\ LET count == words(0)
     IN IF count > IntMax \/ words(1 + count) # 0
        THEN Refuse /\ UNCHANGED <<argc, argv, envp, auxiliary_vector>>
        ELSE /\ argc' = count /\ argv' = 1 /\ envp' = argv' + count + 1
             /\ auxiliary_vector' = EnvironmentEnd(envp') + 1
             /\ pc' = "layout" /\ UNCHANGED exit_code
  /\ UNCHANGED <<ringVars, image, root, inits_run, answer>>

\* The entry the search stops at: the first of the type, or the end marker.
EntryOf(type) ==
  CHOOSE e \in 0 .. Len(Words) :
    /\ words(auxiliary_vector + 2 * e) \in {AT_NULL, type}
    /\ \A b \in 0 .. e - 1 : words(auxiliary_vector + 2 * b) \notin {AT_NULL, type}

\* __libuc_auxv_get: the value, or Null for an absent type.
AuxvGet(type) ==
  LET e == EntryOf(type)
  IN IF words(auxiliary_vector + 2 * e) = AT_NULL THEN Null
     ELSE words(auxiliary_vector + 2 * e + 1)

LayoutOk ==
  /\ \A type \in {AT_PHDR, AT_PHENT, AT_PHNUM} : AuxvGet(type) # Null
  /\ image.headers_ok

Layout ==
  /\ pc = "layout"
  /\ IF LayoutOk THEN pc' = "become" /\ UNCHANGED exit_code ELSE Refuse
  /\ UNCHANGED <<ringVars, image, argc, argv, envp, auxiliary_vector, root,
                 inits_run, answer>>

Become ==
  /\ pc = "become"
  /\ RingStep(Entries)
  /\ CASE step' = "created" -> pc' = "spawn" /\ UNCHANGED exit_code
       [] step' = "failed" -> Refuse
       [] OTHER -> UNCHANGED <<pc, exit_code>>
  /\ UNCHANGED <<image, argc, argv, envp, auxiliary_vector, root, inits_run, answer>>

\* Mutation: the root runs before the frame names it.
BugSpawnRoot ==
  /\ pc = "spawn" /\ pc' = "run"
  /\ UNCHANGED <<ringVars, image, argc, argv, envp, auxiliary_vector, root,
                 inits_run, answer, exit_code>>

\* The mappings are made or not; the frame's arguments name the root before
\* anything runs on it.
SpawnRoot ==
  /\ pc = "spawn"
  /\ \/ Refuse /\ UNCHANGED root
     \/ pc' = "run" /\ root' = "root" /\ UNCHANGED exit_code
  /\ UNCHANGED <<ringVars, image, argc, argv, envp, auxiliary_vector, inits_run, answer>>

\* HWCAP2_FSGSBASE is bit 1.
InstallAvailable ==
  image.arch = "x86_64" =>
    AuxvGet(AT_HWCAP2) # Null /\ (AuxvGet(AT_HWCAP2) \div 2) % 2 = 1

\* The first resume reads and writes the thread register, which traps where
\* the instructions are not enabled.
FirstResume ==
  /\ pc = "run"
  /\ pc' = IF InstallAvailable THEN "init" ELSE "killed"
  /\ UNCHANGED <<ringVars, image, argc, argv, envp, auxiliary_vector, root,
                 inits_run, answer, exit_code>>

RunInit ==
  /\ pc = "init" /\ Len(inits_run) < Inits
  /\ inits_run' = Append(inits_run, Len(inits_run) + 1)
  /\ UNCHANGED <<ringVars, image, pc, argc, argv, envp, auxiliary_vector, root,
                 answer, exit_code>>

CallMain ==
  /\ pc = "init" /\ Len(inits_run) >= Inits
  /\ pc' = "main"
  /\ UNCHANGED <<ringVars, image, argc, argv, envp, auxiliary_vector, root,
                 inits_run, answer, exit_code>>

\* The program, or an init function, asks for an entry.
Getauxval(type) ==
  /\ pc \in {"init", "main"}
  /\ answer' = IF AuxvGet(type) = Null
               THEN [type |-> type, value |-> 0, errno |-> "ENOENT"]
               ELSE [type |-> type, value |-> AuxvGet(type), errno |-> Null]
  /\ UNCHANGED <<ringVars, image, pc, argc, argv, envp, auxiliary_vector, root,
                 inits_run, exit_code>>

\* main returns to root_entry, whose request carries its status out of run();
\* or it ends by thrd_exit and run() returns 0 once drained (Scheduler).
MainEnds ==
  /\ pc = "main" /\ pc' = "exit"
  /\ \/ root # Null /\ \E s \in Status : exit_code' = s
     \/ exit_code' = 0
  /\ UNCHANGED <<ringVars, image, argc, argv, envp, auxiliary_vector, root,
                 inits_run, answer>>

Over == pc \in {"exit", "killed"} /\ UNCHANGED vars

Starting ==
  Parse \/ Layout \/ Become \/ SpawnRoot \/ FirstResume \/ RunInit \/ CallMain

Next ==
  \/ Starting
  \/ \E type \in {AT_NULL, AT_PHDR, AT_HWCAP2} : Getauxval(type)
  \/ MainEnds
  \/ Over

Spec == Init /\ [][Next]_vars

-----------------------------------------------------------------------------
Parsed == pc \notin {"parse", "exit"}

\* Whatever numbers of arguments and strings there are, none included, the
\* three vectors are found where the kernel wrote them, and a process whose
\* argument count does not match its vector gets no further; getauxval finds
\* the first entry of its type and no other word, its value may be 0, and only
\* an absent type is ENOENT (auxv.c:11-21, getauxval.c:8-16).
VectorsFound ==
  /\ Parsed =>
       /\ argc = image.args
       /\ \A k \in 0 .. argc - 1 : words(argv + k) = Pointer
       /\ \A k \in 0 .. image.envs - 1 : words(envp + k) = Pointer
       /\ SubSeq(Words, auxiliary_vector + 1, Len(Words) - 2) = Flat(image.auxv)
  /\ answer # Null =>
       LET of == {k \in DOMAIN image.auxv : image.auxv[k][1] = answer.type}
       IN IF of = {} THEN answer.errno = "ENOENT" /\ answer.value = 0
          ELSE answer.errno = Null /\ answer.value = image.auxv[Min(of)][2]

\* A start that is refused runs no code of the program, and a program runs only
\* on a process that passed every check: init functions each once and in order,
\* all of them before main, on a created ring and with the root known to the
\* frame main returns to (start.c:28-41, 66-88).
RunsOnlyStarted ==
  /\ inits_run = [k \in 1 .. Len(inits_run) |-> k]
  /\ Len(inits_run) <= Inits
  /\ pc = "main" => Len(inits_run) = Inits
  /\ pc \in {"run", "init", "main"} => LayoutOk /\ ring # Null /\ root # Null
  /\ pc = "exit" /\ ring = Null => exit_code = 127 /\ inits_run = <<>>
  /\ pc = "killed" => inits_run = <<>>

\* The scheduler runs only where a fiber switch may write the thread register:
\* "Capability is checked once before the scheduler begins" (libuc.md:111) and
\* "Ask at initialization, before the first install" (thread_local.h:42).
\* __libuc_start goes from the spawned root to run() without asking
\* (start.c:80-88).
InstallChecked == pc \in {"run", "init", "main", "killed"} => InstallAvailable
=============================================================================
