------------------------------ MODULE IoCalls -------------------------------
(***************************************************************************)
(* The libc calls made through the ring: read, write, close and pipe2 of   *)
(* src/unistd, the socket calls of src/sys/socket, and errno.  Each builds *)
(* an SQE, awaits it and turns the result into a return value and errno.   *)
(* When a fiber runs is Scheduler's matter; here a call, its issue in the  *)
(* kernel, its completion and its return are steps that interleave with    *)
(* the other fibers'.  One pipe stands for the files: its two descriptors  *)
(* are shared by the fibers, and an operation on it waits until it can go  *)
(* on.                                                                     *)
(***************************************************************************)
EXTENDS Widths

CONSTANTS
  Fibers,
  PageSize,    \* MAX_RW_COUNT is INT_MAX rounded down to it
  Capacity,    \* bytes a pipe holds
  Counts,      \* the counts passed to read and write
  Ints,        \* the ints passed to the socket calls and as flags
  Total        \* bound on the bytes ever written

ASSUME IoAssumption ==
  /\ {PageSize, Capacity} \subseteq Nat \ {0} /\ Total \in Nat
  /\ Counts \subseteq 0 .. 2^(2 * Bits) - 1
  /\ Ints \subseteq -2^(Bits - 1) .. 2^(Bits - 1) - 1

INT32_MAX == 2^(Bits - 1) - 1
SSIZE_MAX == 2^(2 * Bits - 1) - 1
UINT64_MAX == 2^(2 * Bits) - 1
MAX_RW_COUNT == INT32_MAX - (INT32_MAX % PageSize)

EBADF == 9
EFAULT == 14
EPIPE == 32
EINVAL == 22
ReadEnd == 0
WriteEnd == 1

VARIABLES
  call,        \* per fiber, the call it is in, or Null
  sqe,         \* per fiber, the SQE on the frame of that call, or Null
  held,        \* per fiber, the file its operation was issued on, or Null
  res,         \* per fiber, the completion, or Null
  ret, errno,  \* per fiber, the last call's return value and errno
  open,        \* descriptors in the table
  written, read, \* bytes through the pipe so far
  direct       \* history: per fiber, [ret, errno] as the system call itself
               \* would have left them, and whether errno is of a call the
               \* library refused

ioVars == <<call, sqe, held, res, ret, errno, open, written, read, direct>>

IoInit ==
  /\ call = [f \in Fibers |-> Null] /\ sqe = [f \in Fibers |-> Null]
  /\ held = [f \in Fibers |-> Null] /\ res = [f \in Fibers |-> Null]
  /\ ret = [f \in Fibers |-> 0] /\ errno = [f \in Fibers |-> 0]
  /\ open = {ReadEnd, WriteEnd} /\ written = 0 /\ read = 0
  /\ direct = [f \in Fibers |-> [ret |-> 0, errno |-> 0, refused |-> FALSE]]

-----------------------------------------------------------------------------
(* The SQEs.  off and addr2 are one field of the kernel's structure, and   *)
(* so are the flags of the different opcodes; what is not named is zero.   *)

\* The conversion of an int to uint32_t, and the kernel's back to int.
ToU32(n) == n % 2^Bits
ToInt(n) == IF n > INT32_MAX THEN n - 2^Bits ELSE n

\* Mutation: the count is narrowed to the width of the field.
BugRwLen(count) == ToU32(count)

RwLen(count) == IF count > INT32_MAX THEN INT32_MAX ELSE count

Sqe(opcode, fd, off, addr, len, flags) ==
  [opcode |-> opcode, fd |-> fd, off |-> off, addr |-> addr, len |-> len, flags |-> flags]

Close(c) == Sqe("CLOSE", c.a, 0, 0, 0, 0)

Pipe2(c) == Sqe("PIPE", 0, 0, c.a, 0, ToU32(c.b))

Socket(c) == Sqe("SOCKET", c.a, ToU32(c.b), 0, ToU32(c.c), 0)

Accept(c) == Sqe("ACCEPT", c.a, c.c, c.b, 0, 0)

\* Mutation: the address length goes where listen's backlog does.
BugBind(c) == Sqe("BIND", c.a, 0, c.b, c.c, 0)

Bind(c) == Sqe("BIND", c.a, c.c, c.b, 0, 0)

Connect(c) == Sqe("CONNECT", c.a, c.c, c.b, 0, 0)

Listen(c) == Sqe("LISTEN", c.a, 0, 0, ToU32(c.b), 0)

Read(c) == Sqe("READ", c.a, UINT64_MAX, c.b, RwLen(c.c), 0)

Write(c) == Sqe("WRITE", c.a, UINT64_MAX, c.b, RwLen(c.c), 0)

Prepared(c) ==
  CASE c.fn = "close" -> Close(c) [] c.fn = "pipe2" -> Pipe2(c)
    [] c.fn = "socket" -> Socket(c) [] c.fn = "accept" -> Accept(c)
    [] c.fn = "bind" -> Bind(c) [] c.fn = "connect" -> Connect(c)
    [] c.fn = "listen" -> Listen(c)
    [] c.fn = "read" -> Read(c) [] c.fn = "write" -> Write(c)

\* The arguments the kernel's preparation of each opcode reads out of an SQE;
\* a read or write at offset -1 is one at the file's own position.
KernelReads(s) ==
  CASE s.opcode = "CLOSE" -> <<s.fd>>
    [] s.opcode = "PIPE" -> <<s.addr, ToInt(s.flags)>>
    [] s.opcode = "SOCKET" -> <<s.fd, ToInt(s.off), ToInt(s.len)>>
    [] s.opcode = "ACCEPT" -> <<s.fd, s.addr, s.off>>
    [] s.opcode \in {"BIND", "CONNECT"} -> <<s.fd, s.addr, s.off>>
    [] s.opcode = "LISTEN" -> <<s.fd, ToInt(s.len)>>
    [] s.opcode \in {"READ", "WRITE"} -> <<s.fd, s.addr, s.off>>

-----------------------------------------------------------------------------
(* A call.                                                                 *)

Answer(f, r, e) == ret' = [ret EXCEPT ![f] = r] /\ errno' = [errno EXCEPT ![f] = e]

\* A descriptor that is open for what the call does.
Usable(fd, fn) == fd \in open /\ (fd = ReadEnd <=> fn = "read")

\* A count that is negative as an ssize_t does not reach the ring.  The system
\* call looks the descriptor up first and then finds that no buffer is that
\* long: it fails too, with another errno.
CallRefused(f, c) ==
  /\ call[f] = Null /\ c.fn \in {"read", "write"} /\ c.c > SSIZE_MAX
  /\ Answer(f, -1, EINVAL)
  /\ direct' = [direct EXCEPT ![f] =
                  [ret |-> -1, errno |-> IF Usable(c.a, c.fn) THEN EFAULT ELSE EBADF,
                   refused |-> TRUE]]
  /\ UNCHANGED <<call, sqe, held, res, open, written, read>>

Call(f, c) ==
  /\ call[f] = Null /\ ~(c.fn \in {"read", "write"} /\ c.c > SSIZE_MAX)
  /\ call' = [call EXCEPT ![f] = c] /\ sqe' = [sqe EXCEPT ![f] = Prepared(c)]
  /\ ret' = [ret EXCEPT ![f] = 0] /\ direct' = [direct EXCEPT ![f].ret = 0]
  /\ UNCHANGED <<held, res, errno, open, written, read>>

\* The ring hands the operation's result back as the await's.
Completes(f, r) ==
  /\ res' = [res EXCEPT ![f] = r] /\ held' = [held EXCEPT ![f] = Null]

\* What the system call called directly, with the caller's own arguments,
\* would have returned at this moment, moving as much as it may.
DirectMoves(f, able) ==
  LET n == IF call[f].c < MAX_RW_COUNT THEN call[f].c ELSE MAX_RW_COUNT
  IN direct' = [direct EXCEPT ![f].ret = IF n < able THEN n ELSE able]

DirectFails(f, e) ==
  direct' = [direct EXCEPT ![f] = [ret |-> -1, errno |-> e, refused |-> FALSE]]

Submitted(f) == sqe[f] # Null /\ res[f] = Null /\ held[f] = Null

\* The descriptor is looked up when the operation is issued, and the file is
\* held until its completion, closed meanwhile or not.
Issue(f) ==
  /\ Submitted(f) /\ sqe[f].opcode \in {"READ", "WRITE"}
  /\ IF Usable(sqe[f].fd, IF sqe[f].opcode = "READ" THEN "read" ELSE "write")
     THEN held' = [held EXCEPT ![f] = sqe[f].fd] /\ UNCHANGED <<res, direct>>
     ELSE Completes(f, -EBADF) /\ DirectFails(f, EBADF)
  /\ UNCHANGED <<call, sqe, ret, errno, open, written, read>>

\* An end is open while a descriptor or an operation refers to it.
EndOpen(end) == end \in open \/ \E f \in Fibers : held[f] = end

\* The length the kernel moves at most, from the SQE it was given.
Length(f) == IF sqe[f].len < MAX_RW_COUNT THEN sqe[f].len ELSE MAX_RW_COUNT

\* A read waits for bytes, or for the last writer to go.
ReadMoves(f) ==
  /\ held[f] = ReadEnd /\ (sqe[f].len = 0 \/ written > read \/ ~EndOpen(WriteEnd))
  /\ LET able == written - read
         n == IF Length(f) < able THEN Length(f) ELSE able
     IN read' = read + n /\ Completes(f, n) /\ DirectMoves(f, able)
  /\ UNCHANGED <<call, sqe, ret, errno, open, written>>

\* A write waits for room; one that finds no reader left fails.
WriteMoves(f) ==
  /\ held[f] = WriteEnd
  /\ IF sqe[f].len # 0 /\ ~EndOpen(ReadEnd)
     THEN Completes(f, -EPIPE) /\ DirectFails(f, EPIPE) /\ UNCHANGED written
     ELSE LET able == Capacity - (written - read)
              n == IF Length(f) < able THEN Length(f) ELSE able
          IN /\ sqe[f].len = 0 \/ able > 0
             /\ written + n <= Total
             /\ written' = written + n /\ Completes(f, n) /\ DirectMoves(f, able)
  /\ UNCHANGED <<call, sqe, ret, errno, open, read>>

CloseMoves(f) ==
  /\ Submitted(f) /\ sqe[f].opcode = "CLOSE"
  /\ IF sqe[f].fd \in open
     THEN Completes(f, 0) /\ direct' = [direct EXCEPT ![f].ret = 0]
     ELSE Completes(f, -EBADF) /\ DirectFails(f, EBADF)
  /\ open' = open \ {sqe[f].fd}
  /\ UNCHANGED <<call, sqe, ret, errno, written, read>>

\* The other calls succeed with a small number or fail.
OtherEnds(f) ==
  /\ Submitted(f) /\ sqe[f].opcode \notin {"READ", "WRITE", "CLOSE"}
  /\ \/ Completes(f, 0) /\ direct' = [direct EXCEPT ![f].ret = 0]
     \/ Completes(f, -EINVAL) /\ DirectFails(f, EINVAL)
  /\ UNCHANGED <<call, sqe, ret, errno, open, written, read>>

\* __libuc_errno_result, in the fiber's own thread-local errno.
ErrnoResult(f) ==
  IF res[f] < 0 THEN Answer(f, -1, -res[f]) ELSE Answer(f, res[f], errno[f])

Return(f) ==
  /\ res[f] # Null
  /\ ErrnoResult(f)
  /\ call' = [call EXCEPT ![f] = Null] /\ sqe' = [sqe EXCEPT ![f] = Null]
  /\ res' = [res EXCEPT ![f] = Null]
  /\ UNCHANGED <<held, open, written, read, direct>>

C(fn, a, b, c) == [fn |-> fn, a |-> a, b |-> b, c |-> c]

\* Flags, types, protocols and backlogs are ints and may be negative; buffers
\* are addresses.
Buffer == 5
AF_UNIX == 1
Socket_fd == 1
Calls ==
  {C(fn, fd, Buffer, n) : fn \in {"read", "write"}, fd \in {ReadEnd, WriteEnd}, n \in Counts}
    \cup {C("close", fd, 0, 0) : fd \in {ReadEnd, WriteEnd}}
    \cup {C("pipe2", Buffer, flags, 0) : flags \in Ints}
    \cup {C("socket", AF_UNIX, type, protocol) : type, protocol \in Ints}
    \cup {C("listen", Socket_fd, backlog, 0) : backlog \in Ints}
    \cup {C(fn, Socket_fd, Buffer, 3) : fn \in {"accept", "bind", "connect"}}

ASSUME CallAssumption == Null \notin Calls

IoNext ==
  \E f \in Fibers :
    \/ \E c \in Calls : CallRefused(f, c) \/ Call(f, c)
    \/ Issue(f)
    \/ ReadMoves(f) \/ WriteMoves(f) \/ CloseMoves(f) \/ OtherEnds(f)
    \/ Return(f)

IoSpec == IoInit /\ [][IoNext]_ioVars

-----------------------------------------------------------------------------
\* rw_len.h:7: "the kernel's MAX_RW_COUNT cap keeps every outcome identical".
\* Every call leaves its caller the return value and the errno that the system
\* call itself would have left, for counts at and past each width a count
\* passes through, with transfers cut short, on descriptors closed meanwhile,
\* and a success leaves the errno of the last failure.  A count past SSIZE_MAX
\* is the one exception: the call fails as the system call does, with EINVAL
\* for its EBADF or EFAULT (read.c:12-15).
AsTheSystemCall ==
  \A f \in Fibers : call[f] = Null =>
    /\ ret[f] = direct[f].ret
    /\ errno[f] = IF direct[f].refused THEN EINVAL ELSE direct[f].errno

\* What the kernel takes out of an SQE are the arguments of the call on whose
\* frame it is, negative ints and the fields the opcodes share included.
ReadAsCalled ==
  \A f \in Fibers : call[f] # Null =>
    KernelReads(sqe[f]) =
      CASE call[f].fn \in {"read", "write"} -> <<call[f].a, call[f].b, UINT64_MAX>>
        [] call[f].fn = "close" -> <<call[f].a>>
        [] call[f].fn \in {"pipe2", "listen"} -> <<call[f].a, call[f].b>>
        [] OTHER -> <<call[f].a, call[f].b, call[f].c>>
=============================================================================
