----------------------------- MODULE LibcProofs -----------------------------
(***************************************************************************)
(* What the parts of the library around the reactor keep for every value   *)
(* of their constants: the calls made through the ring, the creation of    *)
(* the ring and the start of the process.                                  *)
(***************************************************************************)
EXTENDS Startup, IoCalls, DataLemmas

(* The calls through the ring.                                             *)

Transfers == {"read", "write"}
IntRange == -2^(Bits - 1) .. 2^(Bits - 1) - 1

\* The pipe holds no fewer bytes than none and no more than it can.
PipeInv ==
  /\ written \in Int /\ read \in Int
  /\ 0 <= written - read /\ written - read <= Capacity

IoTypes ==
  /\ DOMAIN call = Fibers /\ DOMAIN sqe = Fibers /\ DOMAIN held = Fibers
  /\ DOMAIN res = Fibers
  /\ ret \in [Fibers -> Int] /\ errno \in [Fibers -> Int]
  /\ direct \in [Fibers -> [ret : Int, errno : Int, refused : BOOLEAN]]

\* The errno the last failure left, which is the library's own for a call it
\* refused.
LeftErrno(f) == IF direct[f].refused THEN EINVAL ELSE direct[f].errno

\* A fiber in no call has nothing left of the last one.
BetweenCalls(f) ==
  call[f] = Null =>
    /\ sqe[f] = Null /\ held[f] = Null /\ res[f] = Null
    /\ ret[f] = direct[f].ret /\ errno[f] = LeftErrno(f)

\* A fiber in a call has that call's SQE on its frame.
InCall(f) ==
  call[f] # Null =>
    /\ call[f] \in Calls /\ sqe[f] = Prepared(call[f])
    /\ held[f] # Null => call[f].fn \in Transfers /\ res[f] = Null

\* Until an operation completes, the system call has left errno alone too; a
\* completion is the system call's answer as the ring encodes it.
Encodes(f) ==
  IF res[f] = Null THEN errno[f] = LeftErrno(f)
  ELSE /\ res[f] \in Int
       /\ IF res[f] < 0
          THEN direct[f].ret = -1 /\ LeftErrno(f) = -res[f]
          ELSE direct[f].ret = res[f] /\ LeftErrno(f) = errno[f]

IoInv ==
  /\ PipeInv /\ IoTypes
  /\ \A f \in Fibers : BetweenCalls(f) /\ InCall(f) /\ Encodes(f)

\* The widths in terms of the range of an int.
LEMMA IoWidths ==
  /\ 2^(Bits - 1) \in Nat \ {0} /\ 2^Bits = 2 * 2^(Bits - 1)
  /\ INT32_MAX = 2^(Bits - 1) - 1
  /\ MAX_RW_COUNT \in 0 .. INT32_MAX
<1>1. /\ Bits - 1 \in 0 .. 2 * Bits /\ 1 \in 0 .. 2 * Bits
      /\ (Bits - 1) + 1 = Bits /\ Bits <= 2 * Bits
  BY BitsAssumption
<1>2. 2^(Bits - 1) \in Nat \ {0} /\ 2^Bits = 2^(Bits - 1) * 2
  BY ZenonT(60), <1>1, PowerAssumption
<1>3. INT32_MAX \in Nat /\ PageSize \in Nat \ {0}
  BY <1>2, IoAssumption DEF INT32_MAX
<1>4. INT32_MAX % PageSize \in 0 .. INT32_MAX
  <2>1. INT32_MAX % PageSize \in 0 .. PageSize - 1
    BY <1>3, Division
  <2>2. CASE INT32_MAX < PageSize
    BY <1>3, <2>2, SmallRemainder
  <2>3. CASE INT32_MAX >= PageSize
    BY <1>3, <2>1, <2>3
  <2>. QED BY <1>3, <2>2, <2>3
<1>. QED BY <1>2, <1>3, <1>4 DEF INT32_MAX, MAX_RW_COUNT

\* An int that passes through a uint32_t field comes out as it went in,
\* negative ones included.
LEMMA IntRoundTrip ==
  ASSUME NEW x \in IntRange
  PROVE  ToInt(ToU32(x)) = x
<1>. DEFINE P == 2^(Bits - 1)
            W == 2^Bits
<1>1. P \in Nat \ {0} /\ W = 2 * P /\ INT32_MAX = P - 1 /\ x \in -P .. P - 1
  BY IoWidths DEF IntRange
<1>. HIDE DEF P, W
<1>2. CASE x >= 0
  <2>1. x % W = x
    BY <1>1, <1>2, SmallRemainder
  <2>. QED BY <1>1, <1>2, <2>1 DEF ToInt, ToU32, W
<1>3. CASE x < 0
  <2>1. /\ x \in Int /\ W \in Nat \ {0} /\ 1 \in Int
        /\ x + W * 1 \in 0 .. W - 1 /\ W * 1 = W
    BY <1>1, <1>3
  <2>2. (x + W * 1) % W = x % W
    BY <2>1, AddMultiple
  <2>3. x % W = x + W
    BY <2>1, <2>2, SmallRemainder
  <2>. QED BY <1>1, <1>3, <2>3 DEF ToInt, ToU32, W
<1>. QED BY <1>1, <1>2, <1>3

\* The calls there are.
LEMMA CallForms ==
  ASSUME NEW k \in Calls
  PROVE  /\ k.fn \in {"read", "write", "close", "pipe2", "socket", "listen",
                      "accept", "bind", "connect"}
         /\ k.fn \in Transfers => k.c \in Nat
         /\ k.fn \in {"pipe2", "socket", "listen"} => k.b \in IntRange
         /\ k.fn = "socket" => k.c \in IntRange
<1>1. Counts \subseteq Nat /\ Ints \subseteq IntRange
  BY IoAssumption DEF IntRange
<1>. DEFINE
  Rw == {C(fn1, fd, Buffer, count) :
           fn1 \in {"read", "write"}, fd \in {ReadEnd, WriteEnd}, count \in Counts}
  Cl == {C("close", fd, 0, 0) : fd \in {ReadEnd, WriteEnd}}
  Pi == {C("pipe2", Buffer, flags, 0) : flags \in Ints}
  So == {C("socket", AF_UNIX, type, protocol) : type, protocol \in Ints}
  Li == {C("listen", Socket_fd, backlog, 0) : backlog \in Ints}
  Ad == {C(fn1, Socket_fd, Buffer, 3) : fn1 \in {"accept", "bind", "connect"}}
<1>2. CASE k \in Rw
  BY <1>1, <1>2 DEF C, Transfers
<1>3. CASE k \in Cl
  BY <1>3 DEF C, Transfers
<1>4. CASE k \in Pi
  BY <1>1, <1>4 DEF C, Transfers
<1>5. CASE k \in So
  BY <1>1, <1>5 DEF C, Transfers
<1>6. CASE k \in Li
  BY <1>1, <1>6 DEF C, Transfers
<1>7. CASE k \in Ad
  BY <1>7 DEF C, Transfers
<1>8. Calls = Rw \cup Cl \cup Pi \cup So \cup Li \cup Ad
  BY DEF Calls
<1>. HIDE DEF Rw, Cl, Pi, So, Li, Ad
<1>. QED BY <1>2, <1>3, <1>4, <1>5, <1>6, <1>7, <1>8

\* What a call's SQE carries.
LEMMA PreparedForms ==
  ASSUME NEW k \in Calls
  PROVE  /\ Prepared(k).opcode \in {"READ", "WRITE"} <=> k.fn \in Transfers
         /\ k.fn \in Transfers => Prepared(k).len = RwLen(k.c)
<1>1. k.fn \in {"read", "write", "close", "pipe2", "socket", "listen",
                "accept", "bind", "connect"}
  BY CallForms
<1>2. CASE k.fn = "read"
  BY <1>2 DEF Prepared, Read, Sqe, Transfers
<1>3. CASE k.fn = "write"
  BY <1>3 DEF Prepared, Write, Sqe, Transfers
<1>4. CASE k.fn \in {"close", "pipe2", "socket", "listen"}
  BY <1>4 DEF Prepared, Close, Pipe2, Socket, Listen, Sqe, Transfers
<1>5. CASE k.fn \in {"accept", "bind", "connect"}
  BY <1>5 DEF Prepared, Accept, Bind, Connect, Sqe, Transfers
<1>. QED BY <1>1, <1>2, <1>3, <1>4, <1>5

\* What the kernel takes out of it.
LEMMA KernelReadsCall ==
  ASSUME NEW k \in Calls
  PROVE  KernelReads(Prepared(k)) =
           CASE k.fn \in {"read", "write"} -> <<k.a, k.b, UINT64_MAX>>
             [] k.fn = "close" -> <<k.a>>
             [] k.fn \in {"pipe2", "listen"} -> <<k.a, k.b>>
             [] OTHER -> <<k.a, k.b, k.c>>
<1>1. k.fn \in {"read", "write", "close", "pipe2", "socket", "listen",
                "accept", "bind", "connect"}
  BY CallForms
<1>2. CASE k.fn = "read"
  BY <1>2 DEF Prepared, Read, Sqe, KernelReads
<1>3. CASE k.fn = "write"
  BY <1>3 DEF Prepared, Write, Sqe, KernelReads
<1>4. CASE k.fn = "close"
  BY SMTT(30), <1>4 DEF Prepared, Close, Sqe, KernelReads
<1>5. CASE k.fn \in {"accept", "bind", "connect"}
  BY ZenonT(60), <1>5 DEF Prepared, Accept, Bind, Connect, Sqe, KernelReads
<1>6. CASE k.fn = "pipe2"
  BY SMTT(30), <1>6, CallForms, IntRoundTrip DEF Prepared, Pipe2, Sqe, KernelReads
<1>7. CASE k.fn = "socket"
  BY SMTT(30), <1>7, CallForms, IntRoundTrip DEF Prepared, Socket, Sqe, KernelReads
<1>8. CASE k.fn = "listen"
  BY SMTT(30), <1>8, CallForms, IntRoundTrip DEF Prepared, Listen, Sqe, KernelReads
<1>. QED BY ONLY SMTT(30), <1>1, <1>2, <1>3, <1>4, <1>5, <1>6, <1>7, <1>8

\* No fiber is in a call at first.
LEMMA IoInvInit == IoInit => IoInv
BY IoAssumption
DEF IoInit, IoInv, PipeInv, IoTypes, BetweenCalls, InCall, Encodes, LeftErrno

\* A fiber whose own state a step leaves alone keeps its part.
LEMMA IoOthers ==
  ASSUME IoInv, NEW g \in Fibers,
         call'[g] = call[g], sqe'[g] = sqe[g], held'[g] = held[g], res'[g] = res[g],
         ret'[g] = ret[g], errno'[g] = errno[g], direct'[g] = direct[g]
  PROVE  BetweenCalls(g)' /\ InCall(g)' /\ Encodes(g)'
BY ZenonT(60) DEF IoInv, BetweenCalls, InCall, Encodes, LeftErrno

\* A completion that encodes what the system call would have left.
LEMMA IoCompletes ==
  ASSUME IoInv, NEW f \in Fibers, call[f] # Null, res[f] = Null,
         NEW r \in Int, Completes(f, r), UNCHANGED <<call, sqe, ret, errno>>,
         \/ r >= 0 /\ direct' = [direct EXCEPT ![f].ret = r]
         \/ r < 0 /\ direct' = 
              [direct EXCEPT ![f] = [ret |-> -1, errno |-> -r, refused |-> FALSE]],
         PipeInv'
  PROVE  IoInv'
<1>1. r # Null
  BY BitsAssumption
<1>2. /\ res'[f] = r /\ held'[f] = Null /\ DOMAIN res' = Fibers /\ DOMAIN held' = Fibers
      /\ \A g \in Fibers \ {f} : res'[g] = res[g] /\ held'[g] = held[g]
  BY DEF IoInv, IoTypes, Completes
<1>3. /\ direct' \in [Fibers -> [ret : Int, errno : Int, refused : BOOLEAN]]
      /\ \A g \in Fibers \ {f} : direct'[g] = direct[g]
      /\ r >= 0 => direct'[f].ret = r /\ LeftErrno(f)' = LeftErrno(f)
      /\ r < 0 => direct'[f].ret = -1 /\ LeftErrno(f)' = -r
  <2>0. direct \in [Fibers -> [ret : Int, errno : Int, refused : BOOLEAN]]
    BY DEF IoInv, IoTypes
  <2>1. CASE r >= 0 /\ direct' = [direct EXCEPT ![f].ret = r]
    <3>1. /\ direct'[f].ret = r /\ direct'[f].errno = direct[f].errno
          /\ direct'[f].refused = direct[f].refused
      BY <2>0, <2>1
    <3>2. direct' \in [Fibers -> [ret : Int, errno : Int, refused : BOOLEAN]]
      BY <2>0, <2>1
    <3>. QED BY <2>0, <2>1, <3>1, <3>2 DEF LeftErrno
  <2>2. CASE r < 0 /\ direct' = [direct EXCEPT ![f] =
                                   [ret |-> -1, errno |-> -r, refused |-> FALSE]]
    BY <2>0, <2>2 DEF LeftErrno
  <2>. QED BY <2>1, <2>2
<1>4. IoTypes'
  BY <1>2, <1>3 DEF IoInv, IoTypes
<1>5. BetweenCalls(f)' /\ InCall(f)'
  BY <1>2 DEF IoInv, BetweenCalls, InCall
<1>6. Encodes(f)'
  <2>1. errno[f] = LeftErrno(f)
    BY DEF IoInv, Encodes
  <2>. QED BY <1>1, <1>2, <1>3, <2>1 DEF Encodes
<1>7. ASSUME NEW g \in Fibers \ {f} PROVE BetweenCalls(g)' /\ InCall(g)' /\ Encodes(g)'
  BY <1>2, <1>3, IoOthers
<1>. QED BY ZenonT(60), <1>4, <1>5, <1>6, <1>7 DEF IoInv

\* A submitted operation belongs to a call that has not completed.
LEMMA IoSubmitted ==
  ASSUME IoInv, NEW f \in Fibers, Submitted(f)
  PROVE  /\ call[f] # Null /\ call[f] \in Calls /\ sqe[f] = Prepared(call[f])
         /\ res[f] = Null
BY ZenonT(60) DEF IoInv, Submitted, BetweenCalls, InCall

\* The same of one that holds its file; it moves as many bytes as the system
\* call would have been let move, though the count was cut to an int first.
LEMMA IoHeld ==
  ASSUME IoInv, NEW f \in Fibers, held[f] # Null
  PROVE  /\ call[f] # Null /\ res[f] = Null /\ sqe[f].len \in Nat
         /\ Length(f) = IF call[f].c < MAX_RW_COUNT THEN call[f].c ELSE MAX_RW_COUNT
         /\ Length(f) \in Nat
<1>1. /\ call[f] # Null /\ call[f] \in Calls /\ sqe[f] = Prepared(call[f])
      /\ call[f].fn \in Transfers /\ res[f] = Null
  BY ZenonT(60) DEF IoInv, BetweenCalls, InCall
<1>2. sqe[f].len = RwLen(call[f].c) /\ call[f].c \in Nat
  BY <1>1, PreparedForms, CallForms
<1>3. INT32_MAX \in Nat /\ MAX_RW_COUNT \in Nat /\ MAX_RW_COUNT <= INT32_MAX
  BY IoWidths
<1>. QED BY <1>1, <1>2, <1>3 DEF Length, RwLen

\* The calls, accepted or refused.
LEMMA IoCallStep ==
  ASSUME IoInv, NEW f \in Fibers, NEW k \in Calls, CallRefused(f, k) \/ Call(f, k)
  PROVE  IoInv'
<1>0. call[f] = Null /\ sqe[f] = Null /\ held[f] = Null /\ res[f] = Null /\ k # Null
  BY ZenonT(60), CallAssumption DEF IoInv, BetweenCalls, CallRefused, Call
<1>1. CASE CallRefused(f, k)
  <2>1. /\ ret' = [ret EXCEPT ![f] = -1] /\ errno' = [errno EXCEPT ![f] = EINVAL]
        /\ \E e \in {EBADF, EFAULT} :
             direct' = [direct EXCEPT ![f] = [ret |-> -1, errno |-> e, refused |-> TRUE]]
        /\ UNCHANGED <<call, sqe, held, res, open, written, read>>
    BY <1>1 DEF CallRefused, Answer
  <2>2. IoTypes' /\ PipeInv'
    BY <2>1 DEF IoInv, IoTypes, PipeInv, EINVAL, EBADF, EFAULT
  <2>3. BetweenCalls(f)' /\ InCall(f)' /\ Encodes(f)'
    BY <1>0, <2>1 DEF IoInv, IoTypes, BetweenCalls, InCall, Encodes, LeftErrno
  <2>4. ASSUME NEW g \in Fibers \ {f} PROVE BetweenCalls(g)' /\ InCall(g)' /\ Encodes(g)'
    <3>1. ret'[g] = ret[g] /\ errno'[g] = errno[g] /\ direct'[g] = direct[g]
      BY <2>1 DEF IoInv, IoTypes
    <3>. QED BY <2>1, <3>1, IoOthers
  <2>. QED BY ZenonT(60), <2>2, <2>3, <2>4 DEF IoInv
<1>2. CASE Call(f, k)
  <2>1. /\ call' = [call EXCEPT ![f] = k] /\ sqe' = [sqe EXCEPT ![f] = Prepared(k)]
        /\ ret' = [ret EXCEPT ![f] = 0] /\ direct' = [direct EXCEPT ![f].ret = 0]
        /\ UNCHANGED <<held, res, errno, open, written, read>>
    BY <1>2 DEF Call
  <2>2. IoTypes' /\ PipeInv'
    BY <2>1 DEF IoInv, IoTypes, PipeInv
  <2>3. /\ call'[f] = k /\ sqe'[f] = Prepared(k) /\ LeftErrno(f)' = LeftErrno(f)
    BY <2>1 DEF IoInv, IoTypes, LeftErrno
  <2>4. BetweenCalls(f)' /\ InCall(f)' /\ Encodes(f)'
    BY <1>0, <2>1, <2>3 DEF IoInv, BetweenCalls, InCall, Encodes
  <2>5. ASSUME NEW g \in Fibers \ {f} PROVE BetweenCalls(g)' /\ InCall(g)' /\ Encodes(g)'
    <3>1. /\ call'[g] = call[g] /\ sqe'[g] = sqe[g] /\ ret'[g] = ret[g]
          /\ direct'[g] = direct[g]
      BY <2>1 DEF IoInv, IoTypes
    <3>. QED BY <2>1, <3>1, IoOthers
  <2>. QED BY ZenonT(60), <2>2, <2>4, <2>5 DEF IoInv
<1>. QED BY <1>1, <1>2

\* The kernel's side: an operation is issued, moves bytes, closes or ends.
LEMMA IoKernelStep ==
  ASSUME IoInv, NEW f \in Fibers,
         Issue(f) \/ ReadMoves(f) \/ WriteMoves(f) \/ CloseMoves(f) \/ OtherEnds(f)
  PROVE  IoInv'
<1>0. /\ \A e \in {EBADF, EPIPE, EINVAL} : -e \in Int /\ -e < 0 /\ -(-e) = e
      /\ 0 \in Int /\ 0 >= 0
  <2>1. {EBADF, EPIPE, EINVAL} \subseteq Nat \ {0}
    BY DEF EBADF, EPIPE, EINVAL
  <2>. QED BY <2>1
<1>1. CASE Issue(f)
  <2>1. /\ call[f] # Null /\ call[f] \in Calls /\ sqe[f] = Prepared(call[f])
        /\ res[f] = Null /\ call[f].fn \in Transfers
    BY <1>1, IoSubmitted, PreparedForms DEF Issue
  <2>2. PipeInv' /\ UNCHANGED <<call, sqe, ret, errno>>
    BY <1>1 DEF Issue, IoInv, PipeInv
  <2>3. CASE Completes(f, -EBADF) /\ DirectFails(f, EBADF)
    BY ZenonT(60), <1>0, <2>1, <2>2, <2>3, IoCompletes DEF DirectFails
  <2>4. CASE held' = [held EXCEPT ![f] = sqe[f].fd] /\ UNCHANGED <<res, direct>>
    <3>1. IoTypes'
      BY SMTT(30), <2>2, <2>4 DEF IoInv, IoTypes
    <3>2. BetweenCalls(f)' /\ InCall(f)' /\ Encodes(f)'
      BY <2>1, <2>2, <2>4 DEF IoInv, BetweenCalls, InCall, Encodes, LeftErrno
    <3>3. ASSUME NEW g \in Fibers \ {f} PROVE BetweenCalls(g)' /\ InCall(g)' /\ Encodes(g)'
      <4>1. held'[g] = held[g]
        BY <2>4 DEF IoInv, IoTypes
      <4>. QED BY ZenonT(60), <2>2, <2>4, <4>1, IoOthers
    <3>. QED BY ZenonT(60), <2>2, <3>1, <3>2, <3>3 DEF IoInv
  <2>. QED BY ZenonT(60), <1>1, <2>3, <2>4 DEF Issue
<1>2. CASE ReadMoves(f)
  <2>. DEFINE able == written - read
              moved == IF Length(f) < able THEN Length(f) ELSE able
  <2>1. held[f] # Null
    BY <1>2, BitsAssumption DEF ReadMoves, ReadEnd
  <2>2. /\ call[f] # Null /\ res[f] = Null /\ Length(f) \in Nat
        /\ Length(f) = IF call[f].c < MAX_RW_COUNT THEN call[f].c ELSE MAX_RW_COUNT
    BY <2>1, IoHeld
  <2>3. /\ read' = read + moved /\ Completes(f, moved)
        /\ UNCHANGED <<call, sqe, ret, errno, open, written>>
        /\ direct' = [direct EXCEPT ![f].ret = moved]
    BY <1>2, <2>2 DEF ReadMoves, DirectMoves
  <2>4. moved \in Int /\ moved >= 0 /\ PipeInv'
    BY <2>2, <2>3, IoAssumption DEF IoInv, PipeInv
  <2>. HIDE DEF moved
  <2>. QED BY ZenonT(60), <2>2, <2>3, <2>4, IoCompletes
<1>3. CASE WriteMoves(f)
  <2>. DEFINE able == Capacity - (written - read)
              moved == IF Length(f) < able THEN Length(f) ELSE able
  <2>1. held[f] # Null
    BY <1>3, BitsAssumption DEF WriteMoves, WriteEnd
  <2>2. /\ call[f] # Null /\ res[f] = Null /\ Length(f) \in Nat
        /\ Length(f) = IF call[f].c < MAX_RW_COUNT THEN call[f].c ELSE MAX_RW_COUNT
    BY <2>1, IoHeld
  <2>3. CASE Completes(f, -EPIPE) /\ DirectFails(f, EPIPE) /\ UNCHANGED written
    <3>1. PipeInv' /\ UNCHANGED <<call, sqe, ret, errno>>
      BY <1>3, <2>3 DEF WriteMoves, IoInv, PipeInv
    <3>. QED BY ZenonT(60), <1>0, <2>2, <2>3, <3>1, IoCompletes DEF DirectFails
  <2>4. CASE written' = written + moved /\ Completes(f, moved) /\ DirectMoves(f, able)
    <3>1. /\ UNCHANGED <<call, sqe, ret, errno, open, read>>
          /\ direct' = [direct EXCEPT ![f].ret = moved]
      BY <1>3, <2>2, <2>4 DEF WriteMoves, DirectMoves
    <3>2. moved \in Int /\ moved >= 0 /\ PipeInv'
      BY <2>2, <2>4, <3>1, IoAssumption DEF IoInv, PipeInv
    <3>. HIDE DEF moved
    <3>. QED BY ZenonT(60), <2>2, <2>4, <3>1, <3>2, IoCompletes
  <2>. QED BY <1>3, <2>3, <2>4 DEF WriteMoves
<1>4. CASE CloseMoves(f)
  <2>1. call[f] # Null /\ res[f] = Null
    BY <1>4, IoSubmitted DEF CloseMoves
  <2>2. PipeInv' /\ UNCHANGED <<call, sqe, ret, errno>>
    BY <1>4 DEF CloseMoves, IoInv, PipeInv
  <2>3. CASE Completes(f, 0) /\ direct' = [direct EXCEPT ![f].ret = 0]
    BY ZenonT(60), <1>0, <2>1, <2>2, <2>3, IoCompletes
  <2>4. CASE Completes(f, -EBADF) /\ DirectFails(f, EBADF)
    BY ZenonT(60), <1>0, <2>1, <2>2, <2>4, IoCompletes DEF DirectFails
  <2>. QED BY ZenonT(60), <1>4, <2>3, <2>4 DEF CloseMoves
<1>5. CASE OtherEnds(f)
  <2>1. call[f] # Null /\ res[f] = Null
    BY <1>5, IoSubmitted DEF OtherEnds
  <2>2. PipeInv' /\ UNCHANGED <<call, sqe, ret, errno>>
    BY <1>5 DEF OtherEnds, IoInv, PipeInv
  <2>3. CASE Completes(f, 0) /\ direct' = [direct EXCEPT ![f].ret = 0]
    BY ZenonT(60), <1>0, <2>1, <2>2, <2>3, IoCompletes
  <2>4. CASE Completes(f, -EINVAL) /\ DirectFails(f, EINVAL)
    BY ZenonT(60), <1>0, <2>1, <2>2, <2>4, IoCompletes DEF DirectFails
  <2>. QED BY ZenonT(60), <1>5, <2>3, <2>4 DEF OtherEnds
<1>. QED BY <1>1, <1>2, <1>3, <1>4, <1>5

\* __libuc_errno_result undoes the encoding.
LEMMA IoReturnStep ==
  ASSUME IoInv, NEW f \in Fibers, Return(f)
  PROVE  IoInv'
<1>1. /\ res[f] # Null /\ call[f] # Null /\ Encodes(f) /\ res[f] \in Int /\ held[f] = Null
  BY ZenonT(60) DEF IoInv, Return, BetweenCalls, InCall, Encodes
<1>2. /\ call' = [call EXCEPT ![f] = Null] /\ sqe' = [sqe EXCEPT ![f] = Null]
      /\ res' = [res EXCEPT ![f] = Null]
      /\ UNCHANGED <<held, open, written, read, direct>>
  BY DEF Return
<1>3. /\ ret' \in [Fibers -> Int] /\ errno' \in [Fibers -> Int]
      /\ ret'[f] = direct[f].ret /\ errno'[f] = LeftErrno(f)
      /\ \A g \in Fibers \ {f} : ret'[g] = ret[g] /\ errno'[g] = errno[g]
  <2>1. CASE res[f] < 0
    BY <1>1, <2>1 DEF Return, ErrnoResult, Answer, Encodes, IoInv, IoTypes
  <2>2. CASE ~(res[f] < 0)
    BY <1>1, <2>2 DEF Return, ErrnoResult, Answer, Encodes, IoInv, IoTypes
  <2>. QED BY <2>1, <2>2
<1>4. IoTypes' /\ PipeInv'
  BY ZenonT(60), <1>2, <1>3 DEF IoInv, IoTypes, PipeInv
<1>5. BetweenCalls(f)' /\ InCall(f)' /\ Encodes(f)'
  BY <1>1, <1>2, <1>3 DEF IoInv, IoTypes, BetweenCalls, InCall, Encodes, LeftErrno
<1>6. ASSUME NEW g \in Fibers \ {f} PROVE BetweenCalls(g)' /\ InCall(g)' /\ Encodes(g)'
  <2>1. call'[g] = call[g] /\ sqe'[g] = sqe[g] /\ res'[g] = res[g]
    BY <1>2 DEF IoInv, IoTypes
  <2>. QED BY ZenonT(60), <1>2, <1>3, <2>1, IoOthers
<1>. QED BY ZenonT(60), <1>4, <1>5, <1>6 DEF IoInv

\* Every step keeps the invariant.
LEMMA IoInvNext == IoInv /\ [IoNext]_ioVars => IoInv'
<1>. SUFFICES ASSUME IoInv, [IoNext]_ioVars PROVE IoInv'
  OBVIOUS
<1>1. ASSUME NEW f \in Fibers, NEW k \in Calls, CallRefused(f, k) \/ Call(f, k)
      PROVE  IoInv'
  BY ZenonT(60), <1>1, IoCallStep
<1>2. ASSUME NEW f \in Fibers,
             Issue(f) \/ ReadMoves(f) \/ WriteMoves(f) \/ CloseMoves(f) \/ OtherEnds(f)
      PROVE  IoInv'
  BY ZenonT(60), <1>2, IoKernelStep
<1>3. ASSUME NEW f \in Fibers, Return(f) PROVE IoInv'
  BY ZenonT(60), <1>3, IoReturnStep
<1>4. CASE UNCHANGED ioVars
  BY ZenonT(60), <1>4
  DEF ioVars, IoInv, PipeInv, IoTypes, BetweenCalls, InCall, Encodes, LeftErrno
<1>. QED BY ZenonT(60), <1>1, <1>2, <1>3, <1>4 DEF IoNext

\* It holds throughout.
LEMMA IoInvAlways == IoSpec => []IoInv
BY IoInvInit, IoInvNext, PTL DEF IoSpec

\* Cutting a count to an int, awaiting the ring and turning its result into a
\* return value and errno leave the caller what the system call itself would
\* have, for any widths, counts, fibers and pipe (rw_len.h:7); past SSIZE_MAX
\* the call fails where the system call fails, with its own errno.
THEOREM CallsAreSystemCalls == IoSpec => []AsTheSystemCall
<1>1. IoInv => AsTheSystemCall
  BY ZenonT(60) DEF IoInv, AsTheSystemCall, BetweenCalls, LeftErrno
<1>. QED BY <1>1, IoInvAlways, PTL

\* The kernel reads a call's own arguments out of its SQE, whatever ints and
\* widths there are.
THEOREM SqesCarryArguments == IoSpec => []ReadAsCalled
<1>1. IoInv => ReadAsCalled
  <2>. SUFFICES ASSUME IoInv, NEW f \in Fibers, call[f] # Null
                PROVE  KernelReads(sqe[f]) =
                         CASE call[f].fn \in {"read", "write"} ->
                                <<call[f].a, call[f].b, UINT64_MAX>>
                           [] call[f].fn = "close" -> <<call[f].a>>
                           [] call[f].fn \in {"pipe2", "listen"} ->
                                <<call[f].a, call[f].b>>
                           [] OTHER -> <<call[f].a, call[f].b, call[f].c>>
    BY ZenonT(60) DEF ReadAsCalled
  <2>1. call[f] \in Calls /\ sqe[f] = Prepared(call[f])
    BY ZenonT(60) DEF IoInv, InCall
  <2>. QED BY <2>1, KernelReadsCall
<1>. QED BY <1>1, IoInvAlways, PTL

-----------------------------------------------------------------------------
(* The creation of the ring.                                               *)

\* What setup answered, once it has: powers of two, and offsets in order.
ParamsInv ==
  /\ \E k \in 0 .. Bits - 2 : params.sq_entries = 2^k /\ params.cq_entries = 2^(k + 1)
  /\ params.head = 0 /\ params.tail = WordSize /\ params.cqes = 4 * WordSize
  /\ params.mask \in Nat

\* Which mappings there are before each system call and at either end.
MapsInv ==
  /\ step \in {"setup", "sizes", "map_ring"} => maps = {}
  /\ step # "failed" => kept = {}
  /\ step = "failed" => maps = kept
  /\ step = "map_sqes" => maps = {RingMap}
  /\ step \in {"mask", "created"} => maps = {RingMap, SqesMap}

RingInv ==
  /\ step \in {"setup", "sizes", "map_ring", "map_sqes", "mask", "created", "failed"}
  /\ step \notin {"setup", "failed"} => ParamsInv
  /\ MapsInv
  /\ step # "created" => ring = Null
  /\ step = "created" => ring = Created /\ params.mask = params.cq_entries - 1

\* Nothing is mapped at first.
LEMMA RingInvInit == RingInit => RingInv
BY DEF RingInit, RingInv, MapsInv

\* What setup answers is what the later steps rely on.
LEMMA RingAnswers ==
  ASSUME NEW entries, NEW answered \in Answers(entries), params' = answered
  PROVE  ParamsInv'
<1>1. PICK k \in 0 .. Bits - 2, single \in BOOLEAN, mask \in 0 .. Word \div 2 - 1 :
        answered = [sq_entries |-> 2^k, cq_entries |-> 2^(k + 1),
                    head |-> 0, tail |-> WordSize, ring_mask |-> 2 * WordSize,
                    cqes |-> 4 * WordSize, single_mmap |-> single, mask |-> mask]
  BY DEF Answers
<1>. QED BY <1>1 DEF ParamsInv

\* Every system call of the creation, made or failed, keeps the invariant.
LEMMA RingInvStep ==
  ASSUME RingInv, NEW entries, RingStep(entries)
  PROVE  RingInv'
<1>1. CASE Setup(entries)
  <2>1. CASE params' \in Answers(entries) /\ step' = "sizes"
    <3>1. ParamsInv'
      BY <2>1, RingAnswers
    <3>. QED BY <1>1, <2>1, <3>1 DEF Setup, Fails, RingInv, MapsInv
  <2>2. CASE Fails
    BY <1>1, <2>2 DEF Setup, Fails, RingInv, MapsInv
  <2>. QED BY <1>1, <2>1, <2>2 DEF Setup
<1>2. CASE step # "setup" /\ UNCHANGED params
  <2>1. ParamsInv' <=> ParamsInv
    BY <1>2 DEF ParamsInv
  <2>2. RingMap' = RingMap /\ SqesMap' = SqesMap
    BY <1>2 DEF RingMap, SqesMap, RingLength, SqesLength, CqesLength
  <2>3. CASE Sizes
    BY <1>2, <2>1, <2>3 DEF Sizes, Fails, RingInv, MapsInv
  <2>4. CASE MapRing
    BY <1>2, <2>1, <2>2, <2>4 DEF MapRing, Fails, RingInv, MapsInv
  <2>5. CASE MapSqes
    BY <1>2, <2>1, <2>2, <2>5 DEF MapSqes, Unmap, Fails, RingInv, MapsInv
  <2>6. CASE CheckMask
    <3>1. Created' = Created
      BY <1>2 DEF Created, RingLength, SqesLength, CqesLength
    <3>. QED BY <1>2, <2>1, <2>2, <2>6, <3>1 DEF CheckMask, Unmap, Fails, RingInv, MapsInv
  <2>7. ~Setup(entries)
    BY <1>2 DEF Setup
  <2>. QED BY <2>3, <2>4, <2>5, <2>6, <2>7 DEF RingStep
<1>. QED BY <1>1, <1>2 DEF RingStep, Sizes, MapRing, MapSqes, CheckMask

\* What the creation leaves alone.
LEMMA RingInvKept ==
  ASSUME RingInv, UNCHANGED ringVars
  PROVE  RingInv'
BY ZenonT(60)
DEF RingInv, MapsInv, ParamsInv, ringVars, RingMap, SqesMap, RingLength, SqesLength,
    CqesLength, Created

\* The number of completions divides the range of the wrapping indices.
LEMMA EntriesDivideWord ==
  ASSUME NEW k \in 0 .. Bits - 2
  PROVE  /\ 2^k \in Nat \ {0} /\ 2^(k + 1) \in Nat \ {0} /\ Word \in Nat \ {0}
         /\ 2^(k + 1) <= Word /\ Word % 2^(k + 1) = 0
<1>. DEFINE m == 2^(k + 1)
            q == 2^(Bits - (k + 1))
<1>1. /\ k \in 0 .. 2 * Bits /\ k + 1 \in 0 .. 2 * Bits /\ Bits \in 0 .. 2 * Bits
      /\ Bits - (k + 1) \in 0 .. 2 * Bits /\ (k + 1) + (Bits - (k + 1)) = Bits
      /\ Bits <= 2 * Bits
  BY BitsAssumption
<1>2. /\ 2^k \in Nat \ {0} /\ m \in Nat \ {0} /\ q \in Nat \ {0} /\ 2^Bits \in Nat \ {0}
      /\ 2^Bits = m * q
  BY <1>1, PowerAssumption
<1>. HIDE DEF m, q
<1>3. m * q + 0 = m * q /\ 0 \in 0 .. m - 1 /\ q \in Int /\ m <= m * q
  BY <1>2, SMTT(30)
<1>4. (m * q + 0) % m = 0
  BY ZenonT(60), <1>2, <1>3, RemainderUnique
<1>. QED BY <1>2, <1>3, <1>4 DEF Word, m

\* The length of a mapping bounds the end of each of its entries.
LEMMA EntryFits ==
  ASSUME NEW index \in Nat, NEW entries \in Nat, index < entries, NEW size \in Nat
  PROVE  (index + 1) * size <= entries * size
<1>1. PICK more \in Nat : entries = (index + 1) + more
  <2>1. entries - (index + 1) \in Nat /\ entries = (index + 1) + (entries - (index + 1))
    OBVIOUS
  <2>. QED BY <2>1
<1>2. entries * size = (index + 1) * size + more * size /\ more * size \in Nat
  BY <1>1, SMTT(30)
<1>3. (index + 1) * size \in Nat
  BY SMTT(30)
<1>. QED BY ONLY <1>2, <1>3, SMTT(30)

\* The created ring is usable through every index.
LEMMA CreatedUsable == RingInv => RingUsable
<1>. SUFFICES ASSUME RingInv, ring # Null PROVE RingUsable
  BY DEF RingUsable
<1>1. /\ step = "created" /\ ring = Created /\ ParamsInv /\ maps = {RingMap, SqesMap}
      /\ params.mask = params.cq_entries - 1
  BY ZenonT(60) DEF RingInv, MapsInv
<1>2. PICK k \in 0 .. Bits - 2 : params.sq_entries = 2^k /\ params.cq_entries = 2^(k + 1)
  BY <1>1 DEF ParamsInv
<1>. DEFINE E == params.cq_entries
<1>3. /\ E \in Nat \ {0} /\ Word \in Nat \ {0} /\ Word % E = 0 /\ E <= Word
      /\ params.sq_entries \in Nat
  BY SMTT(30), <1>2, EntriesDivideWord
<1>4. /\ ring.head = 0 /\ ring.tail = WordSize /\ ring.cqes = 4 * WordSize
      /\ ring.cq_mask + 1 = E /\ ring.cq_entries = E
      /\ ring.sq_entries = params.sq_entries
      /\ ring.ring_mapping_length = ring.cqes + E * CqeSize
      /\ ring.sqes_mapping_length = ring.sq_entries * SqeSize
      /\ RingMap = [area |-> "ring", length |-> ring.ring_mapping_length]
      /\ SqesMap = [area |-> "sqes", length |-> ring.sqes_mapping_length]
  BY <1>1, <1>3
  DEF Created, ParamsInv, RingMap, SqesMap, RingLength, SqesLength, CqesLength
<1>. HIDE DEF E
<1>5. /\ WordSize \in Nat /\ CqeSize \in Nat /\ SqeSize \in Nat
      /\ ring.cqes \in Nat /\ E * CqeSize \in Nat
      /\ ring.sqes_mapping_length \in Nat
  BY <1>3, <1>4, SizeAssumption, SMTT(30)
<1>6. \A at_word \in {ring.head, ring.tail} : at_word + WordSize <= ring.cqes
  BY <1>4, <1>5
<1>7. ASSUME NEW head \in 0 .. Word - 1
      PROVE  EntryEnd(Index(head)) <= ring.ring_mapping_length
  <2>0. head \in Int /\ Index(head) = head % E
    BY <1>3, <1>4 DEF Index
  <2>1. Index(head) \in Nat /\ Index(head) < E
    BY <1>3, <2>0, Division
  <2>2. (Index(head) + 1) * CqeSize <= E * CqeSize
    BY <1>3, <1>5, <2>1, EntryFits
  <2>3. (Index(head) + 1) * CqeSize \in Nat
    BY <1>5, <2>1, SMTT(30)
  <2>. QED BY <1>4, <1>5, <2>2, <2>3 DEF EntryEnd
<1>8. ASSUME NEW head \in 0 .. Word - 1, NEW x \in 0 .. E - 1, NEW y \in 0 .. E - 1, x < y
      PROVE  Index((head + x) % Word) # Index((head + y) % Word)
  <2>1. /\ head + x \in Int /\ head + y \in Int
        /\ head + x < head + y /\ head + y < (head + x) + E
    BY <1>3, <1>8
  <2>2. ((head + x) % Word) % E = (head + x) % E /\ ((head + y) % Word) % E = (head + y) % E
    <3>1. ASSUME NEW z \in Int PROVE (z % Word) % E = z % E
      BY ZenonT(60), <1>3, RemainderOfRemainder
    <3>. QED BY ZenonT(60), <2>1, <3>1
  <2>3. (head + x) % E # (head + y) % E
    BY ZenonT(60), <1>3, <2>1, NearbyRemainders
  <2>. QED BY <1>4, <2>2, <2>3 DEF Index
<1>9. \A head \in 0 .. Word - 1 : \A x, y \in 0 .. ring.cq_entries - 1 :
        x # y => Index((head + x) % Word) # Index((head + y) % Word)
  <2>. SUFFICES ASSUME NEW head \in 0 .. Word - 1, NEW x \in 0 .. E - 1, NEW y \in 0 .. E - 1,
                       x # y
                PROVE  Index((head + x) % Word) # Index((head + y) % Word)
    <3>1. ring.cq_entries = E
      BY <1>4
    <3>. QED BY ZenonT(60), <3>1
  <2>1. x < y \/ y < x
    BY <1>3
  <2>. QED BY ZenonT(60), <1>8, <2>1
<1>10. ring.sq_entries * SqeSize <= ring.sqes_mapping_length
  BY <1>4, <1>5
<1>. QED BY ZenonT(60), <1>1, <1>4, <1>6, <1>7, <1>9, <1>10 DEF RingUsable

-----------------------------------------------------------------------------
(* The start of the process.                                               *)

\* Where the vectors of an image begin.
VectorsAt ==
  /\ argc = image.args /\ argv = 1 /\ envp = image.args + 2
  /\ auxiliary_vector = image.args + image.envs + 3

\* What getauxval is to answer for a type: the first entry's value, or nothing.
OfType(type) == {k \in DOMAIN image.auxv : image.auxv[k][1] = type}

AnswerInv ==
  answer # Null =>
    IF OfType(answer.type) = {} THEN answer.errno = "ENOENT" /\ answer.value = 0
    ELSE answer.errno = Null /\ answer.value = image.auxv[Min(OfType(answer.type))][2]

\* What each check the process has passed has established.
PassedInv ==
  /\ pc \notin {"parse", "exit"} => VectorsAt
  /\ pc \notin {"parse", "layout", "exit"} => LayoutOk
  /\ pc \in {"spawn", "run", "init", "main"} => step = "created"
  /\ pc \in {"run", "init", "main"} => root # Null
  /\ pc = "exit" /\ ring = Null => exit_code = 127 /\ inits_run = <<>>

InitsInv ==
  /\ inits_run \in Seq(Nat) /\ Len(inits_run) <= Inits
  /\ \A k \in 1 .. Len(inits_run) : inits_run[k] = k
  /\ pc = "main" => Len(inits_run) = Inits
  /\ pc \notin {"init", "main", "exit"} => inits_run = <<>>

StartInv ==
  /\ RingInv /\ image \in Images
  /\ pc \in {"parse", "layout", "become", "spawn", "run", "init", "main", "exit", "killed"}
  /\ AnswerInv /\ PassedInv /\ InitsInv

\* The auxiliary vector as words.
LEMMA FlatForm ==
  ASSUME image \in Images
  PROVE  /\ image.argc \in Nat /\ image.args \in Nat /\ image.envs \in Nat
         /\ image.argc <= image.args \/ image.argc > IntMax
         /\ Len(image.auxv) \in Nat /\ DOMAIN image.auxv = 1 .. Len(image.auxv)
         /\ Flat(image.auxv) \in Seq(Nat) /\ Len(Flat(image.auxv)) = 2 * Len(image.auxv)
         /\ \A k \in 1 .. Len(image.auxv) :
              /\ image.auxv[k][1] \in Nat /\ image.auxv[k][2] \in Nat
              /\ image.auxv[k][1] # AT_NULL
              /\ Flat(image.auxv)[2 * k - 1] = image.auxv[k][1]
              /\ Flat(image.auxv)[2 * k] = image.auxv[k][2]
<1>. DEFINE pairs == image.auxv
            flat == Flat(pairs)
<1>1. /\ image.argc \in Nat /\ image.args \in Nat /\ image.envs \in Nat
      /\ image.argc <= image.args \/ image.argc > IntMax
      /\ pairs \in Seq(Nat \X Nat)
      /\ \A k \in DOMAIN pairs : pairs[k][1] # AT_NULL
  BY ZenonT(60), ImageAssumption
<1>. HIDE DEF pairs
<1>2. /\ Len(pairs) \in Nat /\ DOMAIN pairs = 1 .. Len(pairs)
      /\ \A k \in 1 .. Len(pairs) : pairs[k] \in Nat \X Nat
  BY <1>1
<1>3. \A k \in 1 .. Len(pairs) : pairs[k][1] \in Nat /\ pairs[k][2] \in Nat
  BY <1>2
<1>4. \A j \in 1 .. 2 * Len(pairs) : (j + 1) \div 2 \in 1 .. Len(pairs)
  <2>. SUFFICES ASSUME NEW j \in 1 .. 2 * Len(pairs)
                PROVE  (j + 1) \div 2 \in 1 .. Len(pairs)
    OBVIOUS
  <2>. DEFINE q == (j + 1) \div 2
              r == (j + 1) % 2
  <2>0. j + 1 \in Int /\ 2 \in Nat \ {0} /\ 2 - 1 = 1
    BY <1>2
  <2>1. q \in Int /\ r \in 0 .. 1 /\ j + 1 = 2 * q + r
    BY ZenonT(60), <2>0, Division
  <2>. HIDE DEF q, r
  <2>2. q \in 1 .. Len(pairs)
    BY <1>2, <2>1, SMTT(30)
  <2>. QED BY <2>2 DEF q
<1>5. flat = [j \in 1 .. 2 * Len(pairs) |->
                pairs[(j + 1) \div 2][IF j % 2 = 1 THEN 1 ELSE 2]]
  BY DEF Flat
<1>6. \A j \in 1 .. 2 * Len(pairs) : flat[j] \in Nat
  BY <1>3, <1>4, <1>5
<1>7. flat \in Seq(Nat) /\ Len(flat) = 2 * Len(pairs)
  BY <1>2, <1>5, <1>6
<1>8. ASSUME NEW k \in 1 .. Len(pairs)
      PROVE  flat[2 * k - 1] = pairs[k][1] /\ flat[2 * k] = pairs[k][2]
  <2>1. /\ 2 * k - 1 \in 1 .. 2 * Len(pairs) /\ 2 * k \in 1 .. 2 * Len(pairs)
        /\ (2 * k - 1 + 1) \div 2 = k /\ (2 * k + 1) \div 2 = k
        /\ (2 * k - 1) % 2 = 1 /\ (2 * k) % 2 = 0
    BY <1>2, SMTT(30)
  <2>. QED BY <1>5, <2>1
<1>. QED BY ZenonT(60), <1>1, <1>2, <1>3, <1>7, <1>8 DEF pairs

\* The words of an image: each string and each end is where the counts put it.
LEMMA WordsForm ==
  ASSUME image \in Images
  PROVE  LET A == image.args
             E == image.envs
             V == Len(Flat(image.auxv))
         IN /\ Len(Words) = A + E + V + 5 /\ Words \in Seq(Nat)
            /\ words(0) = image.argc
            /\ \A k \in 0 .. A - 1 : words(1 + k) = Pointer
            /\ words(1 + A) = 0
            /\ \A k \in 0 .. E - 1 : words(A + 2 + k) = Pointer
            /\ words(A + E + 2) = 0
            /\ \A k \in 1 .. V : words(A + E + 2 + k) = Flat(image.auxv)[k]
            /\ words(A + E + V + 3) = AT_NULL
<1>. DEFINE A == image.args
            E == image.envs
            flat == Flat(image.auxv)
            V == Len(flat)
            args == [k \in 1 .. A |-> Pointer]
            envs == [k \in 1 .. E |-> Pointer]
            S == Nat
            first == <<image.argc>>
            null == <<0>>
            last == <<AT_NULL, 0>>
            w1 == first \o args
            w2 == w1 \o null
            w3 == w2 \o envs
            w4 == w3 \o null
            w5 == w4 \o flat
<1>1. /\ A \in Nat /\ E \in Nat /\ flat \in Seq(S) /\ V \in Nat /\ image.argc \in Nat
  BY FlatForm
<1>2. Words = w5 \o last
  BY DEF Words
<1>3. /\ args \in Seq(S) /\ Len(args) = A /\ \A k \in 1 .. A : args[k] = Pointer
  <2>1. Pointer \in Nat
    BY DEF Pointer
  <2>. QED BY <1>1, <2>1
<1>4. /\ envs \in Seq(S) /\ Len(envs) = E /\ \A k \in 1 .. E : envs[k] = Pointer
  <2>1. Pointer \in Nat
    BY DEF Pointer
  <2>. QED BY <1>1, <2>1
<1>5. first \in Seq(S) /\ Len(first) = 1 /\ first[1] = image.argc
  BY <1>1
<1>6. null \in Seq(S) /\ Len(null) = 1 /\ null[1] = 0
  OBVIOUS
<1>7. last \in Seq(S) /\ Len(last) = 2 /\ last[1] = AT_NULL
  BY DEF AT_NULL
<1>. HIDE DEF A, E, V, S, first, null, last, flat, args, envs
<1>8. flat \in Seq(S) /\ args \in Seq(S) /\ envs \in Seq(S) /\ Len(flat) = V
  BY <1>1, <1>3, <1>4 DEF V
<1>9. /\ w1 \in Seq(S) /\ Len(w1) = Len(first) + Len(args)
      /\ \A k \in 1 .. Len(first) : w1[k] = first[k]
      /\ \A k \in 1 .. Len(args) : w1[Len(first) + k] = args[k]
  <2>1. first \in Seq(S) /\ args \in Seq(S)
    BY <1>5, <1>8
  <2>. QED BY ONLY <2>1, SMTT(30)
<1>. HIDE DEF w1
<1>10. /\ w2 \in Seq(S) /\ Len(w2) = Len(w1) + Len(null)
       /\ \A k \in 1 .. Len(w1) : w2[k] = w1[k]
       /\ \A k \in 1 .. Len(null) : w2[Len(w1) + k] = null[k]
  <2>1. w1 \in Seq(S) /\ null \in Seq(S)
    BY <1>6, <1>9
  <2>. QED BY ONLY <2>1, SMTT(30)
<1>. HIDE DEF w2
<1>11. /\ w3 \in Seq(S) /\ Len(w3) = Len(w2) + Len(envs)
       /\ \A k \in 1 .. Len(w2) : w3[k] = w2[k]
       /\ \A k \in 1 .. Len(envs) : w3[Len(w2) + k] = envs[k]
  <2>1. w2 \in Seq(S) /\ envs \in Seq(S)
    BY <1>8, <1>10
  <2>. QED BY ONLY <2>1, SMTT(30)
<1>. HIDE DEF w3
<1>12. /\ w4 \in Seq(S) /\ Len(w4) = Len(w3) + Len(null)
       /\ \A k \in 1 .. Len(w3) : w4[k] = w3[k]
       /\ \A k \in 1 .. Len(null) : w4[Len(w3) + k] = null[k]
  <2>1. w3 \in Seq(S) /\ null \in Seq(S)
    BY <1>6, <1>11
  <2>. QED BY ONLY <2>1, SMTT(30)
<1>. HIDE DEF w4
<1>13. /\ w5 \in Seq(S) /\ Len(w5) = Len(w4) + Len(flat)
       /\ \A k \in 1 .. Len(w4) : w5[k] = w4[k]
       /\ \A k \in 1 .. Len(flat) : w5[Len(w4) + k] = flat[k]
  <2>1. w4 \in Seq(S) /\ flat \in Seq(S)
    BY <1>8, <1>12
  <2>. QED BY ONLY <2>1, SMTT(30)
<1>. HIDE DEF w5
<1>14. /\ Words \in Seq(S) /\ Len(Words) = Len(w5) + Len(last)
       /\ \A k \in 1 .. Len(w5) : Words[k] = w5[k]
       /\ \A k \in 1 .. Len(last) : Words[Len(w5) + k] = last[k]
  <2>1. w5 \in Seq(S) /\ last \in Seq(S)
    BY <1>7, <1>13
  <2>. QED BY ONLY <2>1, <1>2, SMTT(30)
<1>15. /\ Len(w1) = A + 1 /\ Len(w2) = A + 2 /\ Len(w3) = A + E + 2
       /\ Len(w4) = A + E + 3 /\ Len(w5) = A + E + V + 3 /\ Len(Words) = A + E + V + 5
  BY ONLY <1>1, <1>3, <1>4, <1>5, <1>6, <1>7, <1>8, <1>9, <1>10, <1>11, <1>12, <1>13, <1>14,
          SMTT(30)
<1>16. \A k \in 1 .. A + E + 3 : Words[k] = w4[k]
  BY ONLY <1>1, <1>13, <1>14, <1>15, SMTT(30)
<1>17. \A k \in 1 .. A + E + 2 : Words[k] = w3[k]
  BY ONLY <1>1, <1>12, <1>15, <1>16, SMTT(90)
<1>18. \A k \in 1 .. A + 2 : Words[k] = w2[k]
  BY ONLY <1>1, <1>11, <1>15, <1>17, SMTT(30)
<1>19. \A k \in 1 .. A + 1 : Words[k] = w1[k]
  BY ONLY <1>1, <1>10, <1>15, <1>18, SMTT(30)
<1>20. words(0) = image.argc
  BY ONLY <1>1, <1>5, <1>9, <1>19, SMTT(30) DEF words
<1>21. ASSUME NEW k \in 0 .. A - 1 PROVE words(1 + k) = Pointer
  <2>1. k + 1 \in 1 .. A /\ 1 + (k + 1) \in 1 .. A + 1 /\ 1 + k + 1 = 1 + (k + 1)
    BY <1>1
  <2>. QED BY ONLY <1>3, <1>5, <1>9, <1>19, <2>1, SMTT(30) DEF words
<1>22. words(1 + A) = 0
  <2>1. 1 + A + 1 = (A + 1) + 1 /\ (A + 1) + 1 \in 1 .. A + 2
    BY <1>1
  <2>. QED BY ONLY <1>6, <1>10, <1>15, <1>18, <2>1, SMTT(30) DEF words
<1>23. ASSUME NEW k \in 0 .. E - 1 PROVE words(A + 2 + k) = Pointer
  <2>1. /\ A + 2 + k + 1 = (A + 2) + (k + 1) /\ k + 1 \in 1 .. E
        /\ A + 2 + k + 1 \in 1 .. A + E + 2
    BY <1>1
  <2>. QED BY ONLY <1>4, <1>11, <1>15, <1>17, <2>1, SMTT(90) DEF words
<1>24. words(A + E + 2) = 0
  <2>1. A + E + 2 + 1 \in 1 .. A + E + 3
    BY <1>1
  <2>. QED BY ONLY <1>6, <1>12, <1>15, <1>16, <2>1, SMTT(30) DEF words
<1>25. ASSUME NEW k \in 1 .. V PROVE words(A + E + 2 + k) = flat[k]
  <2>1. /\ A + E + 2 + k + 1 = (A + E + 3) + k
        /\ A + E + 2 + k + 1 \in 1 .. A + E + V + 3
    BY <1>1
  <2>. QED BY ONLY <1>8, <1>13, <1>14, <1>15, <2>1, SMTT(90) DEF words
<1>26. words(A + E + V + 3) = AT_NULL
  BY ONLY <1>7, <1>14, <1>15, SMTT(30) DEF words
<1>27. Words \in Seq(Nat)
  BY <1>14 DEF S
<1>. QED BY ZenonT(60), <1>15, <1>20, <1>21, <1>22, <1>23, <1>24, <1>25, <1>26, <1>27
         DEF A, E, V, flat

\* The first null at or after the environment is the one that ends it.
LEMMA EnvironmentEndsThere ==
  ASSUME image \in Images
  PROVE  EnvironmentEnd(image.args + 2) = image.args + image.envs + 2
<1>. DEFINE from == image.args + 2
            end == image.args + image.envs + 2
            T == {k \in from .. Len(Words) - 1 : words(k) = 0}
<1>1. /\ image.args \in Nat /\ image.envs \in Nat /\ Len(Flat(image.auxv)) \in Nat
      /\ Len(Words) = image.args + image.envs + Len(Flat(image.auxv)) + 5
      /\ words(end) = 0
  BY FlatForm, WordsForm
<1>2. \A k \in 0 .. image.envs - 1 : words(from + k) # 0
  <2>1. Pointer # 0
    BY DEF Pointer
  <2>. QED BY <2>1, WordsForm
<1>3. end \in T
  BY SMTT(30), <1>1
<1>4. ASSUME NEW k \in T PROVE end <= k
  <2>1. k \in Int /\ k >= from /\ words(k) = 0
    BY <1>1
  <2>. SUFFICES ASSUME k < end PROVE FALSE
    BY <1>1, <2>1
  <2>2. k - from \in 0 .. image.envs - 1 /\ from + (k - from) = k
    <3>1. \A x, y \in Nat, z \in Int :
            z >= x + 2 /\ z < x + y + 2 => z - (x + 2) \in 0 .. y - 1 /\ x + 2 + (z - (x + 2)) = z
      OBVIOUS
    <3>. QED BY ZenonT(60), <1>1, <2>1, <3>1
  <2>3. words(from + (k - from)) # 0
    BY ZenonT(60), <1>2, <2>2
  <2>. QED BY <2>1, <2>2, <2>3
<1>5. T \subseteq Int
  BY <1>1
<1>. HIDE DEF T
<1>6. \A x \in T : (\A y \in T : x <= y) => x = end
  BY <1>1, <1>3, <1>4, <1>5
<1>7. Min(T) = end
  BY ZenonT(60), <1>3, <1>4, <1>6 DEF Min
<1>. QED BY <1>7 DEF EnvironmentEnd, T

\* The vectors are where the kernel wrote them, or the process is refused.
LEMMA ParseFinds ==
  ASSUME image \in Images, Parse
  PROVE  \/ pc' = "exit" /\ exit_code' = 127
         \/ pc' = "layout" /\ VectorsAt'
<1>1. /\ image.argc \in Nat /\ image.args \in Nat /\ image.envs \in Nat
      /\ image.argc <= image.args \/ image.argc > IntMax
      /\ words(0) = image.argc
  BY FlatForm, WordsForm
<1>2. image' = image
  BY DEF Parse
<1>3. CASE words(0) > IntMax \/ words(1 + words(0)) # 0
  BY <1>3 DEF Parse, Refuse
<1>4. CASE ~(words(0) > IntMax) /\ words(1 + words(0)) = 0
  <2>1. image.argc = image.args
    <3>. SUFFICES ASSUME image.argc # image.args PROVE FALSE
      OBVIOUS
    <3>1. image.argc \in 0 .. image.args - 1
      BY <1>1, <1>4
    <3>2. words(1 + image.argc) = Pointer /\ Pointer # 0
      BY <3>1, WordsForm DEF Pointer
    <3>. QED BY <1>1, <1>4, <3>2
  <2>2. /\ pc' = "layout" /\ argc' = image.args /\ argv' = 1
        /\ envp' = 1 + image.args + 1
        /\ auxiliary_vector' = EnvironmentEnd(envp') + 1
    BY <1>1, <1>4, <2>1 DEF Parse
  <2>3. envp' = image.args + 2
    BY <1>1, <2>2
  <2>4. auxiliary_vector' = image.args + image.envs + 3
    BY <1>1, <2>2, <2>3, EnvironmentEndsThere
  <2>. QED BY <1>2, <2>2, <2>3, <2>4 DEF VectorsAt
<1>. QED BY SMTT(30), <1>3, <1>4

\* The entries of the auxiliary vector as the search reads them.
LEMMA EntryWords ==
  ASSUME image \in Images, VectorsAt
  PROVE  LET V == Len(image.auxv)
         IN /\ \A e \in 0 .. V - 1 :
                 /\ words(auxiliary_vector + 2 * e) = image.auxv[e + 1][1]
                 /\ words(auxiliary_vector + 2 * e + 1) = image.auxv[e + 1][2]
            /\ words(auxiliary_vector + 2 * V) = AT_NULL
            /\ V \in Nat /\ V <= Len(Words)
<1>. DEFINE V == Len(image.auxv)
            flat == Flat(image.auxv)
            base == image.args + image.envs + 2
<1>1. /\ image.args \in Nat /\ image.envs \in Nat /\ V \in Nat /\ Len(flat) = 2 * V
      /\ base \in Nat /\ auxiliary_vector = base + 1
  BY SMTT(30), FlatForm DEF VectorsAt
<1>2. /\ \A k \in 1 .. Len(flat) : words(base + k) = flat[k]
      /\ words(base + Len(flat) + 1) = AT_NULL /\ Len(Words) = base + Len(flat) + 3
  <2>1. /\ \A k \in 1 .. Len(flat) : words(base + k) = flat[k]
        /\ words(image.args + image.envs + Len(flat) + 3) = AT_NULL
        /\ Len(Words) = image.args + image.envs + Len(flat) + 5
    BY WordsForm
  <2>2. \A x, y, z \in Nat :
          x + y + z + 3 = x + y + 2 + z + 1 /\ x + y + z + 5 = x + y + 2 + z + 3
    OBVIOUS
  <2>3. image.args \in Nat /\ image.envs \in Nat /\ Len(flat) \in Nat
    BY <1>1
  <2>. QED BY ZenonT(60), <2>1, <2>2, <2>3
<1>3. \A k \in 1 .. V : flat[2 * k - 1] = image.auxv[k][1] /\ flat[2 * k] = image.auxv[k][2]
  BY FlatForm
<1>. HIDE DEF flat, base, V
<1>4. ASSUME NEW e \in 0 .. V - 1
      PROVE  /\ words(auxiliary_vector + 2 * e) = image.auxv[e + 1][1]
             /\ words(auxiliary_vector + 2 * e + 1) = image.auxv[e + 1][2]
  <2>. DEFINE k == e + 1
  <2>1. /\ k \in 1 .. V /\ 2 * k - 1 \in 1 .. Len(flat) /\ 2 * k \in 1 .. Len(flat)
        /\ auxiliary_vector + 2 * e = base + (2 * k - 1)
        /\ auxiliary_vector + 2 * e + 1 = base + 2 * k
    BY <1>1
  <2>. HIDE DEF k
  <2>2. words(base + (2 * k - 1)) = flat[2 * k - 1] /\ words(base + 2 * k) = flat[2 * k]
    BY ZenonT(60), <1>2, <2>1
  <2>3. /\ words(auxiliary_vector + 2 * e) = image.auxv[k][1]
        /\ words(auxiliary_vector + 2 * e + 1) = image.auxv[k][2]
    BY ZenonT(60), <1>3, <2>1, <2>2
  <2>. QED BY <2>3 DEF k
<1>5. words(auxiliary_vector + 2 * V) = AT_NULL
  <2>1. auxiliary_vector + 2 * V = base + Len(flat) + 1
    BY <1>1
  <2>. QED BY ZenonT(60), <1>2, <2>1
<1>6. V <= Len(Words)
  BY <1>1, <1>2
<1>. QED BY ZenonT(60), <1>1, <1>4, <1>5, <1>6 DEF V

\* The search stops at the first entry of its type, or at the end marker.
LEMMA AuxvGetMeans ==
  ASSUME image \in Images, VectorsAt, NEW type
  PROVE  IF OfType(type) = {} THEN AuxvGet(type) = Null
         ELSE AuxvGet(type) = image.auxv[Min(OfType(type))][2] /\ AuxvGet(type) # Null
<1>. DEFINE V == Len(image.auxv)
            T == OfType(type)
            key(e) == words(auxiliary_vector + 2 * e)
            Stops(e) == /\ key(e) \in {AT_NULL, type}
                        /\ \A b \in 0 .. e - 1 : key(b) \notin {AT_NULL, type}
<1>1. /\ \A e \in 0 .. V - 1 :
           /\ key(e) = image.auxv[e + 1][1]
           /\ words(auxiliary_vector + 2 * e + 1) = image.auxv[e + 1][2]
      /\ key(V) = AT_NULL /\ V \in Nat /\ V <= Len(Words)
  BY EntryWords
<1>2. /\ DOMAIN image.auxv = 1 .. V
      /\ \A k \in 1 .. V : image.auxv[k][1] # AT_NULL /\ image.auxv[k][2] \in Nat
  BY FlatForm
<1>3. Len(Words) \in Nat
  BY WordsForm
<1>4. EntryOf(type) = CHOOSE e \in 0 .. Len(Words) : Stops(e)
  BY DEF EntryOf
<1>5. T \subseteq 1 .. V /\ \A k \in 1 .. V : k \in T <=> image.auxv[k][1] = type
  BY <1>2 DEF OfType
<1>. HIDE DEF V, T, key
<1>6. ASSUME NEW found \in 0 .. V, Stops(found),
             \A e \in 0 .. Len(Words) : Stops(e) => e = found
      PROVE  EntryOf(type) = found
  <2>1. found \in 0 .. Len(Words)
    BY <1>1, <1>3
  <2>. HIDE DEF Stops
  <2>. QED BY ZenonT(60), <1>4, <1>6, <2>1
<1>7. ASSUME NEW found \in 0 .. V, Stops(found)
      PROVE  \A e \in 0 .. Len(Words) : Stops(e) => e = found
  <2>. SUFFICES ASSUME NEW e \in 0 .. Len(Words), Stops(e), e # found PROVE FALSE
    OBVIOUS
  <2>1. e \in 0 .. found - 1 \/ found \in 0 .. e - 1
    BY <1>1, <1>3
  <2>. QED BY ZenonT(60), <1>7, <2>1
<1>8. CASE T = {}
  <2>1. Stops(V) /\ V \in 0 .. V
    <3>1. ASSUME NEW b \in 0 .. V - 1 PROVE key(b) \notin {AT_NULL, type}
      <4>1. b + 1 \in 1 .. V
        BY <1>1
      <4>. QED BY ZenonT(60), <1>1, <1>2, <1>5, <1>8, <4>1
    <3>. QED BY <1>1, <3>1
  <2>2. EntryOf(type) = V
    BY ZenonT(60), <1>6, <1>7, <2>1
  <2>3. AuxvGet(type) = Null
    BY ZenonT(60), <1>1, <2>2 DEF AuxvGet, key
  <2>. QED BY SMTT(30), <1>8, <2>3 DEF T
<1>9. CASE T # {}
  <2>1. PICK least \in T : \A y \in T : least <= y
    <3>1. T \in SUBSET Nat
      BY <1>1, <1>5
    <3>. QED BY ZenonT(60), <1>9, <3>1, LeastNatural
  <2>2. least \in 1 .. V /\ T \subseteq Int /\ image.auxv[least][1] = type
    BY <1>1, <1>5
  <2>3. Min(T) = least
    <3>1. \A x, y \in Int : x <= y /\ y <= x => x = y
      OBVIOUS
    <3>2. \A x \in T : (\A y \in T : x <= y) => x = least
      BY ONLY <2>1, <2>2, <3>1, ZenonT(60)
    <3>. QED BY ZenonT(60), <2>1, <3>2 DEF Min
  <2>. DEFINE e == least - 1
  <2>4. e \in 0 .. V /\ e \in 0 .. V - 1 /\ e + 1 = least
    BY <1>1, <2>2
  <2>5. Stops(e)
    <3>1. ASSUME NEW b \in 0 .. e - 1 PROVE key(b) \notin {AT_NULL, type}
      <4>1. b + 1 \in 1 .. V /\ b \in 0 .. V - 1 /\ ~(least <= b + 1)
        BY <1>1, <2>2
      <4>. QED BY ZenonT(60), <1>1, <1>2, <1>5, <2>1, <4>1
    <3>2. key(e) = type
      BY ZenonT(60), <1>1, <2>2, <2>4
    <3>. QED BY <3>1, <3>2
  <2>6. EntryOf(type) = e
    <3>. HIDE DEF e, Stops
    <3>. QED BY ZenonT(60), <1>6, <1>7, <2>4, <2>5
  <2>7. key(e) # AT_NULL /\ words(auxiliary_vector + 2 * e + 1) = image.auxv[least][2]
    <3>. HIDE DEF e
    <3>. QED BY ZenonT(60), <1>1, <1>2, <2>2, <2>4
  <2>8. AuxvGet(type) = image.auxv[least][2]
    <3>. HIDE DEF e
    <3>. QED BY ZenonT(60), <2>6, <2>7 DEF AuxvGet, key
  <2>9. image.auxv[least][2] # Null
    BY <1>2, <2>2, BitsAssumption
  <2>. QED BY ZenonT(60), <1>9, <2>3, <2>8, <2>9 DEF T
<1>. QED BY SMTT(30), <1>8, <1>9

\* Only a completed creation hands a ring out, and what it hands out is one.
LEMMA CreatedIsRing ==
  ASSUME RingInv, step = "created"
  PROVE  ring # Null
<1>1. ring = Created /\ ParamsInv /\ params.mask = params.cq_entries - 1
  BY ZenonT(60) DEF RingInv
<1>2. PICK k \in 0 .. Bits - 2 : params.sq_entries = 2^k /\ params.cq_entries = 2^(k + 1)
  BY <1>1 DEF ParamsInv
<1>3. params.sq_entries \in Nat /\ params.cq_entries \in Nat
  BY <1>2, EntriesDivideWord
<1>4. /\ WordSize \in Nat /\ CqeSize \in Nat /\ SqeSize \in Nat
      /\ params.cq_entries * CqeSize \in Nat /\ params.sq_entries * SqeSize \in Nat
  BY <1>3, SizeAssumption, SMTT(30)
<1>5. /\ params.head \in Nat /\ params.tail \in Nat /\ params.cqes \in Nat /\ params.mask \in Nat
      /\ RingLength \in Nat /\ SqesLength \in Nat
  BY SMTT(30), <1>1, <1>4 DEF ParamsInv, RingLength, SqesLength, CqesLength
<1>6. Created \in Rings
  BY <1>3, <1>5 DEF Created, Rings
<1>. QED BY <1>1, <1>6, NullAssumption

\* What the auxiliary vector holds does not change.
LEMMA AuxvKept ==
  ASSUME UNCHANGED <<image, auxiliary_vector>>
  PROVE  LayoutOk' <=> LayoutOk
<1>1. Words' = Words
  BY DEF Words, Flat
<1>2. \A k : words(k)' = words(k)
  BY <1>1 DEF words
<1>3. \A type : EntryOf(type)' = EntryOf(type)
  BY ZenonT(60), <1>1, <1>2 DEF EntryOf
<1>4. \A type : AuxvGet(type)' = AuxvGet(type)
  BY ZenonT(60), <1>2, <1>3 DEF AuxvGet
<1>. QED BY ZenonT(60), <1>4 DEF LayoutOk

\* The process as the kernel starts it.
LEMMA StartInvInit == Init => StartInv
<1>. SUFFICES ASSUME Init PROVE StartInv
  OBVIOUS
<1>1. RingInv
  BY RingInvInit DEF Init
<1>2. InitsInv
  BY StartAssumption DEF Init, InitsInv
<1>3. AnswerInv /\ PassedInv /\ pc = "parse" /\ image \in Images
  BY DEF Init, AnswerInv, PassedInv
<1>. QED BY <1>1, <1>2, <1>3 DEF StartInv

\* The answers given stay right: the image never changes.
LEMMA AnswerKept ==
  ASSUME AnswerInv, UNCHANGED <<image, answer>>
  PROVE  AnswerInv'
BY ZenonT(60) DEF AnswerInv, OfType

\* Up to main: each step is taken only by a process that passed the one before.
LEMMA StartingStep ==
  ASSUME StartInv, Starting
  PROVE  StartInv'
<1>0. RingInv /\ image \in Images /\ AnswerInv /\ PassedInv /\ InitsInv
  BY DEF StartInv
<1>1. UNCHANGED <<image, answer>>
  BY DEF Starting, Parse, Layout, Become, SpawnRoot, FirstResume, RunInit, CallMain
<1>2. AnswerInv' /\ image' \in Images
  BY <1>0, <1>1, AnswerKept
<1>3. CASE Parse
  <2>1. pc = "parse" /\ UNCHANGED ringVars /\ inits_run' = inits_run /\ inits_run = <<>>
    BY <1>0, <1>3 DEF Parse, InitsInv
  <2>2. RingInv'
    BY <1>0, <2>1, RingInvKept
  <2>3. \/ pc' = "exit" /\ exit_code' = 127
        \/ pc' = "layout" /\ VectorsAt'
    BY <1>0, <1>3, ParseFinds
  <2>4. PassedInv' /\ pc' \in {"exit", "layout"}
    BY <2>1, <2>3 DEF PassedInv
  <2>5. InitsInv'
    BY <1>0, <2>1, <2>4 DEF InitsInv
  <2>. QED BY <1>2, <2>2, <2>4, <2>5 DEF StartInv
<1>4. ASSUME ~Parse PROVE StartInv'
  <2>1. UNCHANGED <<argc, argv, envp, auxiliary_vector>> /\ pc # "parse" /\ pc' # "parse"
    BY <1>0, <1>4 DEF Starting, Layout, Become, SpawnRoot, FirstResume, RunInit, CallMain, Refuse
  <2>2. (VectorsAt' <=> VectorsAt) /\ (LayoutOk' <=> LayoutOk)
    BY <1>1, <2>1, AuxvKept DEF VectorsAt
  <2>3. CASE Layout
    <3>1. /\ pc = "layout" /\ UNCHANGED <<ringVars, root, inits_run>>
          /\ \/ LayoutOk /\ pc' = "become"
             \/ pc' = "exit" /\ exit_code' = 127
      BY <2>3 DEF Layout, Refuse
    <3>2. RingInv'
      BY <1>0, <3>1, RingInvKept
    <3>3. PassedInv' /\ pc' \in {"become", "exit"}
      BY <1>0, <2>2, <3>1 DEF PassedInv, InitsInv
    <3>4. InitsInv'
      BY <1>0, <3>1, <3>3 DEF InitsInv
    <3>. QED BY <1>2, <3>2, <3>3, <3>4 DEF StartInv
  <2>4. CASE Become
    <3>1. /\ pc = "become" /\ RingStep(Entries) /\ UNCHANGED <<root, inits_run>>
          /\ \/ step' = "created" /\ pc' = "spawn"
             \/ step' = "failed" /\ pc' = "exit" /\ exit_code' = 127
             \/ pc' = "become"
      BY <2>4 DEF Become, Refuse
    <3>2. RingInv'
      BY <1>0, <3>1, RingInvStep
    <3>3. PassedInv' /\ pc' \in {"become", "spawn", "exit"}
      BY <1>0, <2>2, <3>1 DEF PassedInv, InitsInv
    <3>4. InitsInv'
      BY <1>0, <3>1, <3>3 DEF InitsInv
    <3>. QED BY <1>2, <3>2, <3>3, <3>4 DEF StartInv
  <2>5. CASE ~Become
    <3>1. UNCHANGED ringVars
      BY <1>4, <2>5 DEF Starting, Layout, SpawnRoot, FirstResume, RunInit, CallMain
    <3>2. RingInv' /\ step' = step /\ ring' = ring
      BY <1>0, <3>1, RingInvKept DEF ringVars
    <3>3. step = "created" => ring # Null
      BY <1>0, CreatedIsRing
    <3>4. CASE SpawnRoot
      <4>1. PassedInv' /\ pc' \in {"run", "exit"}
        BY SMTT(30), <1>0, <2>2, <3>2, <3>3, <3>4, StartAssumption DEF SpawnRoot, Refuse, PassedInv
      <4>2. InitsInv'
        BY <1>0, <3>4, <4>1 DEF SpawnRoot, InitsInv
      <4>. QED BY <1>2, <3>2, <4>1, <4>2 DEF StartInv
    <3>5. CASE FirstResume
      <4>1. PassedInv' /\ pc' \in {"init", "killed"}
        BY <1>0, <2>2, <3>2, <3>5 DEF FirstResume, PassedInv
      <4>2. InitsInv'
        BY <1>0, <3>5, <4>1 DEF FirstResume, InitsInv
      <4>. QED BY <1>2, <3>2, <4>1, <4>2 DEF StartInv
    <3>6. CASE RunInit
      <4>1. PassedInv' /\ pc' = "init" /\ Len(inits_run) < Inits
            /\ inits_run' = Append(inits_run, Len(inits_run) + 1)
        BY <1>0, <2>2, <3>2, <3>6 DEF RunInit, PassedInv
      <4>2. InitsInv'
        BY <1>0, <4>1, StartAssumption DEF InitsInv
      <4>. QED BY <1>2, <3>2, <4>1, <4>2 DEF StartInv
    <3>7. CASE CallMain
      <4>1. PassedInv' /\ pc' = "main"
        BY <1>0, <2>2, <3>2, <3>7 DEF CallMain, PassedInv
      <4>2. InitsInv'
        BY <1>0, <3>7, <4>1, StartAssumption DEF CallMain, InitsInv
      <4>. QED BY <1>2, <3>2, <4>1, <4>2 DEF StartInv
    <3>8. Layout => StartInv'
      BY <2>3
    <3>. QED BY SMTT(30), <1>4, <2>5, <3>4, <3>5, <3>6, <3>7, <3>8 DEF Starting
  <2>. QED BY <2>4, <2>5
<1>. QED BY <1>3, <1>4

\* Running, and over: an answer of getauxval is the one the vector holds, and
\* main ends on a process whose ring was created.
LEMMA RunningStep ==
  ASSUME StartInv,
         \/ \E type \in {AT_NULL, AT_PHDR, AT_HWCAP2} : Getauxval(type)
         \/ MainEnds
         \/ UNCHANGED vars
  PROVE  StartInv'
<1>0. RingInv /\ image \in Images /\ AnswerInv /\ PassedInv /\ InitsInv
  BY DEF StartInv
<1>1. /\ UNCHANGED <<ringVars, image, argc, argv, envp, auxiliary_vector, root, inits_run>>
  BY DEF Getauxval, MainEnds, vars, startVars
<1>2. RingInv' /\ step' = step /\ ring' = ring
  BY <1>0, <1>1, RingInvKept DEF ringVars
<1>3. (VectorsAt' <=> VectorsAt) /\ (LayoutOk' <=> LayoutOk) /\ image' \in Images
  BY SMTT(30), <1>0, <1>1, AuxvKept DEF VectorsAt
<1>4. ASSUME NEW type, Getauxval(type) PROVE StartInv'
  <2>1. /\ pc' = pc /\ exit_code' = exit_code /\ pc \in {"init", "main"}
        /\ answer' = IF AuxvGet(type) = Null
                     THEN [type |-> type, value |-> 0, errno |-> "ENOENT"]
                     ELSE [type |-> type, value |-> AuxvGet(type), errno |-> Null]
    BY SMTT(30), <1>4 DEF Getauxval
  <2>2. VectorsAt
    BY <1>0, <2>1 DEF PassedInv
  <2>3. IF OfType(type) = {} THEN AuxvGet(type) = Null
        ELSE AuxvGet(type) = image.auxv[Min(OfType(type))][2] /\ AuxvGet(type) # Null
    BY ZenonT(60), <1>0, <2>2, AuxvGetMeans
  <2>4. \A t : OfType(t)' = OfType(t)
    BY SMTT(30), <1>1 DEF OfType
  <2>5. /\ answer'.type = type
        /\ IF OfType(type) = {} THEN answer'.errno = "ENOENT" /\ answer'.value = 0
           ELSE answer'.errno = Null /\ answer'.value = image.auxv[Min(OfType(type))][2]
    BY <2>1, <2>3
  <2>6. AnswerInv'
    BY ZenonT(60), <1>1, <2>4, <2>5 DEF AnswerInv
  <2>7. PassedInv' /\ InitsInv'
    BY <1>0, <1>1, <1>2, <1>3, <2>1 DEF PassedInv, InitsInv
  <2>. QED BY SMTT(30), <1>2, <1>3, <2>1, <2>6, <2>7 DEF StartInv
<1>5. CASE MainEnds
  <2>1. pc = "main" /\ pc' = "exit" /\ answer' = answer
    BY <1>5 DEF MainEnds
  <2>2. ring # Null
    BY SMTT(30), <1>0, <2>1, CreatedIsRing DEF PassedInv
  <2>3. PassedInv' /\ InitsInv' /\ AnswerInv'
    BY SMTT(30), <1>0, <1>1, <1>2, <2>1, <2>2, AnswerKept DEF PassedInv, InitsInv
  <2>. QED BY <1>2, <1>3, <2>1, <2>3 DEF StartInv
<1>6. CASE UNCHANGED vars
  <2>1. pc' = pc /\ answer' = answer /\ exit_code' = exit_code
    BY SMTT(30), <1>6 DEF vars, startVars
  <2>2. PassedInv' /\ InitsInv' /\ AnswerInv'
    BY <1>0, <1>1, <1>2, <1>3, <2>1, AnswerKept DEF PassedInv, InitsInv
  <2>. QED BY <1>2, <1>3, <2>1, <2>2 DEF StartInv
<1>. QED BY <1>4, <1>5, <1>6

\* The invariant of the start, always.
LEMMA StartInvAlways == Spec => []StartInv
<1>1. StartInv /\ [Next]_vars => StartInv'
  BY StartingStep, RunningStep DEF Next, Over
<1>. QED BY <1>1, StartInvInit, PTL DEF Spec

\* For every size the kernel answers with, and every ring length, a created
\* ring's mappings hold all its entries, and the masked head of any number of
\* completions is an entry of its own (ring.c:64-118).
THEOREM CreatedRingUsable == Spec => []RingUsable
<1>1. StartInv => RingUsable
  BY CreatedUsable DEF StartInv
<1>. QED BY <1>1, StartInvAlways, PTL

\* Wherever the creation of the ring fails, no mapping is left but those munmap
\* did not release, and no ring is handed out (ring.c:58-61, 66-70).
THEOREM FailedRingUnmapped == Spec => []FailureUnmaps
<1>1. StartInv => FailureUnmaps
  BY DEF StartInv, RingInv, MapsInv, FailureUnmaps
<1>. QED BY <1>1, StartInvAlways, PTL

\* For every number of arguments, environment strings and auxiliary entries the
\* three vectors are found where the kernel wrote them, and getauxval answers
\* from the first entry of its type (auxv.c:11-21, getauxval.c:8-16).
THEOREM VectorsAreFound == Spec => []VectorsFound
<1>1. ASSUME StartInv PROVE VectorsFound
  <2>0. image \in Images /\ PassedInv /\ AnswerInv
    BY <1>1 DEF StartInv
  <2>1. ASSUME Parsed
        PROVE  /\ argc = image.args
               /\ \A k \in 0 .. argc - 1 : words(argv + k) = Pointer
               /\ \A k \in 0 .. image.envs - 1 : words(envp + k) = Pointer
               /\ SubSeq(Words, auxiliary_vector + 1, Len(Words) - 2) = Flat(image.auxv)
    <3>. DEFINE A == image.args
                E == image.envs
                F == Flat(image.auxv)
    <3>1. VectorsAt
      BY <2>0, <2>1 DEF PassedInv, Parsed
    <3>2. A \in Nat /\ E \in Nat
      BY SMTT(30), <2>0, ImageAssumption
    <3>3. F = [k \in 1 .. 2 * Len(image.auxv) |-> F[k]] /\ Len(image.auxv) \in Nat
      BY <2>0, ImageAssumption DEF Flat
    <3>4. Len(F) = 2 * Len(image.auxv) /\ Len(F) \in Nat
      BY SMTT(30), <3>3 DEF Flat
    <3>5. /\ Len(Words) = A + E + Len(F) + 5 /\ Words \in Seq(Nat)
          /\ \A k \in 0 .. A - 1 : words(1 + k) = Pointer
          /\ \A k \in 0 .. E - 1 : words(A + 2 + k) = Pointer
          /\ \A k \in 1 .. Len(F) : words(A + E + 2 + k) = F[k]
      BY <2>0, WordsForm, SMTT(30)
    <3>6. \A k \in 1 .. Len(F) : Words[A + E + 3 + k] = F[k]
      <4>. TAKE k \in 1 .. Len(F)
      <4>1. A + E + 2 + k + 1 = A + E + 3 + k
        BY <3>2, <3>4
      <4>. QED BY <3>5, <4>1 DEF words
    <3>7. SubSeq(Words, A + E + 4, Len(Words) - 2) = F
      <4>1. Len(Words) \in Nat
        BY <3>5
      <4>2. /\ Len(Words) - 2 = A + E + 3 + Len(F) /\ A + E + 3 + Len(F) <= Len(Words)
            /\ A + E + 3 \in Nat /\ A + E + 3 + 1 = A + E + 4
        <5>. DEFINE w == Len(Words)
                    z == Len(F)
        <5>1. w = A + E + z + 5 /\ A \in Nat /\ E \in Nat /\ z \in Nat /\ w \in Nat
          BY ONLY <3>2, <3>4, <3>5, <4>1, ZenonT(60)
        <5>2. w - 2 = A + E + 3 + z /\ A + E + 3 + z <= w /\ A + E + 3 \in Nat /\ A + E + 3 + 1 = A + E + 4
          <6>. HIDE DEF w, z, A, E
          <6>. QED BY ONLY <5>1, SMTT(30)
        <5>. QED BY ONLY <5>2, ZenonT(60)
      <4>3. F \in Seq(Nat)
        BY <2>0, FlatForm
      <4>4. SubSeq(Words, A + E + 3 + 1, A + E + 3 + Len(F)) = F
        <5>. HIDE DEF A, E, F
        <5>. QED BY ONLY <3>5, <3>6, <4>2, <4>3, SubSeqIs, ZenonT(60)
      <4>. QED BY ONLY <4>2, <4>4, ZenonT(60)
    <3>8. auxiliary_vector + 1 = A + E + 4
      BY <3>1, <3>2 DEF VectorsAt
    <3>. QED BY <3>1, <3>5, <3>7, <3>8 DEF VectorsAt
  <2>. QED BY ZenonT(60), <2>0, <2>1 DEF VectorsFound, AnswerInv, OfType
<1>. QED BY <1>1, StartInvAlways, PTL

\* For every image and every number of init functions: a refused start runs no
\* code of the program, and a program runs only on a process that passed every
\* check, its init functions each once, in order and before main
\* (start.c:28-41, 66-88).
THEOREM OnlyStartedRuns == Spec => []RunsOnlyStarted
<1>1. ASSUME StartInv PROVE RunsOnlyStarted
  <2>0. RingInv /\ PassedInv /\ InitsInv
    BY <1>1 DEF StartInv
  <2>1. inits_run = [k \in 1 .. Len(inits_run) |-> k]
    BY <2>0 DEF InitsInv
  <2>2. pc \in {"run", "init", "main"} => LayoutOk /\ ring # Null /\ root # Null
    BY <2>0, CreatedIsRing DEF PassedInv
  <2>3. /\ Len(inits_run) <= Inits
        /\ pc = "main" => Len(inits_run) = Inits
        /\ pc = "exit" /\ ring = Null => exit_code = 127 /\ inits_run = <<>>
        /\ pc = "killed" => inits_run = <<>>
    BY <2>0 DEF PassedInv, InitsInv
  <2>. QED BY <2>1, <2>2, <2>3 DEF RunsOnlyStarted
<1>. QED BY <1>1, StartInvAlways, PTL
=============================================================================
