------------------------------- MODULE Runtime -------------------------------
(***************************************************************************)
(* The whole runtime: the executor and its event loop (Executor) drive     *)
(* trees of combinators (Combinators) whose leaves are the futures of      *)
(* src/future_examples.c, over descriptors that other processes write,     *)
(* drain and close while it runs.                                          *)
(*                                                                         *)
(* The loops of pipe_read_progress() and pipe_write_progress() are cut at  *)
(* their system calls.  Of an error other than EAGAIN they take no notice: *)
(* the loop goes round, which changes nothing.                             *)
(***************************************************************************)
EXTENDS Integers, SequencesExt

CONSTANTS
  Nodes, Roots, Kind, Fut1, Fut2, NULL,    \* the trees: see Combinators
  RootOf,         \* RootOf[n]: the root of the tree that n is in
  MaxQueueSize, MaxEvents, None,           \* see Executor
  Op,             \* Op[n]: "read", "write" or "apply", for every leaf n
  Fd,             \* Fd[n]: the descriptor of a pipe future n
  Size,           \* Size[n]: the n that its constructor is given
  CString,        \* the write futures created with stop_on_zero_byte
  Func(_),        \* the function of the apply futures
  Given,          \* Given[n]: the bytes that arg of leaf n points to if the
                  \* client sets it; <<>> if it does not
  Source,         \* Source[fd]: what the other end of fd has to write
  Capacity,       \* Capacity[fd]: how many bytes the pipe fd holds
  Nonblocking     \* the descriptors opened with O_NONBLOCK

LeavesDoing(op) == {n \in DOMAIN Op : Op[n] = op}
Pipes == LeavesDoing("read") \union LeavesDoing("write")
Fds == {Fd[n] : n \in Pipes}
ReadFds == {Fd[n] : n \in LeavesDoing("read")}
WriteFds == Fds \ ReadFds

ASSUME LeafAssumption ==
  /\ Op \in [{n \in Nodes : Kind[n] = "leaf"} -> {"read", "write", "apply"}]
  /\ DOMAIN Fd = Pipes
  /\ Size \in [Pipes -> Nat]
  /\ CString \subseteq LeavesDoing("write")
  /\ Capacity \in [Fds -> Nat \ {0}]
  /\ Nonblocking \subseteq Fds
  /\ \A fd \in ReadFds : Source[fd] \in Seq(Range(Source[fd]))
  /\ \A n \in DOMAIN Op : Given[n] \in Seq(Range(Given[n]))

(* Every pipe future has a descriptor of its own (see ExecutorShared).     *)
ASSUME OwnFds == \A m, n \in Pipes : Fd[m] = Fd[n] => m = n

VARIABLES
  pc, queue, active, isActive, finished, fut, woken, waits, registered,
  events,                                           \* see Executor
  stack, reply, self, arg, ok, errcode, status, due,   \* see Combinators
  stream,         \* stream[fd]: every byte that was ever put into the pipe
  got,            \* got[fd]: how many of them were taken out again
  closed,         \* the descriptors whose other end is closed
  nonblocking,    \* those with the flag O_NONBLOCK
  phase,          \* where the pipe future that runs is: in its loop ("io"),
                  \* or going to "register" or to "pend" after an EAGAIN
  so_far,         \* read_so_far and written_so_far
  size,           \* self->n
  stop_on_zero_byte,  \* the write futures with the flag set
  buffer          \* buffer[n]: the bytes that ok of leaf n points to, as
                  \* they are when it completes (a function that works in
                  \* place may change them when nobody else looks at them)

pipeVars == <<stream, got, closed>>
treeVars == <<stack, reply, self, arg, ok, errcode, status, due>>
execVars == <<pc, queue, active, isActive, finished, fut, woken, waits,
              registered, events>>
leafVars == <<nonblocking, phase, so_far, size, stop_on_zero_byte, buffer>>
threadVars == <<execVars, treeVars, leafVars>>
vars == <<threadVars, pipeVars>>

Level(fd) == Len(stream[fd]) - got[fd]

(* What epoll reports for EPOLLIN, the one event that is ever asked for: a *)
(* pipe to read from that holds something or is closed, and no other.      *)
Ready == {fd \in ReadFds : Level(fd) > 0 \/ fd \in closed}

C == INSTANCE Combinators

ASSUME TreesAssumption ==
  /\ C!TreeAssumption
  /\ RootOf \in [Nodes -> Roots]
  /\ \A r \in Roots : RootOf[r] = r
  /\ \A n \in C!Inner : RootOf[Fut1[n]] = RootOf[n] /\ RootOf[Fut2[n]] = RootOf[n]
  /\ \A n \in Nodes : n \in C!Subtree[RootOf[n]]

(* The descriptors of a root are those of its leaves.                      *)
UsersOf == [fd \in Fds |-> {RootOf[n] : n \in {m \in Pipes : Fd[m] = fd}}]

E == INSTANCE Executor WITH
       Futures <- Roots,
       Users   <- UsersOf,
       ready   <- Ready

ASSUME ExecutorAssumption ==
  E!CapacityAssumption /\ E!MaxEventsAssumption /\ E!NoneAssumption

Garbage == "garbage"    \* a byte of a buffer that nobody has written
Zero == "0"             \* the zero byte

(* The client gives a read its buffer.                                     *)
GivenBuffer(n) == IF Op[n] = "read" THEN [i \in 1 .. Size[n] |-> Garbage] ELSE <<>>

Init ==
  /\ stream = [fd \in Fds |-> <<>>]
  /\ got = [fd \in Fds |-> 0]
  /\ closed = {}
  /\ E!Init
  /\ C!Init
  /\ nonblocking = Nonblocking
  /\ phase = "io"
  /\ so_far = [n \in Pipes |-> 0]
  /\ size = Size
  /\ stop_on_zero_byte = CString
  /\ buffer = [n \in DOMAIN Op |-> GivenBuffer(n)]

-----------------------------------------------------------------------------
(***************************************************************************)
(* The executor outside progress(), and the calls and returns between it   *)
(* and a root.                                                             *)
(***************************************************************************)

ExecutorStep ==
  /\ UNCHANGED <<treeVars, pipeVars, leafVars>>
  /\ \/ E!EnterPoll
     \/ E!LeaveRun
     \/ E!PollWait
     \/ \E e \in events : E!HandleEvent(e)

ClientStep ==
  /\ UNCHANGED <<treeVars, pipeVars, leafVars>>
  /\ \/ pc = "client" /\ \E r \in Roots : E!Spawn(r)
     \/ E!EnterRun
     \/ E!Destroy
     \/ E!PollFail
     \/ E!Terminated

PopAndProgress ==
  /\ UNCHANGED <<self, arg, ok, errcode, due, pipeVars, leafVars>>
  /\ E!PopAndProgress
  /\ C!Call(fut')

(* After a return: the answer of a root ends the call; w is waits if the   *)
(* call goes on.                                                           *)
BackTo(w) ==
  \/ /\ stack' # <<>>
     /\ waits' = w
     /\ UNCHANGED <<pc, queue, active, isActive, finished, fut, woken, events>>
  \/ /\ stack' = <<>>
     /\ status'[fut] = C!PENDING
     /\ E!EndCall
     /\ UNCHANGED <<active, isActive, finished>>
  \/ /\ stack' = <<>>
     /\ status'[fut] # C!PENDING
     /\ E!Finish

CombinatorStep ==
  /\ UNCHANGED <<pipeVars, leafVars, registered>>
  /\ \/ \E n \in C!KindsAre("then") : C!ThenStep(n)
     \/ \E n \in C!KindsAre("join") : C!JoinStep(n)
     \/ \E n \in C!KindsAre("select") : C!SelectStep(n)
  /\ BackTo(waits)

-----------------------------------------------------------------------------
(***************************************************************************)
(* The parts that pipe_read_progress() and pipe_write_progress() share.    *)
(***************************************************************************)

InLoop(n) == C!JustCalled(n) /\ phase = "io" /\ n \notin stop_on_zero_byte

(* Mutant of Unregister: nothing is removed.                               *)
UnregisterNothing(n) == UNCHANGED registered

(* Mutant of Unregister: every entry of the root is removed.               *)
UnregisterAll(n) ==
  registered' = [fd \in Fds |-> IF registered[fd] = fut THEN None ELSE registered[fd]]

(* mio_unregister(), with or without an entry.                             *)
Unregister(n) == registered' = [registered EXCEPT ![Fd[n]] = None]

(* Mutant of AfterEagain: it pends without a registration.                 *)
PendAfterEagain == "pend"

AfterEagain == "register"

(* EAGAIN, which only a nonblocking descriptor answers.                    *)
WouldBlock(n) ==
  /\ InLoop(n)
  /\ so_far[n] < size[n]
  /\ Fd[n] \in nonblocking
  /\ phase' = AfterEagain
  /\ UNCHANGED <<execVars, treeVars, pipeVars, nonblocking, so_far, size,
                 stop_on_zero_byte, buffer>>

SetNonblocking(fd) == nonblocking' = nonblocking \union {fd}

(* mio_register(), whose result nobody looks at.                           *)
Register(n) ==
  /\ C!JustCalled(n)
  /\ phase = "register"
  /\ phase' = "pend"
  /\ SetNonblocking(Fd[n])
  /\ UNCHANGED <<treeVars, pipeVars, so_far, size, stop_on_zero_byte, buffer>>
  /\ E!MioRegister(Fd[n])

Pend(n) ==
  /\ phase = "pend"
  /\ phase' = "io"
  /\ UNCHANGED <<pipeVars, registered, nonblocking, so_far, size,
                 stop_on_zero_byte, buffer>>
  /\ C!LeafPends(n)
  /\ BackTo(waits)

(* All but what ok points to.                                              *)
Complete(n) ==
  /\ InLoop(n)
  /\ ~(so_far[n] < size[n])
  /\ UNCHANGED <<pipeVars, nonblocking, phase, so_far, size, stop_on_zero_byte>>
  /\ Unregister(n)
  /\ C!LeafCompletes(n)
  /\ BackTo(waits \ {Fd[n]})

-----------------------------------------------------------------------------
(***************************************************************************)
(* pipe_read_progress().                                                   *)
(***************************************************************************)

(* Mutant of Stored: always at the start of the buffer.                    *)
StoredInFront(n, k) ==
  [i \in 1 .. Size[n] |-> IF i <= k THEN stream[Fd[n]][got[Fd[n]] + i]
                                    ELSE buffer[n][i]]

(* The buffer of n when the next k bytes are read.                         *)
Stored(n, k) ==
  [i \in 1 .. Size[n] |->
     IF i \in so_far[n] + 1 .. so_far[n] + k
     THEN stream[Fd[n]][got[Fd[n]] + i - so_far[n]] ELSE buffer[n][i]]

(* Mutant of Wanted: the size of the buffer, not of what is left of it.    *)
WantedAlways(n) == size[n]

Wanted(n) == size[n] - so_far[n]

ReadSome(n) ==
  /\ InLoop(n)
  /\ so_far[n] < size[n]
  /\ \E k \in 1 .. Level(Fd[n]) :
       /\ k <= Wanted(n)
       /\ buffer' = [buffer EXCEPT ![n] = Stored(n, k)]
       /\ got' = [got EXCEPT ![Fd[n]] = @ + k]
       /\ so_far' = [so_far EXCEPT ![n] = @ + k]
  /\ UNCHANGED <<execVars, treeVars, stream, closed, nonblocking, phase, size,
                 stop_on_zero_byte>>

(* Mutant of ReadEof: the end of file is taken for EAGAIN.                 *)
ReadEofWaits(n) == Level(Fd[n]) = 0 /\ Fd[n] \in closed /\ WouldBlock(n)

ReadEof(n) ==
  /\ InLoop(n)
  /\ so_far[n] < size[n]
  /\ Level(Fd[n]) = 0 /\ Fd[n] \in closed
  /\ UNCHANGED <<pipeVars, leafVars>>
  /\ Unregister(n)
  /\ C!LeafFails(n)
  /\ BackTo(waits \ {Fd[n]})

ReadWouldBlock(n) == Fd[n] \notin Ready /\ WouldBlock(n)

(* ok is the buffer that the read has filled.                              *)
ReadCompletes(n) == Complete(n) /\ UNCHANGED buffer

-----------------------------------------------------------------------------
(***************************************************************************)
(* pipe_write_progress() and apply_future_progress().                      *)
(***************************************************************************)

(* The futures whose arg a then overwrites before it calls them.           *)
Successors == {Fut2[k] : k \in C!KindsAre("then")}

(* The bytes that arg of n points to: the result of a leaf, or what the    *)
(* client has given.                                                       *)
Text(n) ==
  IF arg[n] # NULL THEN buffer[arg[n][1]]
  ELSE IF n \in Successors THEN <<>> ELSE Given[n]

(* Mutant of StringSize: the zero byte is not counted.                     *)
StringLength(n) ==
  Cardinality({i \in 1 .. size[n] : \A j \in 1 .. i : Text(n)[j] # Zero})

(* The n of a write that stops after the first zero byte.                  *)
StringSize(n) ==
  Cardinality({i \in 1 .. size[n] : \A j \in 1 .. i - 1 : Text(n)[j] # Zero})

AdjustSize(n) ==
  /\ C!JustCalled(n)
  /\ n \in stop_on_zero_byte
  /\ size' = [size EXCEPT ![n] = StringSize(n)]
  /\ stop_on_zero_byte' = stop_on_zero_byte \ {n}
  /\ UNCHANGED <<execVars, treeVars, pipeVars, nonblocking, phase, so_far, buffer>>

(* The branch for a write() that returns 0 is left out: of a pipe, and for *)
(* a positive number of bytes, it never does.                              *)
WriteSome(n) ==
  /\ InLoop(n)
  /\ \E k \in 1 .. size[n] - so_far[n] :
       /\ Level(Fd[n]) + k <= Capacity[Fd[n]]
       /\ stream' = [stream EXCEPT
            ![Fd[n]] = @ \o SubSeq(Text(n), so_far[n] + 1, so_far[n] + k)]
       /\ so_far' = [so_far EXCEPT ![n] = @ + k]
  /\ UNCHANGED <<execVars, treeVars, got, closed, nonblocking, phase, size,
                 stop_on_zero_byte, buffer>>

WriteWouldBlock(n) == Level(Fd[n]) = Capacity[Fd[n]] /\ WouldBlock(n)

(* Mutant of WriteCompletes: ok is not set.                                *)
WriteDropsArgument(n) == Complete(n) /\ UNCHANGED buffer

(* ok is the argument, for the next future to use.                         *)
WriteCompletes(n) == Complete(n) /\ buffer' = [buffer EXCEPT ![n] = Text(n)]

Apply(n) ==
  /\ buffer' = [buffer EXCEPT ![n] = Func(Text(n))]
  /\ UNCHANGED <<pipeVars, registered, nonblocking, phase, so_far, size,
                 stop_on_zero_byte>>
  /\ C!LeafCompletes(n)
  /\ BackTo(waits)

LeafStep ==
  \/ \E n \in LeavesDoing("read") : ReadSome(n) \/ ReadEof(n) \/ ReadWouldBlock(n)
                                       \/ ReadCompletes(n)
  \/ \E n \in LeavesDoing("write") : AdjustSize(n) \/ WriteSome(n) \/ WriteWouldBlock(n)
                                        \/ WriteCompletes(n)
  \/ \E n \in LeavesDoing("apply") : Apply(n)
  \/ \E n \in Pipes : Register(n) \/ Pend(n)

-----------------------------------------------------------------------------
(***************************************************************************)
(* The processes at the other ends of the pipes.                           *)
(***************************************************************************)

PeerWrites(fd) ==
  /\ fd \in ReadFds \ closed
  /\ Level(fd) < Capacity[fd]
  /\ Len(stream[fd]) < Len(Source[fd])
  /\ stream' = [stream EXCEPT ![fd] = Append(@, Source[fd][Len(@) + 1])]
  /\ UNCHANGED <<got, closed>>

PeerCloses(fd) ==
  /\ fd \in ReadFds \ closed
  /\ closed' = closed \union {fd}
  /\ UNCHANGED <<stream, got>>

PeerDrains(fd) ==
  /\ fd \in WriteFds
  /\ Level(fd) > 0
  /\ got' = [got EXCEPT ![fd] = Len(stream[fd])]
  /\ UNCHANGED <<stream, closed>>

PeerStep(fd) ==
  /\ ~E!Gone
  /\ PeerWrites(fd) \/ PeerCloses(fd) \/ PeerDrains(fd)
  /\ UNCHANGED threadVars

-----------------------------------------------------------------------------

ThreadStep == ExecutorStep \/ PopAndProgress \/ CombinatorStep \/ LeafStep

Next == ThreadStep \/ ClientStep \/ \E fd \in Fds : PeerStep(fd)

Spec == Init /\ [][Next]_vars

(* The thread runs, and every peer goes on until it has closed its end or  *)
(* drained the pipe.                                                       *)
FairSpec == Spec /\ WF_threadVars(ThreadStep) /\ \A fd \in Fds : WF_pipeVars(PeerStep(fd))
-----------------------------------------------------------------------------
(***************************************************************************)
(* Properties.                                                             *)
(***************************************************************************)

CanRead(n) == Fd[n] \in Ready
CanWrite(n) == Level(Fd[n]) < Capacity[Fd[n]]

(* A leaf waits for its waker in the epoll set of its root.                *)
WillBeWoken(n) == Fd[n] \in E!Reportable /\ registered[Fd[n]] = RootOf[n]

(* Every variable holds a value of its C type, and no pipe future has gone *)
(* beyond its n, nor n beyond the buffer.                                  *)
TypeOK ==
  /\ \A fd \in Fds : got[fd] \in 0 .. Len(stream[fd]) /\ Level(fd) <= Capacity[fd]
  /\ closed \subseteq ReadFds
  /\ nonblocking \subseteq Fds
  /\ phase \in {"io", "register", "pend"}
  /\ phase # "io" => stack # <<>> /\ Last(stack) \in Pipes
  /\ pc = "progress" <=> stack # <<>>
  /\ \A n \in Pipes : so_far[n] \in 0 .. size[n] /\ size[n] \in 0 .. Size[n]
  /\ stop_on_zero_byte \subseteq CString
  /\ \A n \in LeavesDoing("read") : Len(buffer[n]) = Size[n]

(* "Reads a fixed number of bytes from a pipe" (future_examples.h:37),     *)
(* however they arrive: a read that completes has the first n bytes of the *)
(* stream, in order, and has left the others in the pipe.                  *)
ReadGetsTheBytes ==
  \A n \in LeavesDoing("read") :
    status[n] = C!COMPLETED =>
      buffer[n] = SubSeq(Source[Fd[n]], 1, Size[n]) /\ got[Fd[n]] = Size[n]

(* "Until exactly n bytes are written or a zero byte is written"           *)
(* (future_examples.h:57-58), however often the write was blocked: what is *)
(* in the pipe is a part of the argument up to its first zero byte, and    *)
(* all of that part once the write has completed.  Its result is its       *)
(* argument ("PipeWriteFuture just return the buffer", then_test.c:77).    *)
WritePutsTheText ==
  \A n \in LeavesDoing("write") :
    LET put == stream[Fd[n]]
    IN  /\ IsPrefix(put, Text(n)) /\ Len(put) <= Size[n]
        /\ n \in CString => \A i \in 1 .. Len(put) - 1 : put[i] # Zero
        /\ status[n] = C!COMPLETED =>
             /\ \/ Len(put) = Size[n]
                \/ n \in CString /\ put # <<>> /\ Last(put) = Zero
             /\ buffer[n] = Text(n)

(* Level-triggered epoll makes up for a byte that arrives between the      *)
(* EAGAIN and epoll_ctl(): when the executor goes to sleep, a read that    *)
(* could go on, in whatever tree, is among what epoll_wait() reports, for  *)
(* its own root.  "The function must ensure that the provided waker is     *)
(* called ... when progress is unblocked" (future.h:23-25).                *)
NoReaderSleeps ==
  pc = "poll" => \A n \in due \intersect LeavesDoing("read") :
                   CanRead(n) => WillBeWoken(n)

(* The same for a write: "watch for writeability"                          *)
(* (future_examples.c:111).                                                *)
NoWriterSleeps ==
  pc = "poll" => \A n \in due \intersect LeavesDoing("write") :
                   CanWrite(n) => WillBeWoken(n)

(* The epoll set points to a future only for the sake of a leaf that waits *)
(* or is going to: when a root has ended, and may be freed, nothing of it  *)
(* is left there, nor is there anything when executor_run() returns.       *)
NoStaleRegistration ==
  \A fd \in Fds : registered[fd] # None =>
    \E n \in Pipes : /\ Fd[n] = fd
                     /\ n \in due \/ (C!Running(n) /\ phase = "pend")
                     /\ registered[fd] = RootOf[n]
                     /\ RootOf[n] \in isActive

(* "The executor ... calls future.progress, and waits with mio.poll when   *)
(* all pending futures are blocked" (executor.h:13-14): it does not wait   *)
(* in a read() while another future could go on.                           *)
WaitsInPollOnly ==
  queue # <<>> \/ E!Reportable # {} =>
    ~\E n \in LeavesDoing("read") :
       InLoop(n) /\ so_far[n] < size[n] /\ ~CanRead(n) /\ Fd[n] \notin nonblocking

(* Seen from the executor, the trees are futures that keep the contract:   *)
(* each is pending on a registration, and has left the epoll set when it   *)
(* ends.                                                                   *)
ImplementsExecutor == E!Spec

(* Seen from the combinators, the executor calls a root only when it is    *)
(* new or one of its leaves is due, one call at a time, and never after    *)
(* its end.                                                                *)
ImplementsCombinators == C!Spec

(* A root waits for ever if a select in it is stuck, and perhaps if a write *)
(* in it is blocked (see NoWriterSleeps).                                   *)
MayHang(r) ==
  \E n \in Nodes : /\ RootOf[n] = r
                   /\ C!Stuck(n) \/ n \in due \intersect LeavesDoing("write")

(* "The executor drives futures to completion" (executor.h:11), and        *)
(* executor_run() "blocks until all spawned futures are completed"         *)
(* (executor.h:33): whatever the peers do, in the end no future is active, *)
(* but for those that hang.                                                *)
AllAreCompleted == (pc = "loop") ~> (E!Gone \/ \A r \in isActive : MayHang(r))
=============================================================================
