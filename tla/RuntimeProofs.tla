---------------------------- MODULE RuntimeProofs ----------------------------
(***************************************************************************)
(* What a read gets, in every forest of futures over every set of pipes,   *)
(* whatever the sizes, the schedule and the processes at the other ends.   *)
(***************************************************************************)
EXTENDS Runtime, SequenceTheorems, FiniteSetTheorems, TLAPS

Reads == LeavesDoing("read")

DomainInv ==
  /\ DOMAIN stream = Fds /\ DOMAIN got = Fds
  /\ DOMAIN so_far = Pipes /\ DOMAIN size = Pipes
  /\ DOMAIN buffer = DOMAIN Op /\ DOMAIN status = Nodes
  /\ stop_on_zero_byte \subseteq CString

(* What the peer of fd has put into the pipe is the beginning of Source.   *)
StreamInv(fd) ==
  /\ stream[fd] \in Seq(Range(Source[fd]))
  /\ Len(stream[fd]) <= Len(Source[fd])
  /\ \A i \in 1 .. Len(stream[fd]) : stream[fd][i] = Source[fd][i]

(* The bytes that n has counted are those taken out of the pipe, and they  *)
(* lie in the front of the buffer.                                         *)
BytesInv(n) ==
  /\ so_far[n] \in 0 .. Size[n]
  /\ got[Fd[n]] = so_far[n]
  /\ so_far[n] <= Len(stream[Fd[n]])
  /\ buffer[n] = [i \in 1 .. Size[n] |-> buffer[n][i]]
  /\ \A i \in 1 .. so_far[n] : buffer[n][i] = Source[Fd[n]][i]

ReadInv(n) ==
  /\ size[n] = Size[n]
  /\ StreamInv(Fd[n])
  /\ BytesInv(n)
  /\ status[n] = C!COMPLETED => so_far[n] = Size[n]

IInv == DomainInv /\ \A n \in Reads : ReadInv(n)

-----------------------------------------------------------------------------
LEMMA LeafFacts ==
  /\ \A n \in Reads : /\ n \in Pipes /\ n \in DOMAIN Op /\ n \in Nodes
                      /\ Kind[n] = "leaf" /\ n \notin CString
                      /\ Fd[n] \in Fds /\ Fd[n] \in ReadFds /\ Size[n] \in Nat
  /\ \A m \in Pipes : m \in DOMAIN Op /\ m \in Nodes /\ Fd[m] \in Fds
  /\ \A m \in LeavesDoing("write") : m \in Pipes /\ m \notin Reads
  /\ \A m \in LeavesDoing("apply") : m \in DOMAIN Op /\ m \notin Reads
  /\ \A m \in Pipes, n \in Reads : m # n => Fd[m] # Fd[n]
  /\ Fds = ReadFds \union WriteFds
  /\ \A n \in Reads : Fd[n] \notin WriteFds
  /\ \A fd \in ReadFds : Source[fd] \in Seq(Range(Source[fd]))
<1>1. DOMAIN Op = {n \in Nodes : Kind[n] = "leaf"}
  BY LeafAssumption
<1>2. \A n \in DOMAIN Op : n \in Nodes /\ Kind[n] = "leaf"
  BY <1>1
<1>3. "read" # "write" /\ "read" # "apply"
  OBVIOUS
<1>4. QED
  BY <1>2, <1>3, LeafAssumption, OwnFds
  DEF Reads, LeavesDoing, Pipes, Fds, ReadFds, WriteFds

LEMMA InitInv == Init => IInv
<1> SUFFICES ASSUME Init PROVE IInv
  OBVIOUS
<1>1. DomainInv
  BY LeafAssumption DEF Init, DomainInv, C!Init
<1>2. ASSUME NEW n \in Reads
      PROVE  ReadInv(n)
  <2>1. /\ stream[Fd[n]] = <<>> /\ got[Fd[n]] = 0 /\ so_far[n] = 0
        /\ size[n] = Size[n] /\ status[n] = "new"
        /\ buffer[n] = GivenBuffer(n)
    BY <1>2, LeafFacts DEF Init, C!Init
  <2>2. buffer[n] = [i \in 1 .. Size[n] |-> Garbage]
    BY <1>2, <2>1 DEF GivenBuffer, Reads, LeavesDoing
  <2>3. StreamInv(Fd[n])
    <3>1. Len(Source[Fd[n]]) \in Nat
      BY <1>2, LeafFacts, LenProperties
    <3>2. QED
      BY <2>1, <3>1, EmptySeq DEF StreamInv
  <2>4. BytesInv(n)
    BY <1>2, <2>1, <2>2, LeafFacts, EmptySeq DEF BytesInv
  <2>5. QED
    BY <2>1, <2>3, <2>4 DEF ReadInv, C!COMPLETED
<1>3. QED
  BY <1>1, <1>2 DEF IInv

-----------------------------------------------------------------------------
(***************************************************************************)
(* The steps that move no byte.                                            *)
(***************************************************************************)

bytesVars == <<stream, got, so_far, size, stop_on_zero_byte, buffer>>

LEMMA NoByteMoves ==
  ASSUME IInv, UNCHANGED bytesVars, DOMAIN status' = Nodes,
         \A n \in Reads : status'[n] = C!COMPLETED =>
            status[n] = C!COMPLETED \/ so_far[n] = Size[n]
  PROVE  IInv'
BY DEF IInv, bytesVars, DomainInv, ReadInv, StreamInv, BytesInv

(* A combinator changes no status but its own.                             *)
LEMMA CombinatorStatus ==
  ASSUME NEW k,
         \/ k \in C!KindsAre("then") /\ C!ThenStep(k)
         \/ k \in C!KindsAre("join") /\ C!JoinStep(k)
         \/ k \in C!KindsAre("select") /\ C!SelectStep(k)
  PROVE  \/ status' = status
         \/ \E s : status' = [status EXCEPT ![k] = s]
<1>1. CASE C!ThenStep(k)
  BY <1>1 DEF C!ThenStep, C!ThenProgress, C!ThenFut1Completes,
              C!ThenFut2Completes, C!ThenFails, C!ChildPends, C!Call, C!Return
<1>2. CASE C!JoinStep(k)
  BY <1>2 DEF C!JoinStep, C!JoinProgress, C!JoinFut1Returns, C!JoinFut2Returns,
              C!JoinReturns, C!Call, C!Return
<1>3. CASE C!SelectStep(k)
  BY <1>3 DEF C!SelectStep, C!SelectProgress, C!SelectCompletes,
              C!SelectChildFails, C!ChildPends, C!Call, C!Return
<1>4. QED
  BY <1>1, <1>2, <1>3

LEMMA CombinatorInv ==
  ASSUME IInv, CombinatorStep
  PROVE  IInv'
<1>1. PICK k : /\ k \in C!KindsAre("then") \union C!KindsAre("join")
                         \union C!KindsAre("select")
               /\ \/ status' = status
                  \/ \E s : status' = [status EXCEPT ![k] = s]
  BY CombinatorStatus DEF CombinatorStep
<1>2. k \notin Reads
  BY <1>1, LeafFacts DEF C!KindsAre
<1>3. DOMAIN status' = Nodes /\ \A n \in Reads : status'[n] = status[n]
  BY <1>1, <1>2, LeafFacts DEF IInv, DomainInv
<1>4. UNCHANGED bytesVars
  BY DEF CombinatorStep, pipeVars, leafVars, bytesVars
<1>5. QED
  BY <1>3, <1>4, NoByteMoves

LEMMA ThreadInv ==
  ASSUME IInv, ExecutorStep \/ ClientStep \/ PopAndProgress
  PROVE  IInv'
<1>1. UNCHANGED bytesVars /\ status' = status
  BY DEF ExecutorStep, ClientStep, PopAndProgress, treeVars, pipeVars, leafVars,
         bytesVars, C!Call
<1>2. QED
  BY <1>1, NoByteMoves DEF IInv, DomainInv

(* The end of a call of a leaf, and the steps of a pipe future between its *)
(* system calls.                                                           *)
LEMMA PipeStepInv ==
  ASSUME IInv, NEW n \in Pipes,
         WouldBlock(n) \/ Register(n) \/ Pend(n) \/ ReadCompletes(n) \/ ReadEof(n)
  PROVE  IInv'
<1>1. n \in Nodes
  BY LeafFacts
<1>2. CASE WouldBlock(n) \/ Register(n)
  <2>1. UNCHANGED bytesVars /\ status' = status
    BY <1>2 DEF WouldBlock, Register, treeVars, pipeVars, bytesVars
  <2>2. QED
    BY <2>1, NoByteMoves DEF IInv, DomainInv
<1>3. CASE Pend(n)
  <2>1. UNCHANGED bytesVars /\ status' = [status EXCEPT ![n] = C!PENDING]
    BY <1>3 DEF Pend, pipeVars, bytesVars, C!LeafPends, C!Return
  <2>2. QED
    BY <1>1, <2>1, NoByteMoves, LeafFacts
    DEF IInv, DomainInv, C!PENDING, C!COMPLETED
<1>4. CASE ReadCompletes(n)
  <2>1. /\ UNCHANGED bytesVars /\ status' = [status EXCEPT ![n] = C!COMPLETED]
        /\ ~(so_far[n] < size[n])
    BY <1>4
    DEF ReadCompletes, Complete, pipeVars, bytesVars, C!LeafCompletes, C!Return
  <2>2. ASSUME n \in Reads
        PROVE  so_far[n] = Size[n]
    <3>1. so_far[n] \in 0 .. Size[n] /\ size[n] = Size[n] /\ Size[n] \in Nat
      BY <2>2, LeafFacts DEF IInv, ReadInv, BytesInv
    <3>2. ~(so_far[n] < Size[n])
      BY <2>1, <3>1
    <3>3. QED
      BY <3>1, <3>2
  <2>3. QED
    BY <1>1, <2>1, <2>2, NoByteMoves, LeafFacts DEF IInv, DomainInv
<1>5. CASE ReadEof(n)
  <2>1. UNCHANGED bytesVars /\ status' = [status EXCEPT ![n] = C!FAILURE]
    BY <1>5 DEF ReadEof, pipeVars, leafVars, bytesVars, C!LeafFails, C!Return
  <2>2. QED
    BY <1>1, <2>1, NoByteMoves, LeafFacts
    DEF IInv, DomainInv, C!FAILURE, C!COMPLETED
<1>6. QED
  BY <1>2, <1>3, <1>4, <1>5

-----------------------------------------------------------------------------
(***************************************************************************)
(* The steps that move bytes.                                              *)
(***************************************************************************)

(* Steps about the pipe, the counter and the buffer of others.             *)
LEMMA OthersRead ==
  ASSUME IInv, DomainInv', NEW n \in Reads,
         /\ stream'[Fd[n]] = stream[Fd[n]] /\ got'[Fd[n]] = got[Fd[n]]
         /\ so_far'[n] = so_far[n] /\ size'[n] = size[n]
         /\ buffer'[n] = buffer[n] /\ status'[n] = status[n]
  PROVE  ReadInv(n)'
BY DEF IInv, ReadInv, StreamInv, BytesInv

LEMMA WritesInv ==
  ASSUME IInv, NEW m \in LeavesDoing("write"),
         AdjustSize(m) \/ WriteSome(m) \/ WriteCompletes(m)
  PROVE  IInv'
<1>1. m \in Pipes /\ m \notin Reads /\ Fd[m] \in Fds
      /\ m \in DOMAIN Op
      /\ \A n \in Reads : /\ m # n /\ Fd[m] # Fd[n] /\ n \in Pipes /\ Fd[n] \in Fds
                          /\ n \in DOMAIN Op /\ n \in Nodes
  BY LeafFacts
<1>2. CASE AdjustSize(m)
  <2>1. /\ size' = [size EXCEPT ![m] = StringSize(m)]
        /\ stop_on_zero_byte' = stop_on_zero_byte \ {m}
        /\ UNCHANGED <<stream, got, so_far, buffer, status>>
    BY <1>2 DEF AdjustSize, treeVars, pipeVars
  <2>2. DomainInv'
    BY <2>1 DEF IInv, DomainInv
  <2>3. QED
    BY <1>1, <2>1, <2>2, OthersRead DEF IInv, DomainInv
<1>3. CASE WriteSome(m)
  <2>1. PICK k \in 1 .. size[m] - so_far[m] :
          /\ stream' = [stream EXCEPT
               ![Fd[m]] = @ \o SubSeq(Text(m), so_far[m] + 1, so_far[m] + k)]
          /\ so_far' = [so_far EXCEPT ![m] = @ + k]
    BY <1>3 DEF WriteSome
  <2>2. UNCHANGED <<got, size, stop_on_zero_byte, buffer, status>>
    BY <1>3 DEF WriteSome, treeVars
  <2>3. DomainInv'
    BY <2>1, <2>2 DEF IInv, DomainInv
  <2>4. QED
    BY <1>1, <2>1, <2>2, <2>3, OthersRead DEF IInv, DomainInv
<1>4. CASE WriteCompletes(m)
  <2>1. /\ buffer' = [buffer EXCEPT ![m] = Text(m)]
        /\ status' = [status EXCEPT ![m] = C!COMPLETED]
        /\ UNCHANGED <<stream, got, so_far, size, stop_on_zero_byte>>
    BY <1>4 DEF WriteCompletes, Complete, pipeVars, C!LeafCompletes, C!Return
  <2>2. DomainInv'
    BY <2>1 DEF IInv, DomainInv
  <2>3. QED
    BY <1>1, <2>1, <2>2, OthersRead DEF IInv, DomainInv
<1>5. QED
  BY <1>2, <1>3, <1>4

LEMMA ApplyInv ==
  ASSUME IInv, NEW m \in LeavesDoing("apply"), Apply(m)
  PROVE  IInv'
<1>1. m \in DOMAIN Op /\ \A n \in Reads : m # n /\ n \in DOMAIN Op /\ n \in Nodes
  BY LeafFacts
<1>2. /\ buffer' = [buffer EXCEPT ![m] = Func(Text(m))]
      /\ status' = [status EXCEPT ![m] = C!COMPLETED]
      /\ UNCHANGED <<stream, got, so_far, size, stop_on_zero_byte>>
  BY DEF Apply, pipeVars, C!LeafCompletes, C!Return
<1>3. DomainInv'
  BY <1>2 DEF IInv, DomainInv
<1>4. QED
  BY <1>1, <1>2, <1>3, OthersRead DEF IInv, DomainInv

LEMMA ReadSomeInv ==
  ASSUME IInv, NEW m \in Reads, ReadSome(m)
  PROVE  IInv'
<1>1. PICK k \in 1 .. Level(Fd[m]) :
        /\ k <= Wanted(m)
        /\ buffer' = [buffer EXCEPT ![m] = Stored(m, k)]
        /\ got' = [got EXCEPT ![Fd[m]] = @ + k]
        /\ so_far' = [so_far EXCEPT ![m] = @ + k]
  BY DEF ReadSome
<1>2. UNCHANGED <<stream, size, stop_on_zero_byte, status>>
  BY DEF ReadSome, treeVars
<1>3. DomainInv'
  BY <1>1, <1>2 DEF IInv, DomainInv
<1>4. ASSUME NEW n \in Reads, n # m
      PROVE  ReadInv(n)'
  <2>1. Fd[m] # Fd[n] /\ n \in Pipes /\ Fd[n] \in Fds /\ n \in DOMAIN Op
    BY <1>4, LeafFacts
  <2>2. QED
    BY <1>1, <1>2, <1>3, <1>4, <2>1, OthersRead DEF IInv, DomainInv
<1>5. ReadInv(m)'
  <2>1. /\ ReadInv(m) /\ StreamInv(Fd[m]) /\ BytesInv(m) /\ size[m] = Size[m]
        /\ Size[m] \in Nat /\ so_far[m] \in 0 .. Size[m]
        /\ got[Fd[m]] = so_far[m]
        /\ Len(stream[Fd[m]]) \in Nat
    BY LeafFacts, LenProperties DEF IInv, ReadInv, BytesInv, StreamInv
  <2>2. /\ buffer'[m] = Stored(m, k)
        /\ got'[Fd[m]] = so_far[m] + k /\ so_far'[m] = so_far[m] + k
    BY <1>1, <2>1, LeafFacts DEF IInv, DomainInv
  <2>3. /\ k \in Nat /\ k > 0
        /\ so_far[m] + k <= Size[m]
        /\ so_far[m] + k <= Len(stream[Fd[m]])
    BY <1>1, <2>1 DEF Level, Wanted
  <2>4. so_far[m] + k \in 0 .. Size[m] /\ so_far[m] < Size[m]
    BY <2>1, <2>3
  <2>5. buffer'[m] = [i \in 1 .. Size[m] |-> buffer'[m][i]]
    BY <2>2 DEF Stored
  <2>6. ASSUME NEW i \in 1 .. so_far[m] + k
        PROVE  buffer'[m][i] = Source[Fd[m]][i]
    <3>1. i \in 1 .. Size[m] /\ i \in 1 .. Len(stream[Fd[m]]) /\ i \in Int
      BY <2>1, <2>3
    <3>2. CASE i \in so_far[m] + 1 .. so_far[m] + k
      <4>1. buffer'[m][i] = stream[Fd[m]][so_far[m] + i - so_far[m]]
        BY <2>1, <2>2, <3>1, <3>2 DEF Stored
      <4>2. so_far[m] + i - so_far[m] = i
        BY <2>1, <3>1
      <4>3. QED
        BY <2>1, <3>1, <4>1, <4>2 DEF StreamInv
    <3>3. CASE i \notin so_far[m] + 1 .. so_far[m] + k
      <4>1. buffer'[m][i] = buffer[m][i]
        BY <2>2, <3>1, <3>3 DEF Stored
      <4>2. i \in 1 .. so_far[m]
        BY <2>1, <2>3, <3>3
      <4>3. QED
        BY <2>1, <4>1, <4>2 DEF BytesInv
    <3>4. QED
      BY <3>2, <3>3
  <2>7. BytesInv(m)'
    BY <1>2, <2>2, <2>3, <2>4, <2>5, <2>6 DEF BytesInv
  <2>8. StreamInv(Fd[m])'
    BY <1>2, <2>1 DEF StreamInv
  <2>9. status[m] # C!COMPLETED
    BY <2>1, <2>4 DEF ReadInv
  <2>10. QED
    BY <1>2, <2>1, <2>7, <2>8, <2>9 DEF ReadInv
<1>6. QED
  BY <1>3, <1>4, <1>5 DEF IInv

LEMMA PeerInv ==
  ASSUME IInv, NEW fd \in Fds, PeerStep(fd)
  PROVE  IInv'
<1>1. UNCHANGED <<so_far, size, stop_on_zero_byte, buffer, status>>
  BY DEF PeerStep, threadVars, treeVars, leafVars
<1>2. CASE PeerWrites(fd)
  <2>1. /\ fd \in ReadFds
        /\ Len(stream[fd]) < Len(Source[fd])
        /\ stream' = [stream EXCEPT ![fd] = Append(@, Source[fd][Len(@) + 1])]
        /\ got' = got
    BY <1>2 DEF PeerWrites
  <2>2. DomainInv'
    BY <1>1, <2>1 DEF IInv, DomainInv
  <2>3. ASSUME NEW n \in Reads, Fd[n] # fd
        PROVE  ReadInv(n)'
    BY <1>1, <2>1, <2>2, <2>3, OthersRead, LeafFacts DEF IInv, DomainInv
  <2>4. ASSUME NEW n \in Reads, Fd[n] = fd
        PROVE  ReadInv(n)'
    <3>1. /\ ReadInv(n) /\ StreamInv(fd) /\ BytesInv(n)
          /\ Source[fd] \in Seq(Range(Source[fd]))
          /\ stream[fd] \in Seq(Range(Source[fd]))
      BY <2>1, <2>4, LeafFacts DEF IInv, ReadInv, StreamInv
    <3>2. Len(stream[fd]) \in Nat /\ Len(Source[fd]) \in Nat
      BY <3>1, LenProperties
    <3>3. Len(stream[fd]) + 1 \in 1 .. Len(Source[fd])
      BY <2>1, <3>2
    <3>4. Source[fd][Len(stream[fd]) + 1] \in Range(Source[fd])
      BY <3>1, <3>3, ElementOfSeq
    <3>5. stream'[fd] = Append(stream[fd], Source[fd][Len(stream[fd]) + 1])
      BY <2>1, LeafFacts DEF IInv, DomainInv
    <3>6. /\ stream'[fd] \in Seq(Range(Source[fd]))
          /\ Len(stream'[fd]) = Len(stream[fd]) + 1
          /\ \A i \in 1 .. Len(stream[fd]) : stream'[fd][i] = stream[fd][i]
          /\ stream'[fd][Len(stream[fd]) + 1] = Source[fd][Len(stream[fd]) + 1]
      BY <3>1, <3>4, <3>5, AppendProperties
    <3>7. StreamInv(fd)'
      <4>1. \A i \in 1 .. Len(stream[fd]) + 1 :
              i \in 1 .. Len(stream[fd]) \/ i = Len(stream[fd]) + 1
        BY <3>2
      <4>2. Len(stream'[fd]) <= Len(Source[fd])
        BY <3>2, <3>3, <3>6
      <4>3. QED
        BY <3>1, <3>6, <4>1, <4>2 DEF StreamInv
    <3>8. so_far[n] \in Nat /\ so_far[n] <= Len(stream'[fd])
      BY <2>4, <3>1, <3>2, <3>6, LeafFacts DEF BytesInv
    <3>9. BytesInv(n)'
      BY <1>1, <2>1, <2>4, <3>1, <3>8 DEF BytesInv
    <3>10. QED
      BY <1>1, <2>4, <3>1, <3>7, <3>9 DEF ReadInv
  <2>5. QED
    BY <2>2, <2>3, <2>4 DEF IInv
<1>3. CASE PeerCloses(fd)
  BY <1>1, <1>3, NoByteMoves DEF PeerCloses, bytesVars, IInv, DomainInv
<1>4. CASE PeerDrains(fd)
  <2>1. /\ fd \in WriteFds /\ stream' = stream
        /\ got' = [got EXCEPT ![fd] = Len(stream[fd])]
    BY <1>4 DEF PeerDrains
  <2>2. DomainInv'
    BY <1>1, <2>1 DEF IInv, DomainInv
  <2>3. \A n \in Reads : Fd[n] # fd /\ Fd[n] \in Fds
    BY <2>1, LeafFacts
  <2>4. QED
    BY <1>1, <2>1, <2>2, <2>3, OthersRead DEF IInv, DomainInv
<1>5. QED
  BY <1>2, <1>3, <1>4 DEF PeerStep

LEMMA StepInv == IInv /\ [Next]_vars => IInv'
<1> SUFFICES ASSUME IInv, [Next]_vars PROVE IInv'
  OBVIOUS
<1>1. CASE ExecutorStep \/ ClientStep \/ PopAndProgress
  BY <1>1, ThreadInv
<1>2. CASE CombinatorStep
  BY <1>2, CombinatorInv
<1>3. CASE LeafStep
  BY <1>3, PipeStepInv, WritesInv, ApplyInv, ReadSomeInv
  DEF LeafStep, Pipes, Reads, ReadWouldBlock, WriteWouldBlock,
      ReadCompletes, WriteCompletes
<1>4. CASE \E fd \in Fds : PeerStep(fd)
  BY <1>4, PeerInv
<1>5. CASE UNCHANGED vars
  BY <1>5, NoByteMoves
  DEF vars, threadVars, treeVars, leafVars, pipeVars, bytesVars, IInv, DomainInv
<1>6. QED
  BY <1>1, <1>2, <1>3, <1>4, <1>5 DEF Next, ThreadStep

LEMMA Invariance == Spec => []IInv
BY InitInv, StepInv, PTL DEF Spec

(* A read that completes has the first Size[n] bytes of the stream, in     *)
(* order, and has taken no others (future_examples.h:37), through any      *)
(* number of partial reads and of calls.                                   *)
THEOREM ReadIsExact == Spec => []ReadGetsTheBytes
<1>1. ASSUME IInv, NEW n \in Reads, status[n] = C!COMPLETED
      PROVE  buffer[n] = SubSeq(Source[Fd[n]], 1, Size[n]) /\ got[Fd[n]] = Size[n]
  <2>1. /\ StreamInv(Fd[n]) /\ BytesInv(n) /\ so_far[n] = Size[n]
        /\ Size[n] \in Nat
    BY <1>1, LeafFacts DEF IInv, ReadInv
  <2>2. /\ \A i \in 1 .. Size[n] : buffer[n][i] = Source[Fd[n]][i]
        /\ buffer[n] = [i \in 1 .. Size[n] |-> buffer[n][i]]
    BY <2>1 DEF BytesInv
  <2>3. \A i \in 1 .. Size[n] : Source[Fd[n]][i] \in {Source[Fd[n]][j] : j \in 1 .. Size[n]}
    OBVIOUS
  <2> DEFINE front == SubSeq(Source[Fd[n]], 1, Size[n])
  <2>4. /\ front \in Seq({Source[Fd[n]][j] : j \in 1 .. Size[n]})
        /\ Len(front) = IF 1 <= Size[n] THEN Size[n] - 1 + 1 ELSE 0
        /\ \A i \in 1 .. Size[n] - 1 + 1 : front[i] = Source[Fd[n]][1 + i - 1]
    BY <2>1, <2>3, SubSeqProperties, 1 \in Int, Size[n] \in Int
  <2>5. Len(front) = Size[n]
    BY <2>1, <2>4
  <2>6. front \in [1 .. Size[n] -> {Source[Fd[n]][j] : j \in 1 .. Size[n]}]
    BY <2>4, <2>5, LenProperties
  <2>7. ASSUME NEW i \in 1 .. Size[n]
        PROVE  front[i] = buffer[n][i]
    <3>1. i \in 1 .. Size[n] - 1 + 1 /\ 1 + i - 1 = i
      BY <2>1
    <3>2. front[i] = Source[Fd[n]][1 + i - 1]
      BY <2>4, <3>1
    <3>3. QED
      BY <2>2, <3>1, <3>2
  <2>8. buffer[n] = front
    <3> HIDE DEF front
    <3>1. QED
      BY <2>2, <2>6, <2>7
  <2>9. QED
    BY <2>1, <2>8 DEF BytesInv
<1>2. IInv => ReadGetsTheBytes
  BY <1>1 DEF ReadGetsTheBytes, Reads
<1>3. QED
  BY <1>2, Invariance, PTL
-----------------------------------------------------------------------------
(***************************************************************************)
(* Who is in the epoll set, in every forest.                               *)
(***************************************************************************)

Tree(r) == {n \in Nodes : RootOf[n] = r}

(* The calls in progress are those of one tree.                            *)
CallInv ==
  /\ stack \in Seq(Tree(fut))
  /\ pc = "progress" <=> stack # <<>>
  /\ phase \in {"io", "register", "pend"}
  /\ phase # "io" => stack # <<>> /\ Last(stack) \in Pipes

WakersInv ==
  /\ queue \in Seq(Roots)
  /\ events \subseteq Fds \X Roots
  /\ registered \in [Fds -> Roots \union {None}]

(* A leaf that is due is in the epoll set, and so is one that is going to  *)
(* pend.                                                                   *)
EpollInv(n) ==
  /\ registered[Fd[n]] \in {None, RootOf[n]}
  /\ n \in due /\ ~E!Gone => registered[Fd[n]] = RootOf[n]
  /\ phase = "pend" /\ C!Running(n) => registered[Fd[n]] = RootOf[n]

SleepInv == CallInv /\ WakersInv /\ \A n \in Pipes : EpollInv(n)

LEMMA TreeFacts ==
  /\ Roots \subseteq Nodes /\ None \notin Roots
  /\ \A n \in Nodes : RootOf[n] \in Roots /\ n \in Tree(RootOf[n])
  /\ \A r \in Roots : RootOf[r] = r
  /\ \A k \in Nodes : Kind[k] # "leaf" => {Fut1[k], Fut2[k]} \subseteq Tree(RootOf[k])
  /\ \A n \in DOMAIN Op : n \in Nodes /\ Kind[n] = "leaf"
  /\ \A n \in Pipes : n \in Nodes /\ n \in DOMAIN Op /\ Fd[n] \in Fds
  /\ \A n \in LeavesDoing("apply") : n \notin Pipes /\ n \in Nodes
  /\ \A m, n \in Pipes : m # n => Fd[m] # Fd[n]
<1>1. /\ Roots \subseteq Nodes
      /\ Fut1 \in [C!Inner -> Nodes \ Roots] /\ Fut2 \in [C!Inner -> Nodes \ Roots]
  BY TreesAssumption DEF C!TreeAssumption
<1>2. \A k \in Nodes : Kind[k] # "leaf" => k \in C!Inner
  BY DEF C!Inner, C!Leaves, C!KindsAre
<1>3. \A k \in Nodes : Kind[k] # "leaf" => {Fut1[k], Fut2[k]} \subseteq Tree(RootOf[k])
  BY <1>1, <1>2, TreesAssumption DEF Tree
<1>4. None \notin Roots
  BY ExecutorAssumption DEF E!NoneAssumption
<1>5. \A n \in Nodes : RootOf[n] \in Roots /\ n \in Tree(RootOf[n])
  BY TreesAssumption DEF Tree
<1>6. \A n \in LeavesDoing("apply") : n \notin Pipes
  BY DEF LeavesDoing, Pipes
<1>7. \A n \in DOMAIN Op : n \in Nodes /\ Kind[n] = "leaf"
  BY LeafAssumption
<1>8. \A n \in Pipes : n \in DOMAIN Op /\ Fd[n] \in Fds
  BY DEF Pipes, Fds, LeavesDoing
<1>9. QED
  BY <1>1, <1>3, <1>4, <1>5, <1>6, <1>7, <1>8, TreesAssumption, OwnFds
  DEF LeavesDoing

(* The future that runs belongs to the root that the executor has called.  *)
LEMMA RunningInTree ==
  ASSUME CallInv, NEW n, C!Running(n)
  PROVE  stack # <<>> /\ n = Last(stack) /\ n \in Nodes /\ RootOf[n] = fut
         /\ fut \in Roots /\ pc = "progress"
<1>1. stack # <<>> /\ Last(stack) = n
  BY DEF C!Running, C!Last, Last
<1>2. Len(stack) \in Nat \ {0}
  BY <1>1, EmptySeq DEF CallInv
<1>3. Len(stack) \in 1 .. Len(stack)
  BY <1>2
<1>4. stack[Len(stack)] \in Tree(fut)
  BY <1>3, ElementOfSeq DEF CallInv
<1>5. QED
  BY <1>1, <1>4, TreeFacts DEF CallInv, Last, Tree

LEMMA FrontInSeq ==
  ASSUME NEW S, NEW s \in Seq(S), s # <<>>
  PROVE  Front(s) \in Seq(S)
<1>1. Len(s) \in Nat \ {0}
  BY EmptySeq
<1>2. \A i \in 1 .. Len(s) - 1 : i \in 1 .. Len(s)
  BY <1>1
<1>3. \A i \in 1 .. Len(s) - 1 : s[i] \in S
  BY <1>2, ElementOfSeq
<1>4. QED
  BY <1>1, <1>3, SubSeqProperties, 1 \in Int, Len(s) - 1 \in Int DEF Front

LEMMA SleepInit == Init => SleepInv
<1> SUFFICES ASSUME Init PROVE SleepInv
  OBVIOUS
<1>1. /\ pc = "client" /\ queue = <<>> /\ registered = [fd \in Fds |-> None]
      /\ events = {} /\ stack = <<>> /\ due = {} /\ phase = "io"
  BY DEF Init, E!Init, C!Init
<1>2. CallInv /\ WakersInv
  BY <1>1, EmptySeq DEF CallInv, WakersInv
<1>3. \A n \in Pipes : EpollInv(n)
  BY <1>1, TreeFacts DEF EpollInv
<1>4. QED
  BY <1>2, <1>3 DEF SleepInv

(***************************************************************************)
(* Steps that leave the leaves and the epoll set alone.                    *)
(***************************************************************************)

LEMMA EpollSetStays ==
  ASSUME SleepInv, CallInv', WakersInv',
         UNCHANGED <<registered, due>>, E!Gone => E!Gone',
         \A n \in Pipes : (phase = "pend" /\ C!Running(n))' => phase = "pend" /\ C!Running(n)
  PROVE  SleepInv'
<1>1. ASSUME NEW n \in Pipes
      PROVE  EpollInv(n)'
  BY <1>1 DEF SleepInv, EpollInv
<1>2. QED
  BY <1>1 DEF SleepInv

LEMMA PushedInSeq ==
  ASSUME NEW q \in Seq(Roots), NEW r \in Roots
  PROVE  E!Pushed(q, r) \in Seq(Roots)
BY AppendProperties DEF E!Pushed

LEMMA WakeInSeq ==
  ASSUME WakersInv, NEW r \in Roots, E!WakerWake(r)
  PROVE  queue' \in Seq(Roots)
BY PushedInSeq DEF WakersInv, E!WakerWake, E!ExecutorSpawn, E!taskVars

LEMMA ExecutorSleep ==
  ASSUME SleepInv, ExecutorStep \/ ClientStep
  PROVE  SleepInv'
<1>1. UNCHANGED <<stack, due, phase>>
  BY DEF ExecutorStep, ClientStep, treeVars, leafVars
<1>2. CASE E!PollFail \/ E!Destroy
  <2>1. /\ pc' \in {"exited", "destroyed"} /\ pc # "progress"
        /\ queue' = <<>> /\ events' = events /\ fut' = fut
        /\ registered' = [fd \in Fds |-> None]
    BY <1>2 DEF E!PollFail, E!Destroy, E!callVars
  <2>2. CallInv'
    BY <1>1, <2>1 DEF SleepInv, CallInv
  <2>3. WakersInv'
    BY <2>1, EmptySeq DEF SleepInv, WakersInv
  <2>4. E!Gone' /\ \A n \in Pipes : ~(C!Running(n)')
    BY <1>1, <2>1 DEF SleepInv, CallInv, C!Running, E!Gone
  <2>5. \A n \in Pipes : EpollInv(n)'
    BY <2>1, <2>4, TreeFacts DEF EpollInv
  <2>6. QED
    BY <2>2, <2>3, <2>5 DEF SleepInv
<1>3. CASE \E r \in Roots : E!Spawn(r)
  <2>1. PICK r \in Roots : E!Spawn(r)
    BY <1>3
  <2>2. /\ UNCHANGED <<pc, fut, registered, events>>
        /\ queue' = E!Pushed(queue, r)
    BY <2>1 DEF E!Spawn, E!ExecutorSpawn, E!callVars
  <2>3. WakersInv'
    BY <2>2, PushedInSeq DEF SleepInv, WakersInv
  <2>4. CallInv' /\ (E!Gone => E!Gone')
    BY <1>1, <2>2 DEF SleepInv, CallInv, E!Gone
  <2>5. QED
    BY <1>1, <2>2, <2>3, <2>4, EpollSetStays DEF C!Running
<1>4. CASE E!PollWait
  <2>1. /\ UNCHANGED <<queue, fut, registered>> /\ pc = "poll" /\ pc' = "dispatch"
        /\ \E reported \in SUBSET E!Reportable :
             events' = {<<fd, registered[fd]>> : fd \in reported}
    BY <1>4 DEF E!PollWait, E!taskVars, E!callVars
  <2>2. \A fd \in E!Reportable : fd \in Fds /\ registered[fd] \in Roots
    BY DEF SleepInv, WakersInv, E!Reportable, Ready, Fds, ReadFds, Pipes
  <2>3. events' \subseteq Fds \X Roots
    BY <2>1, <2>2
  <2>4. CallInv' /\ WakersInv' /\ (E!Gone => E!Gone')
    BY <1>1, <2>1, <2>3 DEF SleepInv, CallInv, WakersInv, E!Gone
  <2>5. QED
    BY <1>1, <2>1, <2>4, EpollSetStays DEF C!Running
<1>5. CASE \E e \in events : E!HandleEvent(e)
  <2>1. PICK e \in events : E!HandleEvent(e)
    BY <1>5
  <2>2. /\ UNCHANGED <<fut, registered>> /\ events' \subseteq events
        /\ pc = "dispatch" /\ pc' \in {"loop", "dispatch"} /\ E!WakerWake(e[2])
    BY <2>1 DEF E!HandleEvent, E!callVars
  <2>3. e[2] \in Roots
    BY <2>1 DEF SleepInv, WakersInv
  <2>4. CallInv' /\ WakersInv' /\ (E!Gone => E!Gone')
    BY <1>1, <2>2, <2>3, WakeInSeq DEF SleepInv, CallInv, WakersInv, E!Gone
  <2>5. QED
    BY <1>1, <2>2, <2>4, EpollSetStays DEF C!Running
<1>6. CASE E!EnterPoll \/ E!LeaveRun \/ E!EnterRun \/ E!Terminated
  <2>1. /\ UNCHANGED <<queue, fut, registered, events>>
        /\ (pc = "progress" <=> pc' = "progress") /\ (E!Gone => E!Gone')
    BY <1>6 DEF E!EnterPoll, E!LeaveRun, E!EnterRun, E!Terminated, E!taskVars,
                E!callVars, E!vars, E!Gone
  <2>2. CallInv' /\ WakersInv'
    BY <1>1, <2>1 DEF SleepInv, CallInv, WakersInv
  <2>3. QED
    BY <1>1, <2>1, <2>2, EpollSetStays DEF C!Running
<1>7. QED
  BY <1>2, <1>3, <1>4, <1>5, <1>6 DEF ExecutorStep, ClientStep

LEMMA PopSleep ==
  ASSUME SleepInv, PopAndProgress
  PROVE  SleepInv'
<1>1. /\ pc = "loop" /\ pc' = "progress" /\ queue # <<>>
      /\ fut' = Head(queue) /\ queue' = Tail(queue)
      /\ UNCHANGED <<registered, events, due, phase>>
      /\ stack' = Append(stack, fut')
  BY DEF PopAndProgress, E!PopAndProgress, leafVars, C!Call
<1>2. stack = <<>> /\ phase = "io"
  BY <1>1 DEF SleepInv, CallInv
<1>3. fut' \in Roots /\ queue' \in Seq(Roots)
  BY <1>1, HeadTailProperties DEF SleepInv, WakersInv
<1>4. fut' \in Tree(fut')
  BY <1>3, TreeFacts
<1>5. stack' \in Seq(Tree(fut')) /\ stack' # <<>>
  BY <1>1, <1>2, <1>4, EmptySeq, AppendProperties
<1>6. CallInv' /\ WakersInv'
  BY <1>1, <1>2, <1>3, <1>5 DEF SleepInv, CallInv, WakersInv
<1>7. E!Gone => E!Gone'
  BY <1>1 DEF E!Gone
<1>8. QED
  BY <1>1, <1>2, <1>6, <1>7, EpollSetStays

(* Calls and returns in a tree, and the end of the executor's call with    *)
(* that of the root's.                                                     *)
LEMMA BackInv ==
  ASSUME CallInv, WakersInv, stack # <<>>, NEW w, BackTo(w), phase' = "io",
         \/ stack' = Front(stack)
         \/ \E m \in Tree(fut) : stack' = Append(stack, m)
  PROVE  CallInv' /\ UNCHANGED <<queue, events>> /\ ~E!Gone'
<1>1. pc = "progress" /\ stack \in Seq(Tree(fut))
  BY DEF CallInv
<1>2. stack' \in Seq(Tree(fut))
  BY <1>1, FrontInSeq, AppendProperties
<1>3. CASE stack' # <<>>
  <2>1. UNCHANGED <<pc, fut, queue, events>>
    BY <1>3 DEF BackTo
  <2>2. QED
    BY <1>1, <1>2, <1>3, <2>1 DEF CallInv, E!Gone
<1>4. CASE stack' = <<>>
  <2>1. pc' = "loop" /\ UNCHANGED <<queue, events>>
    BY <1>4 DEF BackTo, E!Finish, E!EndCall
  <2>2. stack' \in Seq(Tree(fut'))
    BY <1>4, EmptySeq
  <2>3. QED
    BY <1>4, <2>1, <2>2 DEF CallInv, E!Gone
<1>5. QED
  BY <1>3, <1>4

LEMMA CombinatorMoves ==
  ASSUME NEW k,
         \/ k \in C!KindsAre("then") /\ C!ThenStep(k)
         \/ k \in C!KindsAre("join") /\ C!JoinStep(k)
         \/ k \in C!KindsAre("select") /\ C!SelectStep(k)
  PROVE  /\ C!Running(k) /\ k \in Nodes /\ Kind[k] # "leaf" /\ due' = due
         /\ \/ stack' = Front(stack)
            \/ \E m \in {Fut1[k], Fut2[k]} : stack' = Append(stack, m)
<1>1. k \in Nodes /\ Kind[k] # "leaf"
  BY DEF C!KindsAre
<1>2. CASE C!ThenStep(k)
  BY <1>1, <1>2
  DEF C!ThenStep, C!ThenProgress, C!ThenFut1Completes, C!ThenFut2Completes,
      C!ThenFails, C!ChildPends, C!Call, C!Return, C!JustCalled, C!HasReply,
      C!Front, Front
<1>3. CASE C!JoinStep(k)
  BY <1>1, <1>3
  DEF C!JoinStep, C!JoinProgress, C!JoinFut1Returns, C!JoinFut2Returns,
      C!JoinReturns, C!Call, C!Return, C!JustCalled, C!HasReply, C!Front, Front
<1>4. CASE C!SelectStep(k)
  BY <1>1, <1>4
  DEF C!SelectStep, C!SelectProgress, C!SelectCompletes, C!SelectChildFails,
      C!ChildPends, C!Call, C!Return, C!JustCalled, C!HasReply, C!Front, Front
<1>5. QED
  BY <1>2, <1>3, <1>4

LEMMA CombinatorSleep ==
  ASSUME SleepInv, CombinatorStep
  PROVE  SleepInv'
<1>1. PICK k : /\ C!Running(k) /\ k \in Nodes /\ Kind[k] # "leaf"
               /\ \/ stack' = Front(stack)
                  \/ \E m \in {Fut1[k], Fut2[k]} : stack' = Append(stack, m)
               /\ due' = due
  BY CombinatorMoves DEF CombinatorStep
<1>2. UNCHANGED <<registered, phase>> /\ BackTo(waits)
  BY DEF CombinatorStep, leafVars
<1>3. stack # <<>> /\ k = Last(stack) /\ RootOf[k] = fut
  BY <1>1, RunningInTree DEF SleepInv
<1>4. phase = "io"
  BY <1>1, <1>3, TreeFacts DEF SleepInv, CallInv
<1>5. \E m \in Tree(fut) : stack' = Append(stack, m) \/ stack' = Front(stack)
  BY <1>1, <1>3, TreeFacts
<1>6. CallInv' /\ UNCHANGED <<queue, events>> /\ ~E!Gone'
  BY <1>2, <1>3, <1>4, <1>5, BackInv DEF SleepInv
<1>7. WakersInv' /\ ~E!Gone
  BY <1>1, <1>2, <1>6, RunningInTree DEF SleepInv, WakersInv, E!Gone
<1>8. QED
  BY <1>1, <1>2, <1>4, <1>6, <1>7, EpollSetStays

-----------------------------------------------------------------------------
(***************************************************************************)
(* The leaves.                                                             *)
(***************************************************************************)

LEMMA LeafReturns ==
  ASSUME SleepInv, NEW n, C!JustCalled(n), NEW s, C!Return(n, s),
         NEW w, BackTo(w), phase' = "io"
  PROVE  /\ CallInv' /\ UNCHANGED <<queue, events>> /\ ~E!Gone /\ ~E!Gone'
         /\ C!Running(n)
<1>1. C!Running(n) /\ stack' = Front(stack)
  BY DEF C!JustCalled, C!Return, C!Front, Front
<1>2. stack # <<>> /\ pc = "progress"
  BY <1>1, RunningInTree DEF SleepInv
<1>3. QED
  BY <1>1, <1>2, BackInv DEF SleepInv, E!Gone

LEMMA ApplySleep ==
  ASSUME SleepInv, NEW n \in LeavesDoing("apply"), Apply(n)
  PROVE  SleepInv'
<1>1. /\ C!JustCalled(n) /\ C!Return(n, C!COMPLETED) /\ due' = due \ {n}
      /\ UNCHANGED <<registered, phase>> /\ BackTo(waits)
  BY DEF Apply, C!LeafCompletes
<1>2. phase = "io"
  BY <1>1, RunningInTree, TreeFacts DEF SleepInv, CallInv, C!JustCalled
<1>3. CallInv' /\ UNCHANGED <<queue, events>> /\ ~E!Gone /\ ~E!Gone'
  BY <1>1, <1>2, LeafReturns
<1>4. WakersInv'
  BY <1>1, <1>3 DEF SleepInv, WakersInv
<1>5. \A m \in Pipes : EpollInv(m)'
  BY <1>1, <1>2, <1>3 DEF SleepInv, EpollInv
<1>6. QED
  BY <1>3, <1>4, <1>5 DEF SleepInv

LEMMA PendSleep ==
  ASSUME SleepInv, NEW n \in Pipes, Pend(n)
  PROVE  SleepInv'
<1>1. /\ C!JustCalled(n) /\ C!Return(n, C!PENDING) /\ due' = due \union {n}
      /\ UNCHANGED registered /\ phase = "pend" /\ phase' = "io" /\ BackTo(waits)
  BY DEF Pend, C!LeafPends
<1>2. /\ CallInv' /\ UNCHANGED <<queue, events>> /\ ~E!Gone /\ ~E!Gone'
      /\ C!Running(n)
  BY <1>1, LeafReturns
<1>3. WakersInv'
  BY <1>1, <1>2 DEF SleepInv, WakersInv
<1>4. registered[Fd[n]] = RootOf[n]
  BY <1>1, <1>2 DEF SleepInv, EpollInv
<1>5. \A m \in Pipes : EpollInv(m)'
  BY <1>1, <1>2, <1>4 DEF SleepInv, EpollInv
<1>6. QED
  BY <1>2, <1>3, <1>5 DEF SleepInv

LEMMA EndSleep ==
  ASSUME SleepInv, NEW n \in Pipes, Complete(n) \/ ReadEof(n)
  PROVE  SleepInv'
<1>1. /\ C!JustCalled(n) /\ \E s : C!Return(n, s) /\ due' = due \ {n}
      /\ registered' = [registered EXCEPT ![Fd[n]] = None]
      /\ phase = "io" /\ phase' = "io" /\ BackTo(waits \ {Fd[n]})
  BY DEF Complete, ReadEof, Unregister, leafVars, InLoop, C!LeafCompletes, C!LeafFails
<1>2. CallInv' /\ UNCHANGED <<queue, events>> /\ ~E!Gone /\ ~E!Gone'
  BY <1>1, LeafReturns
<1>3. WakersInv'
  BY <1>1, <1>2 DEF SleepInv, WakersInv
<1>4. ASSUME NEW m \in Pipes
      PROVE  EpollInv(m)'
  <2>1. CASE m = n
    BY <1>1, <2>1, TreeFacts DEF SleepInv, WakersInv, EpollInv
  <2>2. CASE m # n
    BY <1>1, <1>2, <2>2, TreeFacts DEF SleepInv, WakersInv, EpollInv
  <2>3. QED
    BY <2>1, <2>2
<1>5. QED
  BY <1>2, <1>3, <1>4 DEF SleepInv

LEMMA RegisterSleep ==
  ASSUME SleepInv, NEW n \in Pipes, Register(n)
  PROVE  SleepInv'
<1>1. /\ C!Running(n) /\ phase' = "pend"
      /\ UNCHANGED <<stack, due, pc, fut, queue, events>>
      /\ registered' = [registered EXCEPT ![Fd[n]] = IF @ = None THEN fut ELSE @]
  BY DEF Register, C!JustCalled, treeVars, E!MioRegister, E!taskVars
<1>2. RootOf[n] = fut /\ fut \in Roots /\ n = Last(stack) /\ stack # <<>>
  BY <1>1, RunningInTree DEF SleepInv
<1>3. registered[Fd[n]] \in {None, fut} /\ Fd[n] \in Fds
  BY <1>2, TreeFacts DEF SleepInv, EpollInv
<1>4. /\ registered' \in [Fds -> Roots \union {None}]
      /\ registered'[Fd[n]] = fut
      /\ \A fd \in Fds : fd # Fd[n] => registered'[fd] = registered[fd]
  BY <1>1, <1>2, <1>3 DEF SleepInv, WakersInv
<1>5. CallInv' /\ WakersInv'
  BY <1>1, <1>2, <1>4 DEF SleepInv, CallInv, WakersInv
<1>6. ASSUME NEW m \in Pipes
      PROVE  EpollInv(m)'
  <2>1. CASE m = n
    BY <1>2, <1>4, <2>1 DEF EpollInv
  <2>2. CASE m # n
    <3>1. registered'[Fd[m]] = registered[Fd[m]]
      BY <1>4, <2>2, TreeFacts
    <3>2. ~(C!Running(m)')
      BY <1>1, <1>2, <2>2 DEF C!Running, C!Last, Last
    <3>3. QED
      BY <1>1, <3>1, <3>2 DEF SleepInv, EpollInv, E!Gone
  <2>3. QED
    BY <2>1, <2>2
<1>7. QED
  BY <1>5, <1>6 DEF SleepInv

LEMMA WouldBlockSleep ==
  ASSUME SleepInv, NEW n \in Pipes, WouldBlock(n)
  PROVE  SleepInv'
<1>1. /\ C!Running(n) /\ phase' \in {"register", "pend"} /\ phase' # "pend"
      /\ UNCHANGED <<stack, due, pc, fut, queue, events, registered>>
  BY DEF WouldBlock, AfterEagain, InLoop, C!JustCalled, treeVars, execVars
<1>2. stack # <<>> /\ Last(stack) = n
  BY <1>1, RunningInTree DEF SleepInv
<1>3. CallInv' /\ WakersInv' /\ (E!Gone => E!Gone')
  BY <1>1, <1>2 DEF SleepInv, CallInv, WakersInv, E!Gone
<1>4. QED
  BY <1>1, <1>3, EpollSetStays

LEMMA NothingMoves ==
  ASSUME SleepInv, UNCHANGED <<execVars, treeVars, phase>>
  PROVE  SleepInv'
<1>1. UNCHANGED <<pc, fut, queue, events, registered, stack, due, phase>>
  BY DEF execVars, treeVars
<1>2. CallInv' /\ WakersInv' /\ (E!Gone => E!Gone')
  BY <1>1 DEF SleepInv, CallInv, WakersInv, E!Gone
<1>3. QED
  BY <1>1, <1>2, EpollSetStays DEF C!Running

LEMMA SleepStep == SleepInv /\ [Next]_vars => SleepInv'
<1> SUFFICES ASSUME SleepInv, [Next]_vars PROVE SleepInv'
  OBVIOUS
<1>1. CASE ExecutorStep \/ ClientStep
  BY <1>1, ExecutorSleep
<1>2. CASE PopAndProgress
  BY <1>2, PopSleep
<1>3. CASE CombinatorStep
  BY <1>3, CombinatorSleep
<1>4. CASE \E n \in Pipes : WouldBlock(n) \/ Register(n) \/ Pend(n) \/ Complete(n)
                              \/ ReadEof(n)
  BY <1>4, WouldBlockSleep, RegisterSleep, PendSleep, EndSleep
<1>5. CASE \E n \in LeavesDoing("apply") : Apply(n)
  BY <1>5, ApplySleep
<1>6. CASE \E n \in Pipes : ReadSome(n) \/ AdjustSize(n) \/ WriteSome(n)
  BY <1>6, NothingMoves DEF ReadSome, AdjustSize, WriteSome
<1>7. CASE UNCHANGED threadVars
  BY <1>7, NothingMoves DEF threadVars, leafVars
<1>8. (LeafStep => \/ \E n \in Pipes : \/ WouldBlock(n) \/ Register(n) \/ Pend(n)
                                       \/ Complete(n) \/ ReadEof(n)
                                       \/ ReadSome(n) \/ AdjustSize(n) \/ WriteSome(n)
                   \/ \E n \in LeavesDoing("apply") : Apply(n))
  BY
  DEF LeafStep, Pipes, ReadWouldBlock, WriteWouldBlock,
      ReadCompletes, WriteCompletes
<1>9. QED
  BY <1>1, <1>2, <1>3, <1>4, <1>5, <1>6, <1>7, <1>8
  DEF Next, ThreadStep, PeerStep, vars

(* When the executor goes to sleep in epoll_wait(), a read that could go   *)
(* on is among what is reported, for its own root (future.h:23-25): a byte *)
(* that arrives between the EAGAIN and epoll_ctl() is never overlooked.    *)
THEOREM ReadersAreWoken == Spec => []NoReaderSleeps
<1>1. ASSUME SleepInv, pc = "poll", NEW n \in due \intersect Reads, CanRead(n)
      PROVE  WillBeWoken(n)
  <2>1. n \in Pipes /\ n \in Nodes
    BY LeafFacts
  <2>2. registered[Fd[n]] = RootOf[n]
    BY <1>1, <2>1 DEF SleepInv, EpollInv, E!Gone
  <2>3. registered[Fd[n]] # None
    BY <2>1, <2>2, TreeFacts
  <2>4. QED
    BY <1>1, <2>2, <2>3 DEF CanRead, WillBeWoken, E!Reportable
<1>2. SleepInv => NoReaderSleeps
  BY <1>1 DEF NoReaderSleeps, Reads
<1>3. QED
  BY <1>2, SleepInit, SleepStep, PTL DEF Spec
-----------------------------------------------------------------------------
(***************************************************************************)
(* Capacities and sizes.                                                   *)
(***************************************************************************)

PipeInv(fd) ==
  /\ \E S : stream[fd] \in Seq(S)
  /\ got[fd] \in 0 .. Len(stream[fd])
  /\ Level(fd) <= Capacity[fd]

(* A zero byte is only looked for before the first byte is written.        *)
SizeInv(n) ==
  /\ so_far[n] \in 0 .. size[n]
  /\ size[n] \in 0 .. Size[n]
  /\ n \in stop_on_zero_byte => so_far[n] = 0

BoundsInv ==
  /\ DomainInv
  /\ closed \subseteq ReadFds
  /\ nonblocking \subseteq Fds
  /\ \A fd \in Fds : PipeInv(fd)
  /\ \A n \in Pipes : SizeInv(n)

boundsVars == <<stream, got, so_far, size, stop_on_zero_byte, closed, nonblocking>>

LEMMA BoundsFacts ==
  /\ \A fd \in Fds : Capacity[fd] \in Nat \ {0}
  /\ \A n \in Pipes : Size[n] \in Nat /\ Fd[n] \in Fds
  /\ ReadFds \subseteq Fds /\ WriteFds \subseteq Fds
BY LeafAssumption DEF Fds, ReadFds, WriteFds, Pipes

LEMMA BoundsInit == Init => BoundsInv
<1> SUFFICES ASSUME Init PROVE BoundsInv
  OBVIOUS
<1>1. DomainInv
  BY InitInv DEF IInv
<1>2. /\ closed = {} /\ nonblocking \subseteq Fds
      /\ \A fd \in Fds : stream[fd] = <<>> /\ got[fd] = 0
      /\ \A n \in Pipes : so_far[n] = 0 /\ size[n] = Size[n]
  BY LeafAssumption DEF Init
<1>3. ASSUME NEW fd \in Fds
      PROVE  PipeInv(fd)
  <2>1. stream[fd] \in Seq({}) /\ Len(stream[fd]) = 0
    BY <1>2, EmptySeq
  <2>2. QED
    BY <1>2, <2>1, BoundsFacts DEF PipeInv, Level
<1>4. ASSUME NEW n \in Pipes
      PROVE  SizeInv(n)
  BY <1>2, BoundsFacts DEF SizeInv
<1>5. QED
  BY <1>1, <1>2, <1>3, <1>4 DEF BoundsInv

LEMMA NoBoundMoves ==
  ASSUME BoundsInv, DomainInv', UNCHANGED boundsVars
  PROVE  BoundsInv'
BY DEF BoundsInv, boundsVars, PipeInv, SizeInv, Level

LEMMA StringSizeBound ==
  ASSUME NEW n \in Pipes, size[n] \in Nat
  PROVE  StringSize(n) \in 0 .. size[n]
<1> DEFINE counted == {i \in 1 .. size[n] : \A j \in 1 .. i - 1 : Text(n)[j] # Zero}
<1>1. IsFiniteSet(1 .. size[n]) /\ Cardinality(1 .. size[n]) = size[n]
  BY FS_Interval
<1>2. counted \subseteq 1 .. size[n]
  OBVIOUS
<1>3. IsFiniteSet(counted) /\ Cardinality(counted) <= size[n]
  BY <1>1, <1>2, FS_Subset
<1>4. Cardinality(counted) \in Nat
  BY <1>3, FS_CardinalityType
<1>5. QED
  BY <1>3, <1>4 DEF StringSize

LEMMA PartOfText ==
  ASSUME NEW s, NEW m \in Int, NEW n \in Int, m <= n
  PROVE  /\ SubSeq(s, m, n) \in Seq({s[i] : i \in m .. n})
         /\ Len(SubSeq(s, m, n)) = n - m + 1
<1> DEFINE T == {s[i] : i \in m .. n}
<1>1. \A i \in m .. n : s[i] \in T
  OBVIOUS
<1> HIDE DEF T
<1>2. /\ SubSeq(s, m, n) \in Seq(T)
      /\ Len(SubSeq(s, m, n)) = IF m <= n THEN n - m + 1 ELSE 0
  BY <1>1, SubSeqProperties
<1>3. QED
  BY <1>2 DEF T

(* What is put into a pipe is added to what was there.                     *)
LEMMA PutBytes ==
  ASSUME NEW S, NEW T, NEW s \in Seq(S), NEW t \in Seq(T)
  PROVE  s \o t \in Seq(S \union T) /\ Len(s \o t) = Len(s) + Len(t)
<1>1. s \in Seq(S \union T) /\ t \in Seq(S \union T)
  BY SeqMonotonic
<1>2. QED
  BY <1>1, ConcatProperties

LEMMA WriteSomeBounds ==
  ASSUME BoundsInv, NEW m \in LeavesDoing("write"), WriteSome(m)
  PROVE  BoundsInv'
<1>1. m \in Pipes /\ Fd[m] \in Fds
  BY LeafFacts
<1>2. PICK k \in 1 .. size[m] - so_far[m] :
        /\ Level(Fd[m]) + k <= Capacity[Fd[m]]
        /\ stream' = [stream EXCEPT
             ![Fd[m]] = @ \o SubSeq(Text(m), so_far[m] + 1, so_far[m] + k)]
        /\ so_far' = [so_far EXCEPT ![m] = @ + k]
  BY DEF WriteSome
<1>3. /\ UNCHANGED <<got, size, stop_on_zero_byte, closed, nonblocking, buffer, status>>
      /\ m \notin stop_on_zero_byte
  BY DEF WriteSome, treeVars, InLoop
<1>4. DomainInv'
  BY <1>2, <1>3 DEF BoundsInv, DomainInv
<1>5. PipeInv(Fd[m]) /\ SizeInv(m) /\ k \in Nat /\ k > 0 /\ so_far[m] + k <= size[m]
  BY <1>1, <1>2 DEF BoundsInv, SizeInv
<1>6. PipeInv(Fd[m])'
  <2> DEFINE put == SubSeq(Text(m), so_far[m] + 1, so_far[m] + k)
             T == {Text(m)[i] : i \in so_far[m] + 1 .. so_far[m] + k}
  <2>1. so_far[m] \in Int /\ k \in Int /\ k > 0
    BY <1>5 DEF SizeInv
  <2>2. put \in Seq(T) /\ Len(put) = k
    <3> DEFINE text == Text(m)
               first == so_far[m] + 1
               last == so_far[m] + k
    <3>1. first \in Int /\ last \in Int /\ first <= last /\ last - first + 1 = k
      BY <2>1
    <3> SUFFICES /\ SubSeq(text, first, last) \in Seq({text[i] : i \in first .. last})
                 /\ Len(SubSeq(text, first, last)) = k
      OBVIOUS
    <3> HIDE DEF text, first, last
    <3>2. QED
      BY <3>1, PartOfText
  <2>3. PICK S : stream[Fd[m]] \in Seq(S)
    BY <1>5 DEF PipeInv
  <2>4. stream'[Fd[m]] = stream[Fd[m]] \o put
    BY <1>1, <1>2 DEF BoundsInv, DomainInv
  <2> HIDE DEF put, T
  <2>5. /\ stream'[Fd[m]] \in Seq(S \union T)
        /\ Len(stream'[Fd[m]]) = Len(stream[Fd[m]]) + k
        /\ Len(stream[Fd[m]]) \in Nat
    <3>1. /\ stream[Fd[m]] \o put \in Seq(S \union T)
          /\ Len(stream[Fd[m]] \o put) = Len(stream[Fd[m]]) + Len(put)
      BY <2>2, <2>3, PutBytes
    <3>2. Len(stream[Fd[m]]) \in Nat
      BY <2>3, LenProperties
    <3>3. QED
      BY <2>2, <2>4, <3>1, <3>2
  <2>6. /\ got[Fd[m]] \in 0 .. Len(stream[Fd[m]]) + k
        /\ Len(stream[Fd[m]]) + k - got[Fd[m]] <= Capacity[Fd[m]]
    BY <1>1, <1>2, <1>5, <2>5, BoundsFacts DEF PipeInv, Level
  <2>7. QED
    BY <1>3, <2>5, <2>6 DEF PipeInv, Level
<1>7. ASSUME NEW fd \in Fds
      PROVE  PipeInv(fd)'
  <2>1. CASE fd = Fd[m]
    BY <1>6, <2>1
  <2>2. CASE fd # Fd[m]
    BY <1>2, <1>3, <2>2 DEF BoundsInv, DomainInv, PipeInv, Level
  <2>3. QED
    BY <2>1, <2>2
<1>8. ASSUME NEW n \in Pipes
      PROVE  SizeInv(n)'
  <2>1. CASE n = m
    BY <1>1, <1>2, <1>3, <1>5, <2>1 DEF BoundsInv, DomainInv, SizeInv
  <2>2. CASE n # m
    BY <1>2, <1>3, <2>2 DEF BoundsInv, DomainInv, SizeInv
  <2>3. QED
    BY <2>1, <2>2
<1>9. QED
  BY <1>3, <1>4, <1>7, <1>8 DEF BoundsInv

LEMMA AdjustSizeBounds ==
  ASSUME BoundsInv, NEW m \in LeavesDoing("write"), AdjustSize(m)
  PROVE  BoundsInv'
<1>1. /\ size' = [size EXCEPT ![m] = StringSize(m)]
      /\ stop_on_zero_byte' = stop_on_zero_byte \ {m}
      /\ m \in stop_on_zero_byte /\ m \in Pipes
      /\ UNCHANGED <<stream, got, so_far, closed, nonblocking, buffer, status>>
  BY LeafFacts DEF AdjustSize, treeVars, pipeVars
<1>2. DomainInv'
  BY <1>1 DEF BoundsInv, DomainInv
<1>3. ASSUME NEW n \in Pipes
      PROVE  SizeInv(n)'
  <2>1. CASE n = m
    <3>1. size[m] \in 0 .. Size[m] /\ so_far[m] = 0 /\ Size[m] \in Nat
      BY <1>1, BoundsFacts DEF BoundsInv, SizeInv
    <3>2. StringSize(m) \in 0 .. size[m]
      BY <1>1, <3>1, StringSizeBound
    <3>3. QED
      BY <1>1, <2>1, <3>1, <3>2 DEF BoundsInv, DomainInv, SizeInv
  <2>2. CASE n # m
    BY <1>1, <2>2 DEF BoundsInv, DomainInv, SizeInv
  <2>3. QED
    BY <2>1, <2>2
<1>4. QED
  BY <1>1, <1>2, <1>3 DEF BoundsInv, PipeInv, Level

LEMMA ReadSomeBounds ==
  ASSUME BoundsInv, NEW m \in Reads, ReadSome(m)
  PROVE  BoundsInv'
<1>1. PICK k \in 1 .. Level(Fd[m]) :
        /\ k <= Wanted(m)
        /\ buffer' = [buffer EXCEPT ![m] = Stored(m, k)]
        /\ got' = [got EXCEPT ![Fd[m]] = @ + k]
        /\ so_far' = [so_far EXCEPT ![m] = @ + k]
  BY DEF ReadSome
<1>2. /\ UNCHANGED <<stream, size, stop_on_zero_byte, status, closed, nonblocking>>
      /\ m \notin stop_on_zero_byte
  BY DEF ReadSome, treeVars, InLoop
<1>3. DomainInv'
  BY <1>1, <1>2 DEF BoundsInv, DomainInv
<1>4. m \in Pipes /\ Fd[m] \in Fds
  BY LeafFacts
<1>5. ASSUME NEW fd \in Fds
      PROVE  PipeInv(fd)'
  <2>1. CASE fd = Fd[m]
    <3>1. PipeInv(fd) /\ Len(stream[fd]) \in Nat /\ Capacity[fd] \in Nat
      BY <1>5, BoundsFacts, LenProperties DEF BoundsInv, PipeInv
    <3>2. got'[fd] = got[fd] + k
      BY <1>1, <1>4, <2>1 DEF BoundsInv, DomainInv
    <3>3. /\ got[fd] \in 0 .. Len(stream[fd]) /\ k \in 1 .. Len(stream[fd]) - got[fd]
          /\ Len(stream[fd]) - got[fd] <= Capacity[fd]
      BY <1>1, <2>1, <3>1 DEF PipeInv, Level
    <3>4. /\ got[fd] + k \in 0 .. Len(stream[fd])
          /\ Len(stream[fd]) - (got[fd] + k) <= Capacity[fd]
      BY <3>1, <3>3
    <3>5. QED
      BY <1>2, <3>1, <3>2, <3>4 DEF PipeInv, Level
  <2>2. CASE fd # Fd[m]
    BY <1>1, <1>2, <2>2 DEF BoundsInv, DomainInv, PipeInv, Level
  <2>3. QED
    BY <2>1, <2>2
<1>6. ASSUME NEW n \in Pipes
      PROVE  SizeInv(n)'
  <2>1. CASE n = m
    <3>1. SizeInv(m) /\ so_far'[m] = so_far[m] + k /\ k \in Int /\ k >= 1
      BY <1>1, <1>4 DEF BoundsInv, DomainInv, Level
    <3>2. QED
      BY <1>1, <1>2, <2>1, <3>1, BoundsFacts DEF SizeInv, Wanted
  <2>2. CASE n # m
    BY <1>1, <1>2, <2>2 DEF BoundsInv, DomainInv, SizeInv
  <2>3. QED
    BY <2>1, <2>2
<1>7. QED
  BY <1>2, <1>3, <1>5, <1>6 DEF BoundsInv

LEMMA PeerBounds ==
  ASSUME BoundsInv, NEW fd \in Fds, PeerStep(fd)
  PROVE  BoundsInv'
<1>1. UNCHANGED <<so_far, size, stop_on_zero_byte, nonblocking, buffer, status>>
  BY DEF PeerStep, threadVars, treeVars, leafVars
<1>2. PICK S : stream[fd] \in Seq(S)
  BY DEF BoundsInv, PipeInv
<1>3. /\ PipeInv(fd) /\ Len(stream[fd]) \in Nat /\ Capacity[fd] \in Nat
      /\ \A n \in Pipes : SizeInv(n)
  BY <1>2, LenProperties, BoundsFacts DEF BoundsInv
<1>4. CASE PeerWrites(fd)
  <2> DEFINE byte == Source[fd][Len(stream[fd]) + 1]
  <2>1. /\ Level(fd) < Capacity[fd] /\ got' = got /\ closed' = closed
        /\ stream' = [stream EXCEPT ![fd] = Append(@, byte)]
    BY <1>4 DEF PeerWrites, BoundsInv, DomainInv
  <2>2. stream'[fd] = Append(stream[fd], byte)
    BY <2>1 DEF BoundsInv, DomainInv
  <2>3. stream'[fd] \in Seq(S \union {byte}) /\ Len(stream'[fd]) = Len(stream[fd]) + 1
    <3>1. stream[fd] \in Seq(S \union {byte})
      BY <1>2, SeqMonotonic
    <3>2. QED
      BY <2>2, <3>1, AppendProperties
  <2> HIDE DEF byte
  <2>4. PipeInv(fd)'
    BY <1>3, <2>1, <2>3 DEF PipeInv, Level
  <2>5. \A other \in Fds : other # fd => PipeInv(other)'
    BY <2>1 DEF BoundsInv, DomainInv, PipeInv, Level
  <2>6. DomainInv'
    BY <1>1, <2>1 DEF BoundsInv, DomainInv
  <2>7. QED
    BY <1>1, <1>3, <2>1, <2>4, <2>5, <2>6 DEF BoundsInv, SizeInv
<1>5. CASE PeerCloses(fd)
  BY <1>1, <1>5 DEF PeerCloses, BoundsInv, DomainInv, PipeInv, SizeInv, Level
<1>6. CASE PeerDrains(fd)
  <2>1. /\ stream' = stream /\ closed' = closed
        /\ got' = [got EXCEPT ![fd] = Len(stream[fd])]
    BY <1>6 DEF PeerDrains
  <2>2. DomainInv' /\ got'[fd] = Len(stream[fd])
    BY <1>1, <2>1 DEF BoundsInv, DomainInv
  <2>3. PipeInv(fd)'
    BY <1>2, <1>3, <2>1, <2>2 DEF PipeInv, Level
  <2>4. \A other \in Fds : other # fd => PipeInv(other)'
    BY <2>1 DEF BoundsInv, DomainInv, PipeInv, Level
  <2>5. QED
    BY <1>1, <1>3, <2>1, <2>2, <2>3, <2>4 DEF BoundsInv, SizeInv
<1>7. QED
  BY <1>4, <1>5, <1>6 DEF PeerStep

LEMMA BoundsStep == IInv /\ IInv' /\ BoundsInv /\ [Next]_vars => BoundsInv'
<1> SUFFICES ASSUME IInv, IInv', BoundsInv, [Next]_vars PROVE BoundsInv'
  OBVIOUS
<1>1. DomainInv'
  BY DEF IInv
<1>2. CASE \E n \in Pipes : Register(n)
  BY <1>1, <1>2, BoundsFacts
  DEF Register, SetNonblocking, pipeVars, BoundsInv, PipeInv, SizeInv, Level
<1>3. CASE \/ ExecutorStep \/ ClientStep \/ PopAndProgress \/ CombinatorStep
           \/ \E n \in Pipes : WouldBlock(n) \/ Pend(n) \/ Complete(n) \/ ReadEof(n)
           \/ \E n \in LeavesDoing("apply") : Apply(n)
           \/ UNCHANGED vars
  <2>1. UNCHANGED boundsVars
    BY <1>3
    DEF ExecutorStep, ClientStep, PopAndProgress, CombinatorStep, WouldBlock, Pend,
        Complete, ReadEof, Apply, leafVars, pipeVars, boundsVars, vars, threadVars
  <2>2. QED
    BY <1>1, <2>1, NoBoundMoves
<1>4. CASE \E m \in Reads : ReadSome(m)
  BY <1>4, ReadSomeBounds
<1>5. CASE \E m \in LeavesDoing("write") : AdjustSize(m) \/ WriteSome(m)
  BY <1>5, AdjustSizeBounds, WriteSomeBounds
<1>6. CASE \E fd \in Fds : PeerStep(fd)
  BY <1>6, PeerBounds
<1>7. QED
  BY <1>2, <1>3, <1>4, <1>5, <1>6
  DEF Next, ThreadStep, LeafStep, Reads, Pipes, ReadWouldBlock, WriteWouldBlock,
      ReadCompletes, WriteCompletes

(* The types of the C variables, and that no pipe is overfull and no pipe  *)
(* future counts beyond its n, nor an n beyond the buffer: the size that a *)
(* string write takes from its text (future_examples.c:86-94) included.    *)
THEOREM TypeCorrect == Spec => []TypeOK
<1>1. ASSUME IInv, NEW n \in Reads
      PROVE  Len(buffer[n]) = Size[n]
  <2>1. Size[n] \in Nat /\ buffer[n] = [i \in 1 .. Size[n] |-> buffer[n][i]]
    BY <1>1, LeafFacts DEF IInv, ReadInv, BytesInv
  <2> DEFINE S == {buffer[n][i] : i \in 1 .. Size[n]}
  <2>2. buffer[n] \in [1 .. Size[n] -> S]
    BY <2>1
  <2>3. DOMAIN buffer[n] = 1 .. Size[n]
    BY <2>1
  <2>4. buffer[n] \in Seq(S)
    <3> HIDE DEF S
    <3>1. QED
      BY <2>1, <2>2, SeqDef
  <2>5. Len(buffer[n]) \in Nat /\ DOMAIN buffer[n] = 1 .. Len(buffer[n])
    BY <2>4, LenProperties
  <2>6. 1 .. Len(buffer[n]) = 1 .. Size[n]
    BY <2>3, <2>5
  <2>7. QED
    BY <2>1, <2>5, <2>6
<1>2. IInv /\ BoundsInv /\ SleepInv => TypeOK
  BY <1>1 DEF TypeOK, BoundsInv, DomainInv, PipeInv, SizeInv, SleepInv, CallInv, Reads
<1>3. QED
  BY <1>2, Invariance, InitInv, StepInv, BoundsInit, BoundsStep, SleepInit, SleepStep,
     PTL DEF Spec
=============================================================================
