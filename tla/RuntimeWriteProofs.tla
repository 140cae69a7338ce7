-------------------------- MODULE RuntimeWriteProofs --------------------------
(***************************************************************************)
(* What a write puts into its pipe, in every forest, whatever the sizes,   *)
(* the capacities, the schedule and the processes at the other ends.       *)
(***************************************************************************)
EXTENDS RuntimeRefinementProofs, WellFoundedInduction

Writes == LeavesDoing("write")

(* What the caller of a write owes it: an argument of n bytes, or, when    *)
(* the write stops at a zero byte, of fewer with a zero byte among them.   *)
(* (The code reads on beyond a shorter one.)                               *)
Suffices(n) ==
  /\ Text(n) \in Seq(Range(Text(n)))
  /\ \/ Size[n] <= Len(Text(n))
     \/ n \in CString /\ \E i \in 1 .. Len(Text(n)) : Text(n)[i] = Zero

TextsSuffice == \A n \in Writes : C!Running(n) => Suffices(n)

(* n has been called.                                                      *)
Begun(n) == status[n] # "new" \/ C!Running(n)

(* Results, and the arguments that are made of them, point to the buffers  *)
(* of leaves that have completed, which nobody writes to any more.         *)
Made(x) == x[1] \in DOMAIN Op /\ status[x[1]] = C!COMPLETED

MadeInv ==
  \A n \in Nodes : (ok[n] # NULL => Made(ok[n])) /\ (arg[n] # NULL => Made(arg[n]))

(* What is in the pipe is the part of the text that so_far counts.         *)
PutInv(n) ==
  /\ stream[Fd[n]] \in Seq(Range(Text(n)))
  /\ Len(stream[Fd[n]]) = so_far[n]
  /\ \A i \in 1 .. so_far[n] : stream[Fd[n]][i] = Text(n)[i]

(* k is the place of the first zero byte of the text, or n if that is less.*)
IsStringSize(n, k) ==
  /\ k \in 0 .. Size[n] /\ k <= Len(Text(n))
  /\ \A j \in 1 .. k - 1 : Text(n)[j] # Zero
  /\ k = Size[n] \/ (k > 0 /\ Text(n)[k] = Zero)

AdjustedInv(n) ==
  /\ n \in stop_on_zero_byte => so_far[n] = 0 /\ size[n] = Size[n]
  /\ n \notin CString => size[n] = Size[n]
  /\ n \in CString \ stop_on_zero_byte => IsStringSize(n, size[n])

WriteInv(n) ==
  /\ PutInv(n) /\ AdjustedInv(n)
  /\ Begun(n) => Suffices(n)
  /\ ~Begun(n) => /\ so_far[n] = 0 /\ arg[n] = NULL
                  /\ n \in CString => n \in stop_on_zero_byte
  /\ status[n] = C!COMPLETED => /\ so_far[n] = size[n] /\ n \notin stop_on_zero_byte
                                /\ buffer[n] = Text(n)

TextInv == MadeInv /\ \A n \in Writes : WriteInv(n)

-----------------------------------------------------------------------------
(***************************************************************************)
(* The size of a string.                                                   *)
(***************************************************************************)

LEMMA LeastNatural ==
  ASSUME NEW T \in SUBSET Nat, T # {}
  PROVE  \E x \in T : \A y \in T : x <= y
<1>1. \E x \in T : \A y \in T : ~(<<y, x>> \in OpToRel(<, Nat))
  BY NatLessThanWellFounded, WFMin, Zenon
<1>2. PICK x \in T : \A y \in T : ~(<<y, x>> \in OpToRel(<, Nat))
  BY <1>1, Zenon
<1>3. \A y \in T : ~(y < x)
  BY <1>2 DEF OpToRel
<1>4. QED
  BY <1>3

(* The loop of pipe_write_progress() finds the first zero byte.            *)
LEMMA StringSizeIs ==
  ASSUME NEW n \in Writes, Size[n] \in Nat, size[n] = Size[n], Suffices(n), n \in CString
  PROVE  IsStringSize(n, StringSize(n))
<1> DEFINE text == Text(n)
           counted == {i \in 1 .. size[n] : \A j \in 1 .. i - 1 : text[j] # Zero}
           zeros == {i \in 1 .. Size[n] : i <= Len(text) /\ text[i] = Zero}
<1>1. Len(text) \in Nat
  BY LenProperties DEF Suffices
<1>2. ASSUME NEW k \in 0 .. Size[n], counted = 1 .. k
      PROVE  StringSize(n) = k
  <2>1. Cardinality(1 .. k) = k
    BY FS_Interval
  <2>2. QED
    BY <1>2, <2>1 DEF StringSize
<1>3. CASE zeros = {}
  <2>1. Size[n] <= Len(text)
    <3> SUFFICES ASSUME ~(Size[n] <= Len(text))
                 PROVE  FALSE
      OBVIOUS
    <3>1. PICK i \in 1 .. Len(text) : text[i] = Zero
      BY DEF Suffices
    <3>2. i \in 1 .. Size[n] /\ i <= Len(text)
      BY <1>1, <3>1
    <3>3. QED
      BY <1>3, <3>1, <3>2
  <2>2. \A j \in 1 .. Size[n] : text[j] # Zero
    BY <1>1, <1>3, <2>1
  <2>3. counted = 1 .. Size[n]
    BY <2>2
  <2>4. StringSize(n) = Size[n]
    BY <1>2, <2>3
  <2>5. QED
    BY <2>1, <2>2, <2>4 DEF IsStringSize
<1>4. CASE zeros # {}
  <2>1. PICK k \in zeros : \A y \in zeros : k <= y
    <3> HIDE DEF zeros
    <3>1. zeros \in SUBSET Nat
      BY DEF zeros
    <3>2. QED
      BY <1>4, <3>1, LeastNatural
  <2>2. k \in 1 .. Size[n] /\ k <= Len(text) /\ text[k] = Zero
    OBVIOUS
  <2>3. \A j \in 1 .. k - 1 : text[j] # Zero
    <3>1. ASSUME NEW j \in 1 .. k - 1, text[j] = Zero
          PROVE  FALSE
      <4>1. j \in zeros /\ ~(k <= j)
        BY <1>1, <2>2, <3>1
      <4>2. QED
        BY <2>1, <4>1
    <3>2. QED
      BY <3>1
  <2>4. counted = 1 .. k
    <3>1. ASSUME NEW i \in 1 .. Size[n], i \notin 1 .. k
          PROVE  i \notin counted
      BY <2>2, <3>1
    <3>2. ASSUME NEW i \in 1 .. k
          PROVE  i \in counted
      BY <2>2, <2>3, <3>2
    <3>3. QED
      BY <2>2, <3>1, <3>2
  <2>5. StringSize(n) = k
    BY <1>2, <2>2, <2>4
  <2>6. QED
    BY <2>2, <2>3, <2>5 DEF IsStringSize
<1>5. QED
  BY <1>3, <1>4

-----------------------------------------------------------------------------
(***************************************************************************)
(* What a step leaves alone.                                               *)
(***************************************************************************)

LEMMA WriteFacts ==
  \A n \in Writes : /\ n \in Pipes /\ n \in Nodes /\ n \in DOMAIN Op /\ Kind[n] = "leaf"
                    /\ n \notin Reads /\ n \notin LeavesDoing("apply")
                    /\ Fd[n] \in Fds /\ Fd[n] \notin ReadFds /\ Size[n] \in Nat
<1>1. \A n \in Writes : n \in DOMAIN Op /\ n \in Pipes /\ n \notin LeavesDoing("apply")
  BY DEF Writes, Pipes, LeavesDoing
<1>2. QED
  BY <1>1, LeafFacts, TreeFacts, BoundsFacts DEF Writes, ReadFds, Reads

LEMMA CombinatorsOnly ==
  ASSUME Inv, CombinatorStep, NEW n \in DOMAIN Op
  PROVE  ~C!Running(n)
<1>1. PICK k : C!Running(k) /\ Kind[k] # "leaf"
  BY CombinatorMoves DEF CombinatorStep
<1>2. QED
  BY <1>1, TreeFacts DEF C!Running

LEMMA OthersRest ==
  ASSUME Inv, [Next]_vars, NEW n \in DOMAIN Op, ~C!Running(n)
  PROVE  /\ status'[n] = status[n] /\ buffer'[n] = buffer[n]
         /\ n \in Writes => /\ so_far'[n] = so_far[n] /\ size'[n] = size[n]
                            /\ n \in stop_on_zero_byte' <=> n \in stop_on_zero_byte
                            /\ stream'[Fd[n]] = stream[Fd[n]]
<1> DEFINE Rest == /\ status'[n] = status[n] /\ buffer'[n] = buffer[n]
                   /\ n \in Writes => /\ so_far'[n] = so_far[n] /\ size'[n] = size[n]
                                      /\ n \in stop_on_zero_byte' <=> n \in stop_on_zero_byte
                                      /\ stream'[Fd[n]] = stream[Fd[n]]
<1>1. /\ DOMAIN status = Nodes /\ DOMAIN buffer = DOMAIN Op
      /\ DOMAIN so_far = Pipes /\ DOMAIN size = Pipes /\ DOMAIN stream = Fds
      /\ n \in Nodes
  BY TreeFacts DEF Inv, IInv, DomainInv
<1>2. CASE CombinatorStep
  <2>1. PICK k : RunsOnly(k)
    BY <1>2, CallMoves
  <2>2. UNCHANGED <<buffer, so_far, size, stop_on_zero_byte, stream>>
    BY <1>2 DEF CombinatorStep, leafVars, pipeVars
  <2>3. QED
    BY <1>1, <2>1, <2>2 DEF RunsOnly
<1>3. CASE ExecutorStep \/ ClientStep \/ PopAndProgress \/ UNCHANGED vars
  BY <1>3
  DEF ExecutorStep, ClientStep, PopAndProgress, C!Call, vars, threadVars, treeVars,
      leafVars, pipeVars
<1>4. ASSUME NEW fd \in Fds, PeerStep(fd)
      PROVE  Rest
  <2>1. UNCHANGED <<status, buffer, so_far, size, stop_on_zero_byte>>
    BY <1>4 DEF PeerStep, threadVars, treeVars, leafVars
  <2>2. stream' = stream \/ (fd \in ReadFds /\ \E s : stream' = [stream EXCEPT ![fd] = s])
    BY <1>4 DEF PeerStep, PeerWrites, PeerCloses, PeerDrains
  <2>3. QED
    BY <1>1, <2>1, <2>2, WriteFacts
<1>5. ASSUME NEW m \in DOMAIN Op,
             \/ m \in Pipes /\ (WouldBlock(m) \/ Register(m) \/ Pend(m) \/ ReadEof(m))
             \/ m \in Pipes /\ (ReadCompletes(m) \/ WriteCompletes(m))
             \/ m \in Reads /\ ReadSome(m)
             \/ m \in Writes /\ (AdjustSize(m) \/ WriteSome(m))
             \/ m \in LeavesDoing("apply") /\ Apply(m)
      PROVE  Rest
  <2>1. C!Running(m)
    BY <1>5
    DEF WouldBlock, Register, Pend, Complete, ReadCompletes, WriteCompletes, ReadEof,
        ReadSome, AdjustSize, WriteSome, Apply, InLoop, C!LeafPends, C!LeafCompletes,
        C!JustCalled
  <2>2. m # n
    BY <2>1
  <2>3. CASE Register(m) \/ WouldBlock(m)
    BY <2>3 DEF Register, WouldBlock, treeVars, pipeVars
  <2>4. CASE Pend(m) \/ ReadCompletes(m) \/ WriteCompletes(m) \/ ReadEof(m)
    <3>1. UNCHANGED <<so_far, size, stop_on_zero_byte, stream>>
      BY <2>4
      DEF Pend, Complete, ReadCompletes, WriteCompletes, ReadEof, leafVars, pipeVars
    <3>2. buffer' = buffer \/ \E b : buffer' = [buffer EXCEPT ![m] = b]
      BY <2>4 DEF Pend, ReadCompletes, WriteCompletes, ReadEof, leafVars
    <3>3. \E s : status' = [status EXCEPT ![m] = s]
      BY <2>4
      DEF Pend, Complete, ReadCompletes, WriteCompletes, ReadEof, C!LeafPends,
          C!LeafCompletes, C!LeafFails, C!Return
    <3>4. QED
      BY <1>1, <2>2, <3>1, <3>2, <3>3
  <2>5. CASE m \in Reads /\ ReadSome(m)
    <3>1. UNCHANGED <<status, size, stop_on_zero_byte, stream>>
      BY <2>5 DEF ReadSome, treeVars
    <3>2. /\ \E b : buffer' = [buffer EXCEPT ![m] = b]
          /\ \E s : so_far' = [so_far EXCEPT ![m] = s]
      BY <2>5 DEF ReadSome
    <3>3. QED
      BY <1>1, <2>2, <3>1, <3>2, WriteFacts
  <2>6. CASE m \in Writes /\ AdjustSize(m)
    <3>1. UNCHANGED <<status, buffer, so_far, stream>>
      BY <2>6 DEF AdjustSize, treeVars, pipeVars
    <3>2. /\ size' = [size EXCEPT ![m] = StringSize(m)]
          /\ stop_on_zero_byte' = stop_on_zero_byte \ {m}
      BY <2>6 DEF AdjustSize
    <3>3. QED
      BY <1>1, <2>2, <3>1, <3>2, WriteFacts
  <2>7. CASE m \in Writes /\ WriteSome(m)
    <3>1. UNCHANGED <<status, buffer, size, stop_on_zero_byte>>
      BY <2>7 DEF WriteSome, treeVars
    <3>2. /\ \E s : stream' = [stream EXCEPT ![Fd[m]] = s]
          /\ \E s : so_far' = [so_far EXCEPT ![m] = s]
      BY <2>7 DEF WriteSome
    <3>3. n \in Writes => Fd[n] # Fd[m]
      BY <2>2, <2>7, WriteFacts, OwnFds
    <3>4. QED
      BY <1>1, <2>2, <3>1, <3>2, <3>3, WriteFacts
  <2>8. CASE Apply(m)
    <3>1. UNCHANGED <<so_far, size, stop_on_zero_byte, stream>>
      BY <2>8 DEF Apply, pipeVars
    <3>2. /\ buffer' = [buffer EXCEPT ![m] = Func(Text(m))]
          /\ status' = [status EXCEPT ![m] = C!COMPLETED]
      BY <2>8 DEF Apply, C!LeafCompletes, C!Return
    <3>3. QED
      BY <1>1, <2>2, <3>1, <3>2
  <2>9. QED
    BY <1>5, <2>3, <2>4, <2>5, <2>6, <2>7, <2>8
<1>6. CASE LeafStep
  BY <1>5, <1>6
  DEF LeafStep, Pipes, LeavesDoing, Reads, Writes, ReadWouldBlock, WriteWouldBlock
<1>7. QED
  BY <1>2, <1>3, <1>4, <1>6 DEF Next, ThreadStep

(* A leaf that has completed is not called again.                          *)
LEMMA CompletedRest ==
  ASSUME Inv, [Next]_vars, NEW m \in DOMAIN Op, status[m] = C!COMPLETED
  PROVE  status'[m] = C!COMPLETED /\ buffer'[m] = buffer[m]
<1>1. ~C!Running(m)
  <2> SUFFICES ASSUME P!Running(m)
               PROVE  FALSE
    BY SameCalls
  <2>1. status[m] \in {"new", P!PENDING}
    BY SameTrees, TreeFacts, P!RunningNode DEF Inv, TreeInv
  <2>2. QED
    BY <2>1 DEF C!COMPLETED, P!PENDING
<1>2. QED
  BY <1>1, OthersRest

(* The argument of a future that has been called does not change.          *)
LEMMA ArgRests ==
  ASSUME Inv, [Next]_vars, NEW n \in Writes, arg'[n] # arg[n]
  PROVE  ~Begun(n) /\ C!Running(n)'
<1>1. CASE CombinatorStep
  <2>1. PICK k : k \in C!KindsAre("then") /\ C!ThenFut1Completes(k)
    BY <1>1
    DEF CombinatorStep, C!ThenStep, C!ThenProgress, C!ThenFut2Completes, C!ThenFails,
        C!ChildPends, C!JoinStep, C!JoinProgress, C!JoinFut1Returns, C!JoinFut2Returns,
        C!SelectStep, C!SelectProgress, C!SelectCompletes, C!SelectChildFails, C!baseVars
  <2>2. /\ C!HasReply(k, Fut1[k], C!COMPLETED) /\ C!Call(Fut2[k])
        /\ arg' = [arg EXCEPT ![Fut2[k]] = ok[Fut1[k]]]
    BY <2>1 DEF C!ThenFut1Completes
  <2>3. DOMAIN arg = Nodes /\ P!IInv /\ P!ThenInv(k) /\ k \in Nodes
    BY <2>1 DEF Inv, TreeInv, P!IInv, P!BaseInv, P!NodeInv, C!KindsAre
  <2>4. n = Fut2[k]
    BY <2>2, <2>3, WriteFacts
  <2>5. arg'[n] = ok[Fut1[k]]
    BY <2>2, <2>3, <2>4, WriteFacts
  <2>6. ~P!InCall(n) /\ status[n] = "new"
    BY <2>3, <2>4, <2>5 DEF P!ThenInv
  <2>7. ~C!Running(n)
    BY <1>1, CombinatorsOnly, WriteFacts
  <2>8. C!Running(n)'
    <3>1. stack \in Seq(Nodes) /\ stack' = Append(stack, n) /\ n \in Nodes
      BY <2>2, <2>4, WriteFacts DEF C!Call, Inv, TreeInv, P!IInv, P!StackInv
    <3>2. Len(stack) \in Nat /\ stack' \in Seq(Nodes) /\ Len(stack') = Len(stack) + 1
          /\ stack'[Len(stack) + 1] = n
      BY <3>1, AppendProperties, LenProperties
    <3>3. stack' # <<>> /\ stack'[Len(stack')] = n
      BY <3>2, EmptySeq
    <3>4. QED
      BY <3>3 DEF C!Running, C!Last
  <2>9. QED
    BY <2>6, <2>7, <2>8 DEF Begun
<1>2. CASE LeafStep
  <2>1. arg' = arg
    BY <1>2
    DEF LeafStep, ReadSome, ReadEof, ReadWouldBlock, WouldBlock, AdjustSize, WriteSome,
        WriteWouldBlock, Apply, Register, Pend, Complete, ReadCompletes, WriteCompletes,
        treeVars, C!LeafPends, C!LeafCompletes, C!LeafFails, C!baseVars
  <2>2. QED
    BY <2>1
<1>3. CASE ~CombinatorStep /\ ~LeafStep
  BY <1>3
  DEF Next, ThreadStep, ExecutorStep, ClientStep, PopAndProgress, PeerStep, vars,
      threadVars, treeVars
<1>4. QED
  BY <1>1, <1>2, <1>3

(* Results are made by leaves that complete, and handed on by combinators. *)
LEMMA ResultsMove ==
  ASSUME Inv, [Next]_vars, NEW n \in Nodes
  PROVE  /\ arg'[n] = arg[n] \/ \E m \in Nodes : arg'[n] = ok[m]
         /\ \/ \E m \in Nodes : ok'[n] = ok[m]
            \/ ok'[n] = <<n, arg[n]>> /\ n \in DOMAIN Op /\ status'[n] = C!COMPLETED
<1> DEFINE Goal == /\ arg'[n] = arg[n] \/ \E m \in Nodes : arg'[n] = ok[m]
                   /\ \/ \E m \in Nodes : ok'[n] = ok[m]
                      \/ ok'[n] = <<n, arg[n]>> /\ n \in DOMAIN Op /\ status'[n] = C!COMPLETED
<1>1. DOMAIN arg = Nodes /\ DOMAIN ok = Nodes /\ DOMAIN status = Nodes
  BY DEF Inv, TreeInv, P!IInv, P!BaseInv, IInv, DomainInv
<1>2. CASE UNCHANGED <<arg, ok>>
  BY <1>2
<1>3. CASE CombinatorStep
  <2>1. PICK k : \/ k \in C!KindsAre("then") /\ C!ThenStep(k)
                 \/ k \in C!KindsAre("join") /\ C!JoinStep(k)
                 \/ k \in C!KindsAre("select") /\ C!SelectStep(k)
    BY <1>3 DEF CombinatorStep
  <2>2. k \in Nodes /\ Fut1[k] \in Nodes /\ Fut2[k] \in Nodes
    BY <2>1, TreesAssumption DEF C!TreeAssumption, C!Inner, C!Leaves, C!KindsAre
  <2>3. /\ arg' = arg \/ arg' = [arg EXCEPT ![Fut2[k]] = ok[Fut1[k]]]
        /\ ok' = ok \/ \E m \in {Fut1[k], Fut2[k]} : ok' = [ok EXCEPT ![k] = ok[m]]
    BY <2>1
    DEF C!ThenStep, C!ThenProgress, C!ThenFut1Completes, C!ThenFut2Completes,
        C!ThenFails, C!ChildPends, C!JoinStep, C!JoinProgress, C!JoinFut1Returns,
        C!JoinFut2Returns, C!SelectStep, C!SelectProgress, C!SelectCompletes,
        C!SelectedOk, C!SelectChildFails, C!baseVars
  <2>4. QED
    BY <1>1, <2>2, <2>3
<1>4. ASSUME NEW m \in DOMAIN Op, C!LeafCompletes(m)
      PROVE  Goal
  <2>1. /\ arg' = arg /\ ok' = [ok EXCEPT ![m] = <<m, arg[m]>>]
        /\ status' = [status EXCEPT ![m] = C!COMPLETED]
    BY <1>4 DEF C!LeafCompletes, C!Return
  <2>2. m \in Nodes
    BY TreeFacts
  <2>3. QED
    BY <1>1, <2>1, <2>2
<1>5. CASE LeafStep
  <2>1. UNCHANGED <<arg, ok>> \/ \E m \in DOMAIN Op : C!LeafCompletes(m)
    BY <1>5, TreeFacts
    DEF LeafStep, Pipes, LeavesDoing, ReadSome, ReadEof, ReadWouldBlock, WouldBlock,
        AdjustSize, WriteSome, WriteWouldBlock, Apply, Register, Pend, Complete,
        ReadCompletes, WriteCompletes, treeVars, C!LeafPends, C!LeafFails, C!baseVars
  <2>2. QED
    BY <1>2, <1>4, <2>1
<1>6. CASE ~CombinatorStep /\ ~LeafStep
  <2>1. UNCHANGED <<arg, ok>>
    BY <1>6
    DEF Next, ThreadStep, ExecutorStep, ClientStep, PopAndProgress, PeerStep, vars,
        threadVars, treeVars
  <2>2. QED
    BY <1>2, <2>1
<1>7. QED
  BY <1>3, <1>5, <1>6

LEMMA MadeStep ==
  ASSUME Inv, MadeInv, [Next]_vars
  PROVE  MadeInv'
<1>1. ASSUME NEW x, Made(x)
      PROVE  Made(x)'
  BY <1>1, CompletedRest DEF Made
<1>2. ASSUME NEW n \in Nodes, ok'[n] # NULL
      PROVE  Made(ok[n])'
  <2>1. CASE \E m \in Nodes : ok'[n] = ok[m]
    BY <1>1, <1>2, <2>1 DEF MadeInv, Made
  <2>2. CASE ok'[n] = <<n, arg[n]>> /\ n \in DOMAIN Op /\ status'[n] = C!COMPLETED
    BY <2>2 DEF Made
  <2>3. QED
    BY <2>1, <2>2, ResultsMove
<1>3. ASSUME NEW n \in Nodes, arg'[n] # NULL
      PROVE  Made(arg[n])'
  BY <1>1, <1>3, ResultsMove DEF MadeInv, Made
<1>4. QED
  BY <1>2, <1>3 DEF MadeInv

(* As long as its argument does not change, nor does the text of a write.  *)
LEMMA TextRests ==
  ASSUME Inv, MadeInv, [Next]_vars, NEW n \in Writes, arg'[n] = arg[n]
  PROVE  /\ Text(n)' = Text(n)
         /\ Suffices(n)' <=> Suffices(n)
         /\ \A k : IsStringSize(n, k)' <=> IsStringSize(n, k)
<1>1. Text(n)' = Text(n)
  <2>1. CASE arg[n] = NULL
    BY <2>1 DEF Text
  <2>2. CASE arg[n] # NULL
    <3>1. buffer'[arg[n][1]] = buffer[arg[n][1]]
      BY <2>2, CompletedRest, WriteFacts DEF MadeInv, Made
    <3>2. QED
      BY <2>2, <3>1 DEF Text
  <2>3. QED
    BY <2>1, <2>2
<1>2. QED
  BY <1>1 DEF Suffices, IsStringSize

-----------------------------------------------------------------------------
(***************************************************************************)
(* The bytes of a write.                                                   *)
(***************************************************************************)

(* A step that only concerns others.                                       *)
LEMMA OtherWrites ==
  ASSUME Inv, TextInv, TextsSuffice', [Next]_vars, NEW n \in Writes,
         status'[n] = status[n], so_far'[n] = so_far[n], size'[n] = size[n],
         n \in stop_on_zero_byte' <=> n \in stop_on_zero_byte,
         stream'[Fd[n]] = stream[Fd[n]], buffer'[n] = buffer[n],
         C!Running(n) => C!Running(n)'
  PROVE  WriteInv(n)'
<1>1. WriteInv(n) /\ MadeInv
  BY DEF TextInv
<1>2. CASE arg'[n] = arg[n]
  <2>1. /\ Text(n)' = Text(n)
        /\ Suffices(n)' <=> Suffices(n)
        /\ \A k : IsStringSize(n, k)' <=> IsStringSize(n, k)
    BY <1>1, <1>2, TextRests
  <2>2. PutInv(n)'
    BY <1>1, <2>1 DEF WriteInv, PutInv
  <2>3. AdjustedInv(n)'
    <3>1. IsStringSize(n, size[n]) => IsStringSize(n, size[n])'
      BY <1>1, <2>1 DEF IsStringSize
    <3>2. QED
      BY <1>1, <3>1 DEF WriteInv, AdjustedInv
  <2>4. Begun(n)' => Suffices(n)'
    BY <1>1, <2>1 DEF WriteInv, Begun, TextsSuffice
  <2>5. Begun(n) => Begun(n)'
    BY DEF Begun
  <2>6. status[n] = C!COMPLETED => (buffer[n] = Text(n))'
    BY <1>1, <2>1 DEF WriteInv
  <2>7. QED
    BY <1>1, <1>2, <2>2, <2>3, <2>4, <2>5, <2>6 DEF WriteInv
<1>3. CASE arg'[n] # arg[n]
  <2>1. ~Begun(n) /\ C!Running(n)'
    BY <1>3, ArgRests
  <2>2. Begun(n)' /\ Suffices(n)'
    BY <2>1 DEF Begun, TextsSuffice
  <2>3. so_far[n] = 0 /\ (n \in CString => n \in stop_on_zero_byte)
        /\ stream[Fd[n]] \in Seq(Range(Text(n))) /\ Len(stream[Fd[n]]) = 0
    BY <1>1, <2>1 DEF WriteInv, PutInv
  <2>4. stream[Fd[n]] = <<>>
    BY <2>3, EmptySeq
  <2>5. PutInv(n)'
    BY <2>3, <2>4, EmptySeq DEF PutInv
  <2>6. AdjustedInv(n)'
    BY <1>1, <2>3 DEF WriteInv, AdjustedInv
  <2>7. status'[n] # C!COMPLETED
    BY <2>1 DEF Begun, C!COMPLETED
  <2>8. QED
    BY <2>2, <2>5, <2>6, <2>7 DEF WriteInv
<1>4. QED
  BY <1>2, <1>3

(* A write that runs: what it knows of its text.                           *)
LEMMA RunningWrite ==
  ASSUME Inv, TextInv, NEW n \in Writes, C!Running(n)
  PROVE  /\ WriteInv(n) /\ PutInv(n) /\ AdjustedInv(n) /\ Suffices(n)
         /\ so_far[n] \in 0 .. size[n] /\ size[n] \in 0 .. Size[n] /\ Size[n] \in Nat
         /\ Len(Text(n)) \in Nat
         /\ n \notin stop_on_zero_byte => size[n] <= Len(Text(n))
<1>1. WriteInv(n) /\ Suffices(n)
  BY DEF TextInv, WriteInv, Begun
<1>2. so_far[n] \in 0 .. size[n] /\ size[n] \in 0 .. Size[n] /\ Size[n] \in Nat
  BY WriteFacts DEF Inv, BoundsInv, SizeInv
<1>3. Len(Text(n)) \in Nat
  BY <1>1, LenProperties DEF Suffices
<1>4. QED
  BY <1>1, <1>2, <1>3 DEF WriteInv, AdjustedInv, IsStringSize, Suffices

LEMMA WriteSomePuts ==
  ASSUME Inv, TextInv, NEW n \in Writes, WriteSome(n), Text(n)' = Text(n)
  PROVE  PutInv(n)'
<1> DEFINE text == Text(n)
           put == stream[Fd[n]]
<1>1. C!Running(n) /\ n \notin stop_on_zero_byte
  BY DEF WriteSome, InLoop, C!JustCalled
<1>2. PICK k \in 1 .. size[n] - so_far[n] :
        /\ stream' = [stream EXCEPT
             ![Fd[n]] = @ \o SubSeq(Text(n), so_far[n] + 1, so_far[n] + k)]
        /\ so_far' = [so_far EXCEPT ![n] = @ + k]
  BY DEF WriteSome
<1> DEFINE part == SubSeq(text, so_far[n] + 1, so_far[n] + k)
<1>3. stream'[Fd[n]] = put \o part /\ so_far'[n] = so_far[n] + k
  BY <1>2, WriteFacts DEF Inv, IInv, DomainInv
<1>4. /\ so_far[n] \in Nat /\ k \in Nat \ {0} /\ so_far[n] + k <= Len(text)
      /\ so_far[n] + 1 \in Int /\ so_far[n] + k \in Int /\ Len(text) \in Nat
  BY <1>1, RunningWrite
<1>5. \A i \in so_far[n] + 1 .. so_far[n] + k : text[i] \in Range(text)
  <2>1. text \in Seq(Range(text))
    BY <1>1, RunningWrite DEF Suffices
  <2>2. \A i \in so_far[n] + 1 .. so_far[n] + k : i \in 1 .. Len(text)
    BY <1>4
  <2>3. QED
    BY <2>1, <2>2, ElementOfSeq
<1>6. /\ part \in Seq(Range(text)) /\ Len(part) = k
      /\ \A i \in 1 .. k : part[i] = text[so_far[n] + i]
  <2>1. /\ part \in Seq(Range(text))
        /\ Len(part) = IF so_far[n] + 1 <= so_far[n] + k
                       THEN so_far[n] + k - (so_far[n] + 1) + 1 ELSE 0
        /\ \A i \in 1 .. so_far[n] + k - (so_far[n] + 1) + 1 :
             part[i] = text[so_far[n] + 1 + i - 1]
    BY <1>4, <1>5, SubSeqProperties
  <2>2. so_far[n] + k - (so_far[n] + 1) + 1 = k /\ so_far[n] + 1 <= so_far[n] + k
        /\ \A i \in 1 .. k : so_far[n] + 1 + i - 1 = so_far[n] + i
    BY <1>4
  <2>3. QED
    BY <2>1, <2>2
<1>7. /\ put \in Seq(Range(text)) /\ Len(put) = so_far[n]
      /\ \A i \in 1 .. so_far[n] : put[i] = text[i]
  BY <1>1, RunningWrite DEF PutInv
<1> HIDE DEF part, put
<1>8. /\ put \o part \in Seq(Range(text)) /\ Len(put \o part) = so_far[n] + k
      /\ \A i \in 1 .. so_far[n] + k :
           (put \o part)[i] = IF i <= so_far[n] THEN put[i] ELSE part[i - so_far[n]]
  <2>1. put \in Seq(Range(text)) /\ part \in Seq(Range(text))
    BY <1>6, <1>7
  <2>2. /\ put \o part \in Seq(Range(text)) /\ Len(put \o part) = Len(put) + Len(part)
        /\ \A i \in 1 .. Len(put) + Len(part) :
             (put \o part)[i] = IF i <= Len(put) THEN put[i] ELSE part[i - Len(put)]
    BY <2>1, ConcatProperties
  <2>3. QED
    BY <1>6, <1>7, <2>2
<1>9. ASSUME NEW i \in 1 .. so_far[n] + k
      PROVE  (put \o part)[i] = text[i]
  <2>1. CASE i <= so_far[n]
    BY <1>4, <1>7, <1>8, <1>9, <2>1
  <2>2. CASE ~(i <= so_far[n])
    <3>1. i - so_far[n] \in 1 .. k /\ so_far[n] + (i - so_far[n]) = i
      BY <1>4, <1>9, <2>2
    <3>2. QED
      BY <1>6, <1>8, <1>9, <2>2, <3>1
  <2>3. QED
    BY <2>1, <2>2
<1>10. QED
  BY <1>3, <1>8, <1>9 DEF PutInv

(* A step of the write itself.                                             *)
LEMMA OwnWrites ==
  ASSUME Inv, TextInv, TextsSuffice', [Next]_vars, NEW n \in Writes,
         \/ WouldBlock(n) \/ Register(n) \/ Pend(n)
         \/ AdjustSize(n) \/ WriteSome(n) \/ WriteCompletes(n)
  PROVE  WriteInv(n)'
<1>1. C!Running(n)
  BY DEF WouldBlock, Register, Pend, Complete, WriteCompletes, AdjustSize, WriteSome,
         InLoop, C!LeafPends, C!LeafCompletes, C!JustCalled
<1>2. /\ WriteInv(n) /\ PutInv(n) /\ AdjustedInv(n) /\ Suffices(n)
      /\ so_far[n] \in 0 .. size[n] /\ size[n] \in 0 .. Size[n] /\ Size[n] \in Nat
  BY <1>1, RunningWrite
<1>3. /\ DOMAIN status = Nodes /\ DOMAIN size = Pipes /\ DOMAIN so_far = Pipes
      /\ DOMAIN buffer = DOMAIN Op /\ n \in Nodes /\ n \in Pipes /\ n \in DOMAIN Op
  BY WriteFacts DEF Inv, IInv, DomainInv
<1>4. arg' = arg
  BY DEF WouldBlock, Register, Pend, Complete, WriteCompletes, AdjustSize, WriteSome,
         treeVars, C!LeafPends, C!LeafCompletes, C!baseVars
<1>5. /\ Text(n)' = Text(n) /\ Suffices(n)'
      /\ \A k : IsStringSize(n, k)' <=> IsStringSize(n, k)
  BY <1>2, <1>4, TextRests DEF TextInv
<1>6. CASE WouldBlock(n) \/ Register(n)
  <2>1. UNCHANGED <<stack, status, so_far, size, stop_on_zero_byte, stream, buffer>>
    BY <1>6 DEF WouldBlock, Register, treeVars, pipeVars
  <2>2. C!Running(n)'
    BY <1>1, <2>1 DEF C!Running, C!Last
  <2>3. QED
    BY <2>1, <2>2, OtherWrites
<1>7. ASSUME UNCHANGED <<so_far, size, stop_on_zero_byte, stream>>
      PROVE  PutInv(n)' /\ AdjustedInv(n)'
  <2>1. IsStringSize(n, size[n]) => IsStringSize(n, size[n])'
    BY <1>5, <1>7 DEF IsStringSize
  <2>2. QED
    BY <1>2, <1>5, <1>7, <2>1 DEF PutInv, AdjustedInv
<1>8. CASE Pend(n) \/ WriteCompletes(n)
  <2>1. UNCHANGED <<so_far, size, stop_on_zero_byte, stream>>
    BY <1>8 DEF Pend, Complete, WriteCompletes, pipeVars
  <2>2. \E s \in {C!PENDING, C!COMPLETED} : status' = [status EXCEPT ![n] = s]
    BY <1>8
    DEF Pend, Complete, WriteCompletes, C!LeafPends, C!LeafCompletes, C!Return
  <2>3. status'[n] # "new"
    BY <1>3, <2>2 DEF C!PENDING, C!COMPLETED
  <2>4. status'[n] = C!COMPLETED => /\ so_far[n] = size[n] /\ n \notin stop_on_zero_byte
                                    /\ buffer'[n] = Text(n)
    <3>1. CASE Pend(n)
      BY <1>3, <3>1 DEF Pend, C!LeafPends, C!Return, C!PENDING, C!COMPLETED
    <3>2. CASE WriteCompletes(n)
      BY <1>2, <1>3, <3>2 DEF WriteCompletes, Complete, InLoop
    <3>3. QED
      BY <1>8, <3>1, <3>2
  <2>5. QED
    BY <1>5, <1>7, <2>1, <2>3, <2>4 DEF WriteInv, Begun
<1>9. CASE AdjustSize(n)
  <2>1. /\ n \in stop_on_zero_byte /\ size'[n] = StringSize(n)
        /\ stop_on_zero_byte' = stop_on_zero_byte \ {n}
        /\ UNCHANGED <<stack, status, so_far, stream>>
    BY <1>3, <1>9 DEF AdjustSize, treeVars, pipeVars
  <2>2. n \in CString /\ size[n] = Size[n] /\ so_far[n] = 0
    BY <1>2, <2>1 DEF AdjustedInv, Inv, IInv, DomainInv
  <2>3. IsStringSize(n, size[n])'
    <3>1. IsStringSize(n, StringSize(n))
      BY <1>2, <2>2, StringSizeIs
    <3>2. QED
      BY <1>5, <2>1, <3>1 DEF IsStringSize
  <2>4. AdjustedInv(n)'
    BY <2>1, <2>2, <2>3 DEF AdjustedInv
  <2>5. PutInv(n)'
    BY <1>2, <1>5, <2>1 DEF PutInv
  <2>6. Begun(n)'
    BY <1>1, <2>1 DEF Begun, C!Running, C!Last
  <2>7. status[n] # C!COMPLETED
    BY <1>2, <2>1 DEF WriteInv
  <2>8. QED
    BY <1>5, <2>1, <2>4, <2>5, <2>6, <2>7 DEF WriteInv
<1>10. CASE WriteSome(n)
  <2>1. /\ UNCHANGED <<stack, status, size, stop_on_zero_byte>>
        /\ n \notin stop_on_zero_byte
    BY <1>10 DEF WriteSome, InLoop, treeVars
  <2>2. PutInv(n)'
    BY <1>5, <1>10, WriteSomePuts
  <2>3. AdjustedInv(n)'
    <3>1. IsStringSize(n, size[n]) => IsStringSize(n, size[n])'
      BY <1>5, <2>1 DEF IsStringSize
    <3>2. QED
      BY <1>2, <2>1, <3>1 DEF AdjustedInv
  <2>4. Begun(n)'
    BY <1>1, <2>1 DEF Begun, C!Running, C!Last
  <2>5. status[n] # C!COMPLETED
    <3>1. so_far[n] # size[n]
      BY <1>2, <1>10 DEF WriteSome
    <3>2. QED
      BY <1>2, <3>1 DEF WriteInv
  <2>6. QED
    BY <1>5, <2>1, <2>2, <2>3, <2>4, <2>5 DEF WriteInv
<1>11. QED
  BY <1>6, <1>8, <1>9, <1>10

LEMMA TextStep ==
  ASSUME Inv, TextInv, TextsSuffice', [Next]_vars
  PROVE  TextInv'
<1>1. MadeInv'
  BY MadeStep DEF TextInv
<1>2. ASSUME NEW n \in Writes, ~C!Running(n)
      PROVE  WriteInv(n)'
  BY <1>2, OthersRest, OtherWrites, WriteFacts
<1>3. ASSUME NEW n \in Writes, C!Running(n)
      PROVE  WriteInv(n)'
  <2>1. n \in DOMAIN Op /\ n \in Pipes /\ n \notin Reads /\ n \notin LeavesDoing("apply")
        /\ Fd[n] \notin ReadFds /\ Fd[n] \in Fds
    BY <1>3, WriteFacts
  <2>2. ASSUME UNCHANGED <<stack, status, so_far, size, stop_on_zero_byte, buffer>>,
               stream'[Fd[n]] = stream[Fd[n]]
        PROVE  WriteInv(n)'
    <3>1. C!Running(n)'
      BY <1>3, <2>2 DEF C!Running, C!Last
    <3>2. QED
      BY <2>2, <3>1, OtherWrites
  <2>3. CASE ExecutorStep \/ ClientStep \/ UNCHANGED vars
    <3>1. UNCHANGED <<stack, status, so_far, size, stop_on_zero_byte, buffer, stream>>
      BY <2>3
      DEF ExecutorStep, ClientStep, vars, threadVars, treeVars, leafVars, pipeVars
    <3>2. QED
      BY <2>2, <3>1
  <2>4. ASSUME NEW fd \in Fds, PeerStep(fd)
        PROVE  WriteInv(n)'
    <3>1. UNCHANGED <<stack, status, so_far, size, stop_on_zero_byte, buffer>>
      BY <2>4 DEF PeerStep, threadVars, treeVars, leafVars
    <3>2. stream' = stream \/ (fd \in ReadFds /\ \E s : stream' = [stream EXCEPT ![fd] = s])
      BY <2>4 DEF PeerStep, PeerWrites, PeerCloses, PeerDrains
    <3>3. QED
      BY <2>1, <2>2, <3>1, <3>2 DEF Inv, IInv, DomainInv
  <2>5. ~PopAndProgress
    <3>1. stack # <<>>
      BY <1>3 DEF C!Running
    <3>2. QED
      BY <3>1 DEF PopAndProgress, E!PopAndProgress, Inv, SleepInv, CallInv
  <2>6. ~CombinatorStep
    BY <1>3, <2>1, CombinatorsOnly
  <2>7. ASSUME NEW m, \/ m \in Reads /\ (ReadSome(m) \/ ReadEof(m) \/ ReadCompletes(m))
                      \/ m \in LeavesDoing("apply") /\ Apply(m)
        PROVE  FALSE
    <3>1. C!Running(m)
      BY <2>7
      DEF ReadSome, ReadEof, ReadCompletes, Complete, Apply, InLoop, C!LeafCompletes,
          C!JustCalled
    <3>2. m = n
      BY <1>3, <3>1 DEF C!Running
    <3>3. QED
      BY <2>1, <2>7, <3>2
  <2>8. ASSUME NEW m, \/ WouldBlock(m) \/ Register(m) \/ Pend(m)
                      \/ AdjustSize(m) \/ WriteSome(m) \/ WriteCompletes(m)
        PROVE  WriteInv(n)'
    <3>1. C!Running(m)
      BY <2>8
      DEF WouldBlock, Register, Pend, Complete, WriteCompletes, AdjustSize, WriteSome,
          InLoop, C!LeafPends, C!JustCalled
    <3>2. m = n
      BY <1>3, <3>1 DEF C!Running
    <3>3. QED
      BY <2>8, <3>2, OwnWrites
  <2>9. CASE LeafStep
    BY <2>7, <2>8, <2>9 DEF LeafStep, Reads, ReadWouldBlock, WriteWouldBlock
  <2>10. QED
    BY <2>3, <2>4, <2>5, <2>6, <2>9 DEF Next, ThreadStep
<1>4. QED
  BY <1>1, <1>2, <1>3 DEF TextInv

LEMMA TextInit == Init => TextInv
<1> SUFFICES ASSUME Init PROVE TextInv
  OBVIOUS
<1>1. /\ \A n \in Nodes : ok[n] = NULL /\ arg[n] = NULL /\ status[n] = "new"
      /\ stack = <<>> /\ stop_on_zero_byte = CString
  BY DEF Init, C!Init
<1>2. ASSUME NEW n \in Writes
      PROVE  WriteInv(n)
  <2>1. /\ stream[Fd[n]] = <<>> /\ so_far[n] = 0 /\ size[n] = Size[n]
        /\ status[n] = "new" /\ arg[n] = NULL /\ ~C!Running(n)
    BY <1>1, WriteFacts DEF Init, C!Running
  <2>2. PutInv(n)
    BY <2>1, EmptySeq DEF PutInv
  <2>3. AdjustedInv(n)
    BY <1>1, <2>1 DEF AdjustedInv
  <2>4. QED
    BY <1>1, <2>1, <2>2, <2>3 DEF WriteInv, Begun, C!COMPLETED
<1>3. QED
  BY <1>1, <1>2 DEF TextInv, MadeInv

LEMMA PrefixOfText ==
  ASSUME NEW S, NEW s \in Seq(S), NEW T, NEW t \in Seq(T), Len(s) <= Len(t),
         \A i \in 1 .. Len(s) : s[i] = t[i]
  PROVE  IsPrefix(s, t)
<1>1. Len(s) \in Nat /\ Len(t) \in Nat
  BY LenProperties
<1> DEFINE R == S \union T
           a == SubSeq(s, 1, Len(s))
           b == SubSeq(t, 1, Len(s))
<1>2. /\ \A i \in 1 .. Len(s) : s[i] \in R
      /\ \A i \in 1 .. Len(s) : t[i] \in R
  <2>1. \A i \in 1 .. Len(s) : i \in 1 .. Len(t)
    BY <1>1
  <2>2. QED
    BY <2>1, ElementOfSeq
<1> HIDE DEF R
<1>3. /\ a \in Seq(R) /\ Len(a) = (IF 1 <= Len(s) THEN Len(s) - 1 + 1 ELSE 0)
      /\ \A i \in 1 .. Len(s) - 1 + 1 : a[i] = s[1 + i - 1]
      /\ b \in Seq(R) /\ Len(b) = (IF 1 <= Len(s) THEN Len(s) - 1 + 1 ELSE 0)
      /\ \A i \in 1 .. Len(s) - 1 + 1 : b[i] = t[1 + i - 1]
  BY <1>1, <1>2, SubSeqProperties, 1 \in Int, Len(s) \in Int
<1>4. Len(s) - 1 + 1 = Len(s) /\ \A i \in 1 .. Len(s) : 1 + i - 1 = i
  BY <1>1
<1>5. Len(a) = Len(s) /\ Len(b) = Len(s) /\ \A i \in 1 .. Len(s) : a[i] = b[i]
  BY <1>1, <1>3, <1>4
<1>6. a = b
  <2> HIDE DEF a, b
  <2>1. a \in [1 .. Len(s) -> R] /\ b \in [1 .. Len(s) -> R]
    BY <1>3, <1>5, LenProperties
  <2>2. QED
    BY <1>5, <2>1
<1>7. QED
  BY <1>6 DEF IsPrefix

(* However often a write is blocked and called again, it puts a part of    *)
(* its argument into the pipe, in order and nothing twice, up to the first *)
(* zero byte when it is created to stop there, and all of that part once   *)
(* it has completed (future_examples.h:57-58), and hands its argument on:  *)
(* in every forest and every behaviour in which each write is called with  *)
(* an argument that suffices, whether the client has given it or a future  *)
(* before it, another write included.                                      *)
THEOREM WriteIsExact == Spec /\ []TextsSuffice => []WritePutsTheText
<1>1. ASSUME Inv, TextInv, NEW n \in Writes
      PROVE  LET put == stream[Fd[n]]
             IN  /\ IsPrefix(put, Text(n)) /\ Len(put) <= Size[n]
                 /\ n \in CString => \A i \in 1 .. Len(put) - 1 : put[i] # Zero
                 /\ status[n] = C!COMPLETED =>
                      /\ \/ Len(put) = Size[n]
                         \/ n \in CString /\ put # <<>> /\ Last(put) = Zero
                      /\ buffer[n] = Text(n)
  <2> DEFINE put == stream[Fd[n]]
             text == Text(n)
  <2>1. /\ WriteInv(n) /\ PutInv(n) /\ AdjustedInv(n)
        /\ so_far[n] \in 0 .. size[n] /\ size[n] \in 0 .. Size[n] /\ Size[n] \in Nat
        /\ n \in stop_on_zero_byte => so_far[n] = 0
    BY <1>1, WriteFacts DEF TextInv, WriteInv, Inv, BoundsInv, SizeInv
  <2>2. /\ put \in Seq(Range(text)) /\ Len(put) = so_far[n]
        /\ \A i \in 1 .. so_far[n] : put[i] = text[i]
    BY <2>1 DEF PutInv
  <2>3. \E T : text \in Seq(T)
    <3>1. CASE Begun(n)
      BY <2>1, <3>1 DEF WriteInv, Suffices
    <3>2. CASE ~Begun(n)
      <4>1. text = <<>> \/ text = Given[n]
        BY <2>1, <3>2 DEF WriteInv, Text
      <4>2. Given[n] \in Seq(Range(Given[n]))
        BY WriteFacts, LeafAssumption
      <4>3. QED
        BY <4>1, <4>2, EmptySeq
    <3>3. QED
      BY <3>1, <3>2
  <2>4. Len(text) \in Nat /\ so_far[n] <= Len(text)
    <3>1. Len(text) \in Nat
      BY <2>3, LenProperties
    <3>2. CASE so_far[n] = 0
      BY <3>1, <3>2
    <3>3. CASE so_far[n] # 0
      <4>1. size[n] <= Len(text)
        BY <2>1, <3>3 DEF WriteInv, Suffices, AdjustedInv, IsStringSize
      <4>2. QED
        BY <2>1, <3>1, <4>1
    <3>4. QED
      BY <3>2, <3>3
  <2>5. IsPrefix(put, text)
    BY <2>2, <2>3, <2>4, PrefixOfText
  <2>6. Len(put) <= Size[n]
    BY <2>1, <2>2
  <2>7. ASSUME n \in CString, NEW i \in 1 .. Len(put) - 1
        PROVE  put[i] # Zero
    <3>1. n \notin stop_on_zero_byte
      BY <2>1, <2>2, <2>7
    <3>2. \A j \in 1 .. size[n] - 1 : text[j] # Zero
      BY <2>1, <2>7, <3>1 DEF AdjustedInv, IsStringSize
    <3>3. i \in 1 .. size[n] - 1 /\ i \in 1 .. so_far[n]
      BY <2>1, <2>2, <2>7
    <3>4. QED
      BY <2>2, <3>2, <3>3
  <2>8. ASSUME status[n] = C!COMPLETED
        PROVE  /\ \/ Len(put) = Size[n]
                  \/ n \in CString /\ put # <<>> /\ Last(put) = Zero
               /\ buffer[n] = Text(n)
    <3>1. so_far[n] = size[n] /\ n \notin stop_on_zero_byte /\ buffer[n] = Text(n)
      BY <2>1, <2>8 DEF WriteInv
    <3>2. size[n] = Size[n] \/ (n \in CString /\ size[n] > 0 /\ text[size[n]] = Zero)
      BY <2>1, <3>1 DEF AdjustedInv, IsStringSize
    <3>3. ASSUME size[n] > 0
          PROVE  put # <<>> /\ Last(put) = text[size[n]]
      <4>1. size[n] \in 1 .. so_far[n]
        BY <2>1, <3>1, <3>3
      <4>2. put[size[n]] = text[size[n]]
        BY <2>2, <4>1
      <4>3. Len(put) # 0
        BY <2>1, <2>2, <3>1, <3>3
      <4>4. QED
        BY <2>2, <3>1, <4>2, <4>3, EmptySeq DEF Last
    <3>4. QED
      BY <2>2, <3>1, <3>2, <3>3
  <2>9. QED
    BY <2>5, <2>6, <2>7, <2>8
<1>2. Inv /\ TextInv => WritePutsTheText
  BY <1>1 DEF WritePutsTheText, Writes
<1>3. Inv /\ TextInv /\ TextsSuffice' /\ [Next]_vars => TextInv'
  BY TextStep
<1>4. QED
  BY <1>2, <1>3, TextInit, InvHolds, PTL DEF Spec
=============================================================================
