----------------------- MODULE RuntimeRefinementProofs -----------------------
(***************************************************************************)
(* The runtime drives the trees as Combinators says and the futures as     *)
(* Executor says, in every forest: what is proved of each of the two holds *)
(* of them together.                                                       *)
(***************************************************************************)
EXTENDS RuntimeProofs

(* What is proved of the combinators, and of the executor.                 *)
P == INSTANCE CombinatorsContractProofs

X == INSTANCE ExecutorProofs WITH
       Futures <- Roots,
       Users   <- UsersOf,
       ready   <- Ready

-----------------------------------------------------------------------------
(***************************************************************************)
(* C and P are instances of the same definitions.                          *)
(***************************************************************************)

LEMMA SameSets ==
  /\ \A k : C!KindsAre(k) = P!KindsAre(k)
  /\ C!Leaves = P!Leaves /\ C!Inner = P!Inner
BY DEF C!KindsAre, P!KindsAre, C!Leaves, P!Leaves, C!Inner, P!Inner

LEMMA SameTrees == P!TreeAssumption /\ C!Subtree = P!Subtree
BY SameSets, TreesAssumption
DEF P!TreeAssumption, C!TreeAssumption, C!Subtree, P!Subtree

LEMMA SameCalls ==
  /\ C!PENDING = P!PENDING /\ C!COMPLETED = P!COMPLETED /\ C!FAILURE = P!FAILURE
  /\ \A n : C!Running(n) <=> P!Running(n)
  /\ \A n : C!JustCalled(n) <=> P!JustCalled(n)
  /\ \A n : C!Call(n) <=> P!Call(n)
  /\ \A n, s : C!Return(n, s) <=> P!Return(n, s)
  /\ \A n : C!MayBeCalled(n) <=> P!MayBeCalled(n)
  /\ \A n : C!Stuck(n) <=> P!Stuck(n)
  /\ UNCHANGED C!vars <=> UNCHANGED P!vars
BY SameTrees
DEF C!PENDING, C!COMPLETED, C!FAILURE, P!PENDING, P!COMPLETED, P!FAILURE,
    C!Running, P!Running, C!Last, P!Last, C!JustCalled, P!JustCalled,
    C!Call, P!Call, C!Return, P!Return, C!Front, P!Front,
    C!MayBeCalled, P!MayBeCalled, C!Stuck, P!Stuck,
    C!vars, P!vars, C!baseVars, P!baseVars

LEMMA SameLeaf ==
  /\ \A n : C!LeafPends(n) <=> P!LeafPends(n)
  /\ \A n : C!LeafCompletes(n) <=> P!LeafCompletes(n)
  /\ \A n : C!LeafFails(n) <=> P!LeafFails(n)
BY SameCalls
DEF C!LeafPends, P!LeafPends, C!LeafCompletes, P!LeafCompletes, C!LeafFails,
    P!LeafFails, C!baseVars, P!baseVars, C!LEAF_ERRCODE, P!LEAF_ERRCODE

LEMMA SameThen == \A k : C!ThenStep(k) <=> P!ThenStep(k)
BY
  DEF C!ThenStep, C!ThenProgress, C!ThenFut1Completes, C!ThenFut2Completes,
      C!ThenFails, C!ChildPends, C!Call, C!Return, C!JustCalled, C!HasReply,
      C!Front, C!Running, C!Last, C!ThenErrcode, C!baseVars,
      C!PENDING, C!COMPLETED, C!FAILURE, C!ERR_FUT1_FAILED, C!ERR_FUT2_FAILED,
      P!ThenStep, P!ThenProgress, P!ThenFut1Completes, P!ThenFut2Completes,
      P!ThenFails, P!ChildPends, P!Call, P!Return, P!JustCalled, P!HasReply,
      P!Front, P!Running, P!Last, P!ThenErrcode, P!baseVars,
      P!PENDING, P!COMPLETED, P!FAILURE, P!ERR_FUT1_FAILED, P!ERR_FUT2_FAILED

LEMMA SameJoin == \A k : C!JoinStep(k) <=> P!JoinStep(k)
BY
  DEF C!JoinStep, C!JoinProgress, C!JoinFut1Returns, C!JoinFut2Returns,
      C!JoinReturns, C!JoinErrcode, C!SavedOk, C!Call, C!Return, C!JustCalled,
      C!HasReply, C!Front, C!Running, C!Last, C!baseVars, C!PENDING, C!COMPLETED,
      C!FAILURE, C!SUCCESS, C!ERR_FUT1_FAILED, C!ERR_FUT2_FAILED,
      C!ERR_BOTH_FUTS_FAILED,
      P!JoinStep, P!JoinProgress, P!JoinFut1Returns, P!JoinFut2Returns,
      P!JoinReturns, P!JoinErrcode, P!SavedOk, P!Call, P!Return, P!JustCalled,
      P!HasReply, P!Front, P!Running, P!Last, P!baseVars, P!PENDING, P!COMPLETED,
      P!FAILURE, P!SUCCESS, P!ERR_FUT1_FAILED, P!ERR_FUT2_FAILED,
      P!ERR_BOTH_FUTS_FAILED

LEMMA SameSelect == \A k : C!SelectStep(k) <=> P!SelectStep(k)
BY
  DEF C!SelectStep, C!SelectProgress, C!SelectCompletes, C!SelectChildFails,
      C!ChildPends, C!SelectedOk, C!WhichFailed, C!Call, C!Return, C!JustCalled,
      C!HasReply, C!Front, C!Running, C!Last, C!baseVars, C!PENDING, C!COMPLETED,
      C!FAILURE, C!SELECT_ERRCODE,
      P!SelectStep, P!SelectProgress, P!SelectCompletes, P!SelectChildFails,
      P!ChildPends, P!SelectedOk, P!WhichFailed, P!Call, P!Return, P!JustCalled,
      P!HasReply, P!Front, P!Running, P!Last, P!baseVars, P!PENDING, P!COMPLETED,
      P!FAILURE, P!SELECT_ERRCODE

LEMMA SameInit == C!Init <=> P!Init
BY SameSets
DEF C!Init, P!Init, C!Created, P!Created, C!future_then, P!future_then,
    C!future_join, P!future_join, C!future_select, P!future_select,
    C!PENDING, P!PENDING, C!SUCCESS, P!SUCCESS

LEMMA SameNodeStep == C!NodeStep <=> P!NodeStep
BY SameSets, SameLeaf, SameThen, SameJoin, SameSelect
DEF C!NodeStep, P!NodeStep, C!LeafStep, P!LeafStep, C!LeafEnds, P!LeafEnds

LEMMA SameNext == C!Next <=> P!Next
BY SameNodeStep, SameCalls
DEF C!Next, P!Next, C!Progress, P!Progress, C!Resting, P!Resting, C!baseVars, P!baseVars

(* What Runtime's steps mean for the trees: their steps are those of       *)
(* Combinators.                                                            *)
TreeInv == P!IInv /\ P!WaitInv

LEMMA TreeInvStep ==
  ASSUME TreeInv, [C!Next]_(C!vars)
  PROVE  TreeInv'
<1>1. [P!Next]_(P!vars)
  BY SameNext, SameCalls
<1>2. P!IInv'
  BY <1>1, SameTrees, P!StepInv DEF TreeInv
<1>3. QED
  BY <1>1, <1>2, SameTrees, P!StepWaits DEF TreeInv

LEMMA TreeInvInit ==
  ASSUME Init
  PROVE  TreeInv
BY SameInit, SameTrees, P!InitInv, P!InitWaits DEF Init, TreeInv

-----------------------------------------------------------------------------
(***************************************************************************)
(* E and X are instances of the same definitions.                          *)
(***************************************************************************)

LEMMA FdFacts ==
  /\ \A n \in Pipes : n \in Nodes /\ Fd[n] \in Fds /\ UsersOf[Fd[n]] = {RootOf[n]}
  /\ \A fd \in Fds : \E n \in Pipes : fd = Fd[n]
  /\ UsersOf \in [Fds -> SUBSET Roots]
<1>1. \A n \in Pipes : n \in Nodes /\ Fd[n] \in Fds /\ RootOf[n] \in Roots
  BY TreeFacts
<1>2. \A fd \in Fds : \E n \in Pipes : fd = Fd[n]
  BY DEF Fds
<1>3. \A n \in Pipes : UsersOf[Fd[n]] = {RootOf[n]}
  BY <1>1, OwnFds DEF UsersOf
<1>4. UsersOf \in [Fds -> SUBSET Roots]
  BY <1>1 DEF UsersOf
<1>5. QED
  BY <1>1, <1>2, <1>3, <1>4

LEMMA ExecutorAssumptions ==
  X!CapacityAssumption /\ X!UsersAssumption /\ X!MaxEventsAssumption /\ X!NoneAssumption
BY FdFacts, ExecutorAssumption
DEF X!CapacityAssumption, X!UsersAssumption, X!MaxEventsAssumption, X!NoneAssumption,
    E!CapacityAssumption, E!MaxEventsAssumption, E!NoneAssumption

LEMMA SameQueue ==
  /\ \A f : E!ExecutorSpawn(f) <=> X!ExecutorSpawn(f)
  /\ \A f : E!WakerWake(f) <=> X!WakerWake(f)
  /\ E!Gone <=> X!Gone
  /\ E!Reportable = X!Reportable
  /\ UNCHANGED E!vars <=> UNCHANGED X!vars
BY DEF E!ExecutorSpawn, X!ExecutorSpawn, E!WakerWake, X!WakerWake, E!Pushed, X!Pushed,
       E!Full, X!Full, E!Holds, X!Holds, E!Range, X!Range, E!taskVars, X!taskVars,
       E!Gone, X!Gone, E!Reportable, X!Reportable, E!vars, X!vars

LEMMA SameThread ==
  /\ \A f : E!Spawn(f) <=> X!Spawn(f)
  /\ E!EnterRun <=> X!EnterRun
  /\ E!PopAndProgress <=> X!PopAndProgress
  /\ E!EnterPoll <=> X!EnterPoll
  /\ E!LeaveRun <=> X!LeaveRun
  /\ E!EndCall <=> X!EndCall
  /\ E!ReturnPending <=> X!ReturnPending
  /\ \A f : E!ReturnFinished(f) <=> X!ReturnFinished(f)
BY SameQueue
DEF E!Spawn, X!Spawn, E!EnterRun, X!EnterRun, E!PopAndProgress, X!PopAndProgress,
    E!EnterPoll, X!EnterPoll, E!LeaveRun, X!LeaveRun, E!EndCall, X!EndCall,
    E!ReturnPending, X!ReturnPending, E!ReturnFinished, X!ReturnFinished,
    E!Finish, X!Finish, E!taskVars, X!taskVars, E!callVars, X!callVars

LEMMA SameDescriptors ==
  /\ E!Yield <=> X!Yield
  /\ \A fd : E!Consume(fd) <=> X!Consume(fd)
  /\ \A fd : E!MioRegister(fd) <=> X!MioRegister(fd)
  /\ \A fd : E!MioUnregister(fd) <=> X!MioUnregister(fd)
  /\ \A fd : E!BecomeReady(fd) <=> X!BecomeReady(fd)
BY SameQueue
DEF E!Yield, X!Yield, E!Consume, X!Consume, E!MioRegister, X!MioRegister,
    E!MioUnregister, X!MioUnregister, E!BecomeReady, X!BecomeReady,
    E!taskVars, X!taskVars, E!callVars, X!callVars

LEMMA SamePoll ==
  /\ E!PollWait <=> X!PollWait
  /\ E!PollFail <=> X!PollFail
  /\ \A e : E!HandleEvent(e) <=> X!HandleEvent(e)
  /\ E!Destroy <=> X!Destroy
  /\ E!Terminated <=> X!Terminated
BY SameQueue
DEF E!PollWait, X!PollWait, E!PollFail, X!PollFail, E!HandleEvent, X!HandleEvent,
    E!Destroy, X!Destroy, E!Terminated, X!Terminated,
    E!Cardinality, X!Cardinality, E!IsFiniteSet, X!IsFiniteSet, E!taskVars, X!taskVars, E!callVars, X!callVars

LEMMA SameExecutor ==
  /\ E!Init <=> X!Init
  /\ E!Next <=> X!Next
<1>1. E!Init <=> X!Init
  BY DEF E!Init, X!Init
<1>2. E!Next <=> X!Next
  BY SameThread, SameDescriptors, SamePoll
  DEF E!Next, X!Next, E!ExecutorStep, X!ExecutorStep, E!FutureStep, X!FutureStep,
      E!OtherStep, X!OtherStep
<1>3. QED
  BY <1>1, <1>2
-----------------------------------------------------------------------------
(***************************************************************************)
(* The invariant of both together.                                         *)
(***************************************************************************)

(* A descriptor is in the epoll set for a leaf that waits, or is about to. *)
StaleInv ==
  \A n \in Pipes :
    registered[Fd[n]] # None => n \in due \/ (C!Running(n) /\ phase = "pend")

(* Whoever will be called may be, a root is known to the executor from its *)
(* first call on, and no leaf of the repository yields.                    *)
CallersInv ==
  /\ \A r \in X!Range(queue) : C!MayBeCalled(r)
  /\ \A e \in events : C!MayBeCalled(e[2])
  /\ \A r \in Roots : status[r] # "new" => r \in isActive \union finished
  /\ ~woken

Inv ==
  /\ IInv /\ BoundsInv /\ SleepInv
  /\ TreeInv /\ X!IInv
  /\ StaleInv /\ CallersInv /\ X!WaitsInv

LEMMA InvInit == Init => Inv
<1> SUFFICES ASSUME Init PROVE Inv
  OBVIOUS
<1>1. X!IInv
  BY ExecutorAssumptions, SameExecutor, X!InitInv DEF Init
<1>2. /\ queue = <<>> /\ events = {} /\ woken = FALSE /\ waits = {}
      /\ registered = [fd \in Fds |-> None]
      /\ status = [n \in Nodes |-> "new"]
  BY DEF Init, E!Init, C!Init
<1>3. X!Range(queue) = {}
  BY <1>2 DEF X!Range
<1>4. StaleInv /\ CallersInv /\ X!WaitsInv
  BY <1>2, <1>3, FdFacts, TreeFacts, SameCalls DEF StaleInv, CallersInv, X!WaitsInv
<1>5. QED
  BY <1>1, <1>4, InitInv, BoundsInit, SleepInit, TreeInvInit DEF Inv
-----------------------------------------------------------------------------
(***************************************************************************)
(* The trees.                                                              *)
(***************************************************************************)

LEMMA PopIsProgress ==
  ASSUME Inv, PopAndProgress
  PROVE  C!Progress
<1>1. /\ pc = "loop" /\ queue # <<>> /\ fut' = Head(queue)
      /\ UNCHANGED <<self, arg, ok, errcode, due>> /\ C!Call(fut')
  BY DEF PopAndProgress, E!PopAndProgress
<1>2. stack = <<>>
  BY <1>1 DEF Inv, SleepInv, CallInv
<1>3. queue \in Seq(Roots)
  BY DEF Inv, SleepInv, WakersInv
<1>4. fut' \in Roots /\ fut' \in X!Range(queue)
  BY <1>1, <1>3, HeadTailProperties, X!PoppedProperties, ExecutorAssumptions
<1>5. C!MayBeCalled(fut')
  BY <1>4 DEF Inv, CallersInv
<1>6. QED
  BY <1>1, <1>2, <1>4, <1>5 DEF C!Progress, C!baseVars

LEMMA TreeStep ==
  ASSUME Inv, [Next]_vars
  PROVE  [C!Next]_(C!vars)
<1>1. ASSUME UNCHANGED treeVars
      PROVE  UNCHANGED C!vars
  BY <1>1 DEF treeVars, C!vars, C!baseVars
<1>2. ASSUME NEW n \in DOMAIN Op
      PROVE  n \in C!Leaves
  BY <1>2, TreeFacts DEF C!Leaves, C!KindsAre
<1>3. CASE ExecutorStep \/ ClientStep \/ UNCHANGED vars \/ \E fd \in Fds : PeerStep(fd)
  BY <1>1, <1>3 DEF ExecutorStep, ClientStep, PeerStep, vars, threadVars
<1>4. CASE PopAndProgress
  BY <1>4, PopIsProgress DEF C!Next
<1>5. CASE CombinatorStep
  BY <1>5 DEF CombinatorStep, C!Next, C!NodeStep
<1>6. ASSUME NEW n \in Pipes,
             \/ WouldBlock(n) \/ Register(n) \/ ReadSome(n)
             \/ AdjustSize(n) \/ WriteSome(n)
      PROVE  UNCHANGED C!vars
  BY <1>1, <1>6 DEF WouldBlock, Register, ReadSome, AdjustSize, WriteSome
<1>7. ASSUME NEW n \in DOMAIN Op,
             Pend(n) \/ Complete(n) \/ ReadEof(n) \/ Apply(n)
      PROVE  C!Next
  BY <1>2, <1>7 DEF Pend, Complete, ReadEof, Apply, C!Next, C!NodeStep, C!LeafStep, C!LeafEnds
<1>8. CASE LeafStep
  BY <1>6, <1>7, <1>8, TreeFacts
  DEF LeafStep, Pipes, LeavesDoing, ReadWouldBlock, WriteWouldBlock,
      ReadCompletes, WriteCompletes
<1>9. QED
  BY <1>3, <1>4, <1>5, <1>8 DEF Next, ThreadStep

(* What happens in a call of progress() is about the future that runs.     *)
RunsOnly(k) ==
  /\ C!Running(k)
  /\ due' \ {k} = due \ {k}
  /\ \/ status' = status
     \/ \E s : status' = [status EXCEPT ![k] = s]

LEMMA CallMoves ==
  ASSUME CombinatorStep \/ LeafStep
  PROVE  \E k : RunsOnly(k)
<1>1. CASE CombinatorStep
  BY <1>1, CombinatorMoves, CombinatorStatus DEF CombinatorStep, RunsOnly
<1>2. ASSUME NEW n, WouldBlock(n) \/ Register(n) \/ ReadSome(n)
                    \/ AdjustSize(n) \/ WriteSome(n)
      PROVE  RunsOnly(n)
  BY <1>2
  DEF WouldBlock, Register, ReadSome, AdjustSize, WriteSome, InLoop, C!JustCalled,
      treeVars, RunsOnly
<1>3. ASSUME NEW n, Pend(n) \/ Complete(n) \/ ReadEof(n) \/ Apply(n)
      PROVE  RunsOnly(n)
  BY <1>3
  DEF Pend, Complete, ReadEof, Apply, C!LeafPends, C!LeafCompletes, C!LeafFails,
      C!Return, C!JustCalled, RunsOnly
<1>4. QED
  BY <1>1, <1>2, <1>3
  DEF LeafStep, ReadWouldBlock, WriteWouldBlock,
      ReadCompletes, WriteCompletes

(* The descendants of a root are in its tree.                              *)
LEMMA SubtreeInTree ==
  \A r \in Roots : /\ P!Subtree[r] \subseteq Tree(r)
                   /\ \A n \in Nodes : RootOf[n] = r => n \in P!Subtree[r]
<1>1. ASSUME NEW r \in Roots
      PROVE  P!Subtree[r] \subseteq Tree(r)
  <2>1. \A k \in Tree(r) \intersect P!Inner : {Fut1[k], Fut2[k]} \subseteq Tree(r)
    BY TreeFacts DEF Tree, P!Inner, P!Leaves, P!KindsAre
  <2>2. Tree(r) \in P!Closed /\ r \in Tree(r)
    BY <2>1, TreeFacts DEF Tree, P!Closed
  <2>3. QED
    BY <2>2, P!SubtreeIsLeast, SameTrees
<1>2. QED
  BY <1>1, TreesAssumption, SameTrees

(* The root is the last to return.                                         *)
LEMMA RootReturns ==
  ASSUME Inv, NEW k, C!Running(k), stack' = Front(stack), stack' = <<>>
  PROVE  k = fut
<1>1. stack \in Seq(Nodes) /\ stack # <<>> /\ stack[1] \in Roots
  BY DEF Inv, TreeInv, P!IInv, P!StackInv, C!Running
<1>2. Len(stack) \in Nat \ {0} /\ k = stack[Len(stack)]
  BY <1>1, EmptySeq DEF C!Running, C!Last
<1>3. Len(stack) = 1
  <2>1. Len(Front(stack)) = 0
    BY EmptySeq
  <2>2. Len(Front(stack)) = Len(stack) - 1
    <3>1. Front(stack) = P!Front(stack)
      BY DEF Front, P!Front
    <3>2. Len(P!Front(stack)) = Len(stack) - 1
      BY <1>1, P!FrontProperties, SameTrees
    <3>3. QED
      BY <3>1, <3>2
  <2>3. QED
    BY <1>2, <2>1, <2>2
<1>4. k \in Roots
  BY <1>1, <1>2, <1>3
<1>5. QED
  BY <1>4, RunningInTree, TreeFacts DEF Inv, SleepInv
-----------------------------------------------------------------------------
(***************************************************************************)
(* The epoll set.                                                          *)
(***************************************************************************)

LEMMA StaleStep ==
  ASSUME Inv, [Next]_vars
  PROVE  StaleInv'
<1>1. \A n \in Pipes : C!Running(n) => n = Last(stack)
  BY DEF C!Running, C!Last, Last
<1>2. ASSUME UNCHANGED <<registered, due, stack, phase>>
      PROVE  StaleInv'
  BY <1>2 DEF Inv, StaleInv, C!Running
<1>3. ASSUME UNCHANGED <<registered, due>>, phase # "pend"
      PROVE  StaleInv'
  BY <1>3 DEF Inv, StaleInv
<1>4. CASE E!PollFail \/ E!Destroy
  <2>1. registered' = [fd \in Fds |-> None]
    BY <1>4 DEF E!PollFail, E!Destroy
  <2>2. QED
    BY <2>1, FdFacts DEF StaleInv
<1>5. CASE ExecutorStep \/ ClientStep
  <2>1. UNCHANGED <<due, stack, phase>>
    BY <1>5 DEF ExecutorStep, ClientStep, treeVars, leafVars
  <2>2. CASE UNCHANGED registered
    BY <1>2, <2>1, <2>2
  <2>3. CASE ~UNCHANGED registered
    BY <1>4, <1>5, <2>3
    DEF ExecutorStep, ClientStep, E!EnterPoll, E!LeaveRun, E!PollWait, E!HandleEvent,
        E!Spawn, E!EnterRun, E!Terminated, E!vars
  <2>4. QED
    BY <2>2, <2>3
<1>6. CASE PopAndProgress
  <2>1. UNCHANGED <<registered, due>> /\ pc = "loop"
    BY <1>6 DEF PopAndProgress, E!PopAndProgress
  <2>2. phase # "pend"
    BY <2>1 DEF Inv, SleepInv, CallInv
  <2>3. QED
    BY <1>3, <2>1, <2>2
<1>7. CASE CombinatorStep
  <2>1. PICK k : C!Running(k) /\ k \in Nodes /\ Kind[k] # "leaf" /\ due' = due
    BY <1>7, CombinatorMoves DEF CombinatorStep
  <2>2. stack # <<>> /\ Last(stack) = k
    BY <2>1, RunningInTree DEF Inv, SleepInv
  <2>3. phase # "pend"
    BY <2>1, <2>2, TreeFacts DEF Inv, SleepInv, CallInv
  <2>4. QED
    BY <1>3, <1>7, <2>1, <2>3 DEF CombinatorStep
<1>8. ASSUME NEW n \in Pipes, WouldBlock(n) \/ ReadSome(n) \/ AdjustSize(n) \/ WriteSome(n)
      PROVE  StaleInv'
  <2>1. /\ UNCHANGED <<registered, due, stack>>
        /\ phase' = phase \/ phase = "io"
    BY <1>8 DEF WouldBlock, ReadSome, AdjustSize, WriteSome, execVars, treeVars, InLoop
  <2>2. QED
    BY <1>2, <1>3, <2>1
<1>9. ASSUME NEW n \in Pipes, Register(n)
      PROVE  StaleInv'
  <2>1. /\ C!Running(n) /\ phase = "register" /\ phase' = "pend"
        /\ UNCHANGED <<due, stack>>
        /\ registered' = [registered EXCEPT ![Fd[n]] = IF @ = None THEN fut ELSE @]
    BY <1>9 DEF Register, C!JustCalled, treeVars, E!MioRegister
  <2>2. C!Running(n)' /\ phase # "pend"
    BY <2>1 DEF C!Running
  <2>3. \A m \in Pipes : m # n => registered'[Fd[m]] = registered[Fd[m]]
    BY <2>1, FdFacts, OwnFds DEF Inv, SleepInv, WakersInv
  <2>4. QED
    BY <2>1, <2>2, <2>3 DEF Inv, StaleInv
<1>10. ASSUME NEW n \in Pipes, Pend(n)
       PROVE  StaleInv'
  BY <1>1, <1>10 DEF Pend, C!LeafPends, C!JustCalled, Inv, StaleInv
<1>11. ASSUME NEW n \in Pipes, Complete(n) \/ ReadEof(n)
       PROVE  StaleInv'
  <2>1. /\ phase = "io" /\ due' = due \ {n}
        /\ registered' = [registered EXCEPT ![Fd[n]] = None]
    BY <1>11 DEF Complete, ReadEof, InLoop, Unregister, C!LeafCompletes, C!LeafFails
  <2>2. \A m \in Pipes : m # n => registered'[Fd[m]] = registered[Fd[m]]
    BY <2>1, FdFacts, OwnFds DEF Inv, SleepInv, WakersInv
  <2>3. registered'[Fd[n]] = None
    BY <2>1, FdFacts DEF Inv, SleepInv, WakersInv
  <2>4. QED
    BY <2>1, <2>2, <2>3 DEF Inv, StaleInv
<1>12. ASSUME NEW n \in LeavesDoing("apply"), Apply(n)
       PROVE  StaleInv'
  <2>1. /\ registered' = registered /\ due' = due \ {n} /\ C!Running(n)
    BY <1>12 DEF Apply, C!LeafCompletes, C!JustCalled
  <2>2. n \notin Pipes /\ stack # <<>> /\ Last(stack) = n
    BY <1>12, <2>1, RunningInTree, TreeFacts DEF Inv, SleepInv
  <2>3. phase # "pend"
    BY <2>2 DEF Inv, SleepInv, CallInv
  <2>4. QED
    BY <2>1, <2>2, <2>3 DEF Inv, StaleInv
<1>13. CASE LeafStep
  BY <1>8, <1>9, <1>10, <1>11, <1>12, <1>13
  DEF LeafStep, Pipes, ReadWouldBlock, WriteWouldBlock,
      ReadCompletes, WriteCompletes
<1>14. CASE UNCHANGED threadVars
  BY <1>2, <1>14 DEF threadVars, execVars, treeVars, leafVars
<1>15. QED
  BY <1>5, <1>6, <1>7, <1>13, <1>14 DEF Next, ThreadStep, PeerStep, vars
-----------------------------------------------------------------------------
(***************************************************************************)
(* The executor.                                                           *)
(***************************************************************************)

(* The parts of the invariant that hold after a step by what was shown up  *)
(* to here.                                                                *)
NextInv == TreeInv /\ SleepInv /\ StaleInv

LEMMA NextInvStep ==
  ASSUME Inv, [Next]_vars
  PROVE  NextInv'
BY TreeStep, TreeInvStep, SleepStep, StaleStep DEF Inv, NextInv

(* When a root has ended, no leaf of its tree is in the epoll set.         *)
LEMMA EndedIsUnregistered ==
  ASSUME NextInv', fut \in Roots, stack' = <<>>, status'[fut] # C!PENDING,
         \A n \in Pipes : RootOf[n] # fut => registered'[Fd[n]] = registered[Fd[n]]
  PROVE  registered' = [fd \in Fds |-> IF fut \in UsersOf[fd] THEN None
                                                              ELSE registered[fd]]
<1>1. P!DueInv' /\ CallInv' /\ WakersInv' /\ StaleInv'
  BY DEF NextInv, TreeInv, P!WaitInv, SleepInv
<1>2. due' \intersect P!Subtree[fut] = {}
  <2>1. \A n : ~(P!InCall(n)')
    BY DEF P!InCall, P!Range
  <2>2. QED
    BY <1>1, <2>1, TreeFacts, SameCalls DEF P!DueInv
<1>3. ASSUME NEW fd \in Fds
      PROVE  registered'[fd] = IF fut \in UsersOf[fd] THEN None ELSE registered[fd]
  <2>1. PICK n \in Pipes : fd = Fd[n]
    BY FdFacts
  <2>2. UsersOf[fd] = {RootOf[n]} /\ n \in Nodes
    BY <2>1, FdFacts
  <2>3. CASE RootOf[n] = fut
    <3>1. n \notin due'
      BY <1>2, <2>2, <2>3, SubtreeInTree
    <3>2. phase' # "pend"
      BY <1>1 DEF CallInv
    <3>3. registered'[fd] = None
      BY <1>1, <2>1, <3>1, <3>2 DEF StaleInv
    <3>4. QED
      BY <2>2, <2>3, <3>3
  <2>4. CASE RootOf[n] # fut
    BY <2>1, <2>2, <2>4
  <2>5. QED
    BY <2>3, <2>4
<1>4. QED
  BY <1>1, <1>3 DEF WakersInv

(* The call goes on, ends with FUTURE_PENDING, or brings the root to its   *)
(* end.                                                                    *)
GoesOn(w) ==
  /\ waits' = w
  /\ UNCHANGED <<pc, queue, active, isActive, finished, fut, woken, events>>
  /\ stack' # <<>>

LeavesPending ==
  /\ E!EndCall
  /\ UNCHANGED <<active, isActive, finished>>
  /\ stack' = <<>> /\ status'[fut] = C!PENDING

LEMMA BackIs ==
  ASSUME Inv, NextInv', NEW k, C!Running(k), Ready' = Ready, NEW w, BackTo(w),
         \A n \in Pipes : RootOf[n] # fut => registered'[Fd[n]] = registered[Fd[n]]
  PROVE  \/ GoesOn(w)
         \/ LeavesPending
         \/ fut \in Roots /\ E!ReturnFinished(fut)
<1>1. fut \in Roots /\ pc = "progress" /\ ~woken
  BY RunningInTree DEF Inv, SleepInv, CallersInv
<1>2. CASE stack' = <<>> /\ status'[fut] # C!PENDING /\ E!Finish
  BY <1>1, <1>2, EndedIsUnregistered DEF E!ReturnFinished
<1>3. QED
  BY <1>2 DEF BackTo, GoesOn, LeavesPending

LEMMA CombinatorStepIs ==
  ASSUME Inv, NextInv', CombinatorStep
  PROVE  \/ UNCHANGED E!vars
         \/ LeavesPending /\ registered' = registered
         \/ fut \in Roots /\ E!ReturnFinished(fut)
<1>1. PICK k : C!Running(k)
  BY CombinatorMoves DEF CombinatorStep
<1>2. UNCHANGED <<stream, got, closed, registered>> /\ BackTo(waits)
  BY DEF CombinatorStep, pipeVars
<1>3. Ready' = Ready
  BY <1>2 DEF Ready, Level
<1>4. GoesOn(waits) => UNCHANGED E!vars
  BY <1>2, <1>3 DEF GoesOn, E!vars
<1>5. QED
  BY <1>1, <1>2, <1>3, <1>4, BackIs

LEMMA LeafReturnIs ==
  ASSUME Inv, NextInv', NEW n \in Pipes \union LeavesDoing("apply"),
         Pend(n) \/ Apply(n)
  PROVE  \/ UNCHANGED E!vars
         \/ LeavesPending /\ registered' = registered
         \/ fut \in Roots /\ E!ReturnFinished(fut)
<1>1. C!Running(n) /\ UNCHANGED <<stream, got, closed, registered>> /\ BackTo(waits)
  BY DEF Pend, Apply, C!LeafPends, C!LeafCompletes, C!JustCalled, pipeVars
<1>2. Ready' = Ready
  BY <1>1 DEF Ready, Level
<1>3. GoesOn(waits) => UNCHANGED E!vars
  BY <1>1, <1>2 DEF GoesOn, E!vars
<1>4. QED
  BY <1>1, <1>2, <1>3, BackIs

(* A pipe future that ends takes its descriptor out of the epoll set.      *)
LEMMA LeafEndIs ==
  ASSUME Inv, NextInv', NEW n \in Pipes, Complete(n) \/ ReadEof(n)
  PROVE  \/ UNCHANGED E!vars
         \/ E!MioUnregister(Fd[n])
         \/ fut \in Roots /\ E!ReturnFinished(fut)
<1>1. /\ C!Running(n) /\ UNCHANGED <<stream, got, closed>>
      /\ registered' = [registered EXCEPT ![Fd[n]] = None]
      /\ BackTo(waits \ {Fd[n]})
      /\ stack' = Front(stack)
      /\ \E s \in {C!COMPLETED, C!FAILURE} : status' = [status EXCEPT ![n] = s]
  BY DEF Complete, ReadEof, C!LeafCompletes, C!LeafFails, C!JustCalled, C!Return,
         C!Front, Front, Unregister, pipeVars
<1>2. Ready' = Ready
  BY <1>1 DEF Ready, Level
<1>3. /\ n \in Nodes /\ RootOf[n] = fut /\ fut \in Roots /\ pc = "progress"
      /\ registered \in [Fds -> Roots \union {None}] /\ Fd[n] \in Fds
      /\ UsersOf[Fd[n]] = {fut}
  BY <1>1, RunningInTree, FdFacts DEF Inv, SleepInv, WakersInv
<1>4. \A m \in Pipes : RootOf[m] # fut => registered'[Fd[m]] = registered[Fd[m]]
  BY <1>1, <1>3, OwnFds, FdFacts
<1>5. ~LeavesPending
  <2>1. SUFFICES ASSUME stack' = <<>>, status'[fut] = C!PENDING PROVE FALSE
    BY DEF LeavesPending
  <2>2. n = fut
    BY <1>1, <2>1, RootReturns
  <2>3. DOMAIN status = Nodes
    BY DEF Inv, IInv, DomainInv
  <2>4. QED
    BY <1>1, <1>3, <2>1, <2>2, <2>3 DEF C!PENDING, C!COMPLETED, C!FAILURE
<1>6. ASSUME GoesOn(waits \ {Fd[n]})
      PROVE  UNCHANGED E!vars \/ E!MioUnregister(Fd[n])
  <2>1. CASE registered[Fd[n]] = None
    <3>1. Fd[n] \notin waits
      BY <1>3, <2>1, TreeFacts DEF Inv, X!WaitsInv
    <3>2. registered' = registered
      BY <1>1, <1>3, <2>1
    <3>3. QED
      BY <1>2, <1>6, <3>1, <3>2 DEF GoesOn, E!vars
  <2>2. CASE registered[Fd[n]] # None
    BY <1>1, <1>2, <1>3, <1>6, <2>2 DEF GoesOn, E!MioUnregister, E!taskVars
  <2>3. QED
    BY <2>1, <2>2
<1>7. QED
  BY <1>1, <1>2, <1>4, <1>5, <1>6, BackIs

LEMMA RegisterIs ==
  ASSUME Inv, NEW n \in Pipes, Register(n)
  PROVE  E!MioRegister(Fd[n])
BY DEF Register

(* What read() takes away may be what made the descriptor ready.           *)
LEMMA ReadSomeIs ==
  ASSUME Inv, NEW n \in Reads, ReadSome(n)
  PROVE  UNCHANGED E!vars \/ E!Consume(Fd[n])
<1>1. PICK k \in 1 .. Level(Fd[n]) : got' = [got EXCEPT ![Fd[n]] = @ + k]
  BY DEF ReadSome
<1>2. /\ UNCHANGED <<pc, queue, active, isActive, finished, fut, woken, waits,
                     registered, events, stream, closed>>
      /\ C!Running(n) /\ n \in Pipes
  BY LeafFacts DEF ReadSome, execVars, InLoop, C!JustCalled
<1>3. /\ Fd[n] \in ReadFds /\ fut \in UsersOf[Fd[n]] /\ pc = "progress"
  BY <1>2, RunningInTree, FdFacts, LeafFacts DEF Inv, SleepInv
<1>4. Level(Fd[n]) > 0
  <2>1. PICK S : stream[Fd[n]] \in Seq(S) /\ got[Fd[n]] \in 0 .. Len(stream[Fd[n]])
    BY <1>2, FdFacts DEF Inv, BoundsInv, PipeInv
  <2>2. Len(stream[Fd[n]]) \in Nat
    BY <2>1, LenProperties
  <2>3. QED
    BY <1>1, <2>1, <2>2 DEF Level
<1>5. Fd[n] \in Ready
  BY <1>3, <1>4 DEF Ready
<1>6. \A fd \in ReadFds : fd # Fd[n] => (fd \in Ready' <=> fd \in Ready)
  BY <1>1, <1>2 DEF Ready, Level, Inv, IInv, DomainInv, ReadFds, Fds
<1>7. Ready' = Ready \/ Ready' = Ready \ {Fd[n]}
  <2>1. Ready \subseteq ReadFds /\ Ready' \subseteq ReadFds
    BY DEF Ready
  <2>2. QED
    BY <1>5, <1>6, <2>1
<1>8. QED
  BY <1>2, <1>3, <1>5, <1>7 DEF E!vars, E!Consume, E!taskVars, E!callVars

(* Steps that nobody waits for.                                            *)
LEMMA QuietStepIs ==
  ASSUME Inv, NEW n \in Pipes,
         \/ WouldBlock(n)
         \/ n \in LeavesDoing("write") /\ (AdjustSize(n) \/ WriteSome(n))
  PROVE  UNCHANGED E!vars
<1>1. UNCHANGED <<pc, queue, active, isActive, finished, fut, woken, waits,
                  registered, events>>
  BY DEF WouldBlock, AdjustSize, WriteSome, execVars
<1>2. CASE WouldBlock(n) \/ AdjustSize(n)
  BY <1>1, <1>2 DEF WouldBlock, AdjustSize, pipeVars, Ready, Level, E!vars
<1>3. CASE n \in LeavesDoing("write") /\ WriteSome(n)
  <2>1. /\ UNCHANGED <<got, closed>>
        /\ \E s : stream' = [stream EXCEPT ![Fd[n]] = s]
    BY <1>3 DEF WriteSome
  <2>2. Fd[n] \notin ReadFds
    BY <1>3, LeafFacts DEF ReadFds, Reads
  <2>3. \A fd \in ReadFds : stream'[fd] = stream[fd]
    BY <2>1, <2>2 DEF Inv, IInv, DomainInv, ReadFds, Fds, Pipes
  <2>4. Ready' = Ready
    BY <2>1, <2>3 DEF Ready, Level
  <2>5. QED
    BY <1>1, <2>4 DEF E!vars
<1>4. QED
  BY <1>2, <1>3

LEMMA PeerStepIs ==
  ASSUME Inv, NEW fd \in Fds, PeerStep(fd)
  PROVE  UNCHANGED E!vars \/ E!BecomeReady(fd)
<1>1. /\ UNCHANGED <<pc, queue, active, isActive, finished, fut, woken, waits,
                     registered, events>>
      /\ pc \notin {"destroyed", "exited"}
  BY DEF PeerStep, threadVars, execVars, E!Gone
<1>2. ASSUME Ready' = Ready \/ Ready' = Ready \union {fd}
      PROVE  UNCHANGED E!vars \/ E!BecomeReady(fd)
  BY <1>1, <1>2 DEF E!vars, E!BecomeReady, E!taskVars, E!callVars
<1>3. CASE PeerWrites(fd)
  <2>1. /\ fd \in ReadFds /\ UNCHANGED <<got, closed>>
        /\ \E byte : stream' = [stream EXCEPT ![fd] = Append(@, byte)]
    BY <1>3 DEF PeerWrites
  <2>2. PICK S : stream[fd] \in Seq(S) /\ got[fd] \in 0 .. Len(stream[fd])
    BY DEF Inv, BoundsInv, PipeInv
  <2>3. Level(fd)' > 0
    <3>1. PICK byte : stream'[fd] = Append(stream[fd], byte)
      BY <2>1 DEF Inv, IInv, DomainInv
    <3>2. stream[fd] \in Seq(S \union {byte})
      BY <2>2, SeqMonotonic
    <3>3. Len(stream'[fd]) = Len(stream[fd]) + 1
      BY <3>1, <3>2, AppendProperties
    <3>4. Len(stream[fd]) \in Nat
      BY <2>2, LenProperties
    <3>5. QED
      BY <2>1, <2>2, <3>3, <3>4 DEF Level
  <2>4. \A g \in ReadFds : g # fd => (g \in Ready' <=> g \in Ready)
    BY <2>1 DEF Ready, Level, Inv, IInv, DomainInv, ReadFds, Fds
  <2>5. fd \in Ready'
    BY <2>1, <2>3 DEF Ready
  <2>6. Ready \subseteq ReadFds /\ Ready' \subseteq ReadFds
    BY DEF Ready
  <2>7. QED
    BY <1>2, <2>4, <2>5, <2>6
<1>4. CASE PeerCloses(fd)
  <2>1. fd \in ReadFds /\ closed' = closed \union {fd} /\ UNCHANGED <<stream, got>>
    BY <1>4 DEF PeerCloses
  <2>2. Ready' = Ready \union {fd}
    BY <2>1 DEF Ready, Level
  <2>3. QED
    BY <1>2, <2>2
<1>5. CASE PeerDrains(fd)
  <2>1. /\ fd \notin ReadFds /\ UNCHANGED <<stream, closed>>
        /\ \E l : got' = [got EXCEPT ![fd] = l]
    BY <1>5 DEF PeerDrains, WriteFds
  <2>2. \A g \in ReadFds : got'[g] = got[g]
    BY <2>1 DEF Inv, IInv, DomainInv, ReadFds, Fds
  <2>3. Ready' = Ready
    BY <2>1, <2>2 DEF Ready, Level
  <2>4. QED
    BY <1>2, <2>3
<1>6. QED
  BY <1>3, <1>4, <1>5 DEF PeerStep

(* Every step is one of Executor, or the end of a call that leaves the     *)
(* root pending.                                                           *)
LEMMA StepIs ==
  ASSUME Inv, NextInv', [Next]_vars
  PROVE  [E!Next]_(E!vars) \/ (LeavesPending /\ registered' = registered)
<1>1. CASE ExecutorStep \/ ClientStep
  BY <1>1 DEF ExecutorStep, ClientStep, E!Next, E!ExecutorStep, E!OtherStep
<1>2. CASE PopAndProgress
  BY <1>2 DEF PopAndProgress, E!Next, E!ExecutorStep
<1>3. CASE CombinatorStep
  BY <1>3, CombinatorStepIs DEF E!Next, E!FutureStep
<1>4. CASE LeafStep
  <2>1. ASSUME NEW n \in Reads, ReadSome(n)
        PROVE  [E!Next]_(E!vars)
    BY <2>1, ReadSomeIs, LeafFacts, FdFacts DEF E!Next, E!FutureStep
  <2>2. ASSUME NEW n \in Pipes, Register(n)
        PROVE  [E!Next]_(E!vars)
    BY <2>2, RegisterIs, FdFacts DEF E!Next, E!FutureStep
  <2>3. ASSUME NEW n \in Pipes, Complete(n) \/ ReadEof(n)
        PROVE  [E!Next]_(E!vars)
    BY <2>3, LeafEndIs, FdFacts DEF E!Next, E!FutureStep
  <2>4. ASSUME NEW n \in Pipes \union LeavesDoing("apply"), Pend(n) \/ Apply(n)
        PROVE  [E!Next]_(E!vars) \/ (LeavesPending /\ registered' = registered)
    BY <2>4, LeafReturnIs DEF E!Next, E!FutureStep
  <2>5. QED
    BY <1>4, <2>1, <2>2, <2>3, <2>4, QuietStepIs
    DEF LeafStep, Reads, Pipes, ReadWouldBlock, WriteWouldBlock,
        ReadCompletes, WriteCompletes
<1>5. CASE \E fd \in Fds : PeerStep(fd)
  BY <1>5, PeerStepIs DEF E!Next, E!OtherStep
<1>6. CASE UNCHANGED vars
  BY <1>6 DEF vars, threadVars, execVars, pipeVars, E!vars, Ready, Level
<1>7. QED
  BY <1>1, <1>2, <1>3, <1>4, <1>5, <1>6 DEF Next, ThreadStep

LEMMA OnePrivateFd == X!PrivateFds
BY FdFacts DEF X!PrivateFds

LEMMA ExecutorInv ==
  ASSUME Inv, NextInv', [Next]_vars
  PROVE  X!IInv' /\ X!WaitsInv'
<1>1. X!IInv /\ X!WaitsInv
  BY DEF Inv
<1>2. CASE [E!Next]_(E!vars)
  <2>1. [X!Next]_(X!vars)
    BY <1>2, SameExecutor, SameQueue
  <2>2. QED
    BY <1>1, <2>1, ExecutorAssumptions, OnePrivateFd, X!StepInv, X!WaitsStep
<1>3. CASE LeavesPending /\ registered' = registered
  <2>1. X!EndCall /\ UNCHANGED <<active, isActive, finished, registered>>
    BY <1>3, SameThread DEF LeavesPending
  <2>2. X!IInv'
    BY <1>1, <2>1, ExecutorAssumptions, X!EndCallInv
  <2>3. X!WaitsInv'
    BY <2>1 DEF X!EndCall, X!WaitsInv
  <2>4. QED
    BY <2>2, <2>3
<1>4. QED
  BY <1>2, <1>3, StepIs

-----------------------------------------------------------------------------
(***************************************************************************)
(* Who will be called.                                                     *)
(***************************************************************************)

(* A registration is that of a root with a leaf that is due.               *)
LEMMA RegisteredMayBeCalled ==
  ASSUME Inv, pc # "progress", NEW fd \in Fds, registered[fd] # None
  PROVE  C!MayBeCalled(registered[fd])
<1>1. PICK n \in Pipes : fd = Fd[n]
  BY FdFacts
<1>2. stack = <<>>
  BY DEF Inv, SleepInv, CallInv
<1>3. n \in due /\ registered[fd] = RootOf[n]
  BY <1>1, <1>2 DEF Inv, StaleInv, SleepInv, EpollInv, C!Running
<1>4. /\ n \in Nodes /\ RootOf[n] \in Roots /\ RootOf[n] \in Nodes
      /\ n \in P!Subtree[RootOf[n]]
  BY FdFacts, TreeFacts, SubtreeInTree
<1>5. status[RootOf[n]] = C!PENDING
  <2>1. ~P!InCall(RootOf[n])
    BY <1>2 DEF P!InCall, P!Range
  <2>2. QED
    BY <1>3, <1>4, <2>1, SameCalls DEF Inv, TreeInv, P!WaitInv, P!DueInv
<1>6. QED
  BY <1>3, <1>4, <1>5, SameTrees DEF C!MayBeCalled

LEMMA MayStillBeCalled ==
  ASSUME UNCHANGED <<status, due>>, NEW r, C!MayBeCalled(r)
  PROVE  C!MayBeCalled(r)'
BY DEF C!MayBeCalled

(* Between two calls.                                                      *)
LEMMA IdleCallers ==
  ASSUME Inv, ExecutorStep \/ ClientStep \/ PopAndProgress
  PROVE  CallersInv'
<1>1. UNCHANGED <<status, due>>
  BY DEF ExecutorStep, ClientStep, PopAndProgress, treeVars, C!Call
<1>2. \A r : C!MayBeCalled(r) => C!MayBeCalled(r)'
  BY <1>1, MayStillBeCalled
<1>3. X!IInv /\ queue \in Seq(Roots) /\ Len(queue) <= MaxQueueSize
  BY DEF Inv, X!IInv, X!TypeOK
<1>4. CASE \E r \in Roots : E!Spawn(r)
  <2>1. PICK r \in Roots : X!Spawn(r)
    BY <1>4, SameThread
  <2>2. /\ r \notin isActive /\ r \notin finished
        /\ isActive' = isActive \union {r} /\ UNCHANGED <<finished, woken, events>>
        /\ X!ExecutorSpawn(r)
    BY <2>1 DEF X!Spawn, X!ExecutorSpawn, X!callVars
  <2>3. X!Range(queue') \subseteq X!Range(queue) \union {r}
    BY <1>3, <2>2, ExecutorAssumptions, X!SpawnProperties DEF X!IInv, X!QueuedInv
  <2>4. C!MayBeCalled(r)
    BY <2>2 DEF Inv, CallersInv, C!MayBeCalled
  <2>5. QED
    BY <1>1, <1>2, <2>2, <2>3, <2>4 DEF Inv, CallersInv
<1>5. CASE E!PopAndProgress
  <2>1. /\ queue # <<>> /\ queue' = Tail(queue)
        /\ UNCHANGED <<isActive, finished, woken, events>>
    BY <1>5 DEF E!PopAndProgress
  <2>2. X!Range(queue') \subseteq X!Range(queue)
    BY <1>3, <2>1, ExecutorAssumptions, X!PoppedProperties
  <2>3. QED
    BY <1>1, <1>2, <2>1, <2>2 DEF Inv, CallersInv
<1>6. CASE E!PollWait
  <2>1. /\ pc = "poll" /\ UNCHANGED <<queue, isActive, finished, woken>>
        /\ \E reported \in SUBSET E!Reportable :
             events' = {<<fd, registered[fd]>> : fd \in reported}
    BY <1>6 DEF E!PollWait, E!taskVars, E!callVars
  <2>2. \A fd \in E!Reportable : fd \in Fds /\ registered[fd] # None
    BY DEF E!Reportable, Ready, ReadFds, Fds, Pipes
  <2>3. \A e \in events' : C!MayBeCalled(e[2])
    BY <2>1, <2>2, RegisteredMayBeCalled
  <2>4. QED
    BY <1>1, <1>2, <2>1, <2>3 DEF Inv, CallersInv
<1>7. CASE \E e \in events : E!HandleEvent(e)
  <2>1. PICK e \in events : X!HandleEvent(e)
    BY <1>7, SamePoll
  <2>2. /\ events' \subseteq events /\ UNCHANGED <<finished, woken>>
        /\ e[2] \in isActive /\ X!WakerWake(e[2])
    BY <1>3, <2>1 DEF X!HandleEvent, X!callVars, X!IInv, X!WakersInv
  <2>3. isActive' = isActive /\ X!Range(queue') \subseteq X!Range(queue) \union {e[2]}
    BY <1>3, <2>2, ExecutorAssumptions, X!WakeProperties
  <2>4. QED
    BY <1>1, <1>2, <2>1, <2>2, <2>3 DEF Inv, CallersInv
<1>8. CASE E!PollFail \/ E!Destroy
  <2>1. queue' = <<>> /\ UNCHANGED <<isActive, finished, woken, events>>
    BY <1>8 DEF E!PollFail, E!Destroy, E!callVars
  <2>2. X!Range(queue') = {}
    BY <2>1 DEF X!Range
  <2>3. QED
    BY <1>1, <1>2, <2>1, <2>2 DEF Inv, CallersInv
<1>9. CASE E!EnterPoll \/ E!LeaveRun \/ E!EnterRun \/ E!Terminated
  <2>1. UNCHANGED <<queue, isActive, finished, woken, events>>
    BY <1>9 DEF E!EnterPoll, E!LeaveRun, E!EnterRun, E!Terminated, E!vars, E!taskVars,
                E!callVars
  <2>2. QED
    BY <1>1, <1>2, <2>1 DEF Inv, CallersInv, X!Range
<1>10. QED
  BY <1>4, <1>5, <1>6, <1>7, <1>8, <1>9 DEF ExecutorStep, ClientStep, PopAndProgress

(* During a call, of which only its own root learns.                       *)
LEMMA BusyCallers ==
  ASSUME Inv, NextInv', CombinatorStep \/ LeafStep
  PROVE  CallersInv'
<1>1. PICK k : RunsOnly(k)
  BY CallMoves
<1>2. /\ k \in Nodes /\ RootOf[k] = fut /\ fut \in Roots /\ pc = "progress"
      /\ fut \in isActive /\ fut \notin X!Range(queue) /\ events = {}
      /\ fut # None /\ DOMAIN status = Nodes
  BY <1>1, RunningInTree, TreeFacts
  DEF RunsOnly, Inv, SleepInv, CallersInv, X!IInv, X!CallInv, X!WakersInv, IInv, DomainInv
<1>3. /\ UNCHANGED <<queue, events>> /\ ~woken'
      /\ \/ UNCHANGED <<isActive, finished>>
         \/ isActive' = isActive \ {fut} /\ finished' = finished \union {fut}
  <2>1. CASE UNCHANGED E!vars
    BY <2>1 DEF E!vars, Inv, CallersInv
  <2>2. CASE LeavesPending
    BY <2>2 DEF LeavesPending, E!EndCall
  <2>3. CASE E!ReturnFinished(fut)
    BY <2>3 DEF E!ReturnFinished, E!Finish, E!EndCall
  <2>4. ASSUME NEW n \in Pipes, E!MioRegister(Fd[n]) \/ E!MioUnregister(Fd[n])
                                \/ E!Consume(Fd[n])
        PROVE  UNCHANGED <<queue, events, woken, isActive, finished>>
    BY <2>4 DEF E!MioRegister, E!MioUnregister, E!Consume, E!taskVars, E!callVars
  <2>5. ~woken
    BY DEF Inv, CallersInv
  <2>6. CASE CombinatorStep
    BY <2>1, <2>2, <2>3, <2>6, CombinatorStepIs
  <2>7. CASE \E n \in Pipes \union LeavesDoing("apply") : Pend(n) \/ Apply(n)
    BY <2>1, <2>2, <2>3, <2>7, LeafReturnIs
  <2>8. CASE \E n \in Pipes : Complete(n) \/ ReadEof(n)
    BY <2>1, <2>3, <2>4, <2>5, <2>8, LeafEndIs
  <2>9. CASE \/ \E n \in Pipes : Register(n) \/ WouldBlock(n)
             \/ \E n \in Reads : ReadSome(n)
             \/ \E n \in LeavesDoing("write") : AdjustSize(n) \/ WriteSome(n)
    BY <2>1, <2>4, <2>5, <2>9, RegisterIs, ReadSomeIs, QuietStepIs, LeafFacts
  <2>10. QED
    BY <2>6, <2>7, <2>8, <2>9
    DEF LeafStep, Reads, Pipes, ReadWouldBlock, WriteWouldBlock,
        ReadCompletes, WriteCompletes
<1>4. ASSUME NEW r \in Roots, r # fut
      PROVE  status'[r] = status[r] /\ (C!MayBeCalled(r) => C!MayBeCalled(r)')
  <2>1. r \in Nodes /\ r # k
    BY <1>2, <1>4, TreeFacts
  <2>2. k \notin P!Subtree[r]
    BY <1>2, <1>4, SubtreeInTree DEF Tree
  <2>3. status'[r] = status[r]
    BY <1>1, <1>2, <2>1 DEF RunsOnly
  <2>4. due' \intersect C!Subtree[r] = due \intersect C!Subtree[r]
    BY <1>1, <2>2, SameTrees DEF RunsOnly
  <2>5. QED
    BY <2>3, <2>4 DEF C!MayBeCalled
<1>5. X!Range(queue) \subseteq Roots
  BY DEF Inv, X!IInv, X!QueuedInv, X!TypeOK
<1>6. QED
  BY <1>2, <1>3, <1>4, <1>5 DEF Inv, CallersInv, X!Range

LEMMA InvStep == Inv /\ [Next]_vars => Inv'
<1> SUFFICES ASSUME Inv, [Next]_vars PROVE Inv'
  OBVIOUS
<1>1. NextInv'
  BY NextInvStep
<1>2. IInv' /\ BoundsInv'
  BY StepInv, BoundsStep DEF Inv
<1>3. X!IInv' /\ X!WaitsInv'
  BY <1>1, ExecutorInv
<1>4. CallersInv'
  <2>1. CASE ExecutorStep \/ ClientStep \/ PopAndProgress
    BY <2>1, IdleCallers
  <2>2. CASE CombinatorStep \/ LeafStep
    BY <1>1, <2>2, BusyCallers
  <2>3. CASE UNCHANGED threadVars
    BY <2>3 DEF threadVars, execVars, treeVars, Inv, CallersInv, C!MayBeCalled, X!Range
  <2>4. QED
    BY <2>1, <2>2, <2>3 DEF Next, ThreadStep, PeerStep, vars
<1>5. QED
  BY <1>1, <1>2, <1>3, <1>4 DEF Inv, NextInv

LEMMA InvHolds == Spec => []Inv
BY InvInit, InvStep, PTL DEF Spec

-----------------------------------------------------------------------------
(***************************************************************************)
(* What follows.                                                           *)
(***************************************************************************)

(* The epoll set points to a root only while the root is active and a leaf *)
(* of it waits (or is about to), so that a root which has ended may be     *)
(* freed: whatever its tree, its pipes and the schedule.                   *)
THEOREM NothingStaleIsRegistered == Spec => []NoStaleRegistration
<1>1. ASSUME Inv, NEW fd \in Fds, registered[fd] # None
      PROVE  \E n \in Pipes : /\ Fd[n] = fd
                              /\ n \in due \/ (C!Running(n) /\ phase = "pend")
                              /\ registered[fd] = RootOf[n]
                              /\ RootOf[n] \in isActive
  <2>1. PICK n \in Pipes : fd = Fd[n]
    BY FdFacts
  <2>2. registered[fd] = RootOf[n]
    BY <1>1, <2>1 DEF Inv, SleepInv, EpollInv
  <2>3. QED
    BY <1>1, <2>1, <2>2 DEF Inv, StaleInv, X!IInv, X!WakersInv
<1>2. Inv => NoStaleRegistration
  BY <1>1 DEF NoStaleRegistration
<1>3. QED
  BY <1>2, InvHolds, PTL

(* Seen from the combinators, the executor calls a root only when it is    *)
(* new or one of its leaves is due, one call at a time, and never after    *)
(* its end (executor.h:11-14).                                             *)
THEOREM DrivesTheTrees == Spec => ImplementsCombinators
<1>1. Init => C!Init
  BY DEF Init
<1>2. Inv /\ [Next]_vars => [C!Next]_(C!vars)
  BY TreeStep
<1>3. QED
  BY <1>1, <1>2, InvHolds, PTL DEF Spec, ImplementsCombinators, C!Spec

(* So every future of every tree meets the contract of ProgressFn          *)
(* (future.h:18-28) in the runtime too.                                    *)
THEOREM RunsKeepTheContract == Spec => P!MeetsContract
<1>1. Spec => P!Spec
  <2>1. C!Init => P!Init
    BY SameInit
  <2>2. [C!Next]_(C!vars) => [P!Next]_(P!vars)
    BY SameNext, SameCalls
  <2>3. QED
    BY <2>1, <2>2, DrivesTheTrees, PTL DEF ImplementsCombinators, C!Spec, P!Spec
<1>2. QED
  BY <1>1, SameTrees, P!MeetsContractHolds, PTL
=============================================================================
