------------------------ MODULE RuntimeExecutorProofs ------------------------
(***************************************************************************)
(* Seen from the executor, the trees are futures that keep its contract:   *)
(* a root that answers FUTURE_PENDING has registered a descriptor in the   *)
(* same call, unless a select in it is stuck.                              *)
(***************************************************************************)
EXTENDS RuntimeRefinementProofs

(* In the call that goes on, a leaf below m has registered its descriptor. *)
PendsOn(m) == \E x \in Pipes : x \in P!Subtree[m] /\ Fd[x] \in waits

(* Whoever has answered FUTURE_PENDING pends on a descriptor.              *)
ReplyPends == \A m \in Nodes : reply = <<m, P!PENDING>> => PendsOn(m)

(* So does fut1 of a join, while fut2 of the join has its turn.            *)
Fut2HasItsTurn(j) == P!InCall(Fut2[j]) \/ \E s : reply = <<Fut2[j], s>>

JoinPends ==
  \A j \in P!KindsAre("join") :
    Fut2HasItsTurn(j) /\ self[j].fut1_completed = P!PENDING => PendsOn(Fut1[j])

(* And a pipe future that is going to answer.                              *)
LeafPends == \A n \in Pipes : P!Running(n) /\ phase = "pend" => Fd[n] \in waits

PendsInv == ReplyPends /\ JoinPends /\ LeafPends

NothingStuck == \A n \in Nodes : ~C!Stuck(n)

-----------------------------------------------------------------------------
(***************************************************************************)
(* Calls and returns.                                                      *)
(***************************************************************************)

LEMMA PendsBelow ==
  ASSUME NEW k \in P!Inner, NEW c \in {Fut1[k], Fut2[k]}, PendsOn(c)
  PROVE  PendsOn(k)
BY SameTrees, P!SubtreeFacts DEF PendsOn

LEMMA Joins == \A j \in P!KindsAre("join") : j \in Nodes /\ j \in P!Inner /\ Kind[j] = "join"
BY DEF P!KindsAre, P!Inner, P!Leaves

(* The two children of a node are not in call at the same time.            *)
LEMMA OneChildInCall ==
  ASSUME P!StackInv, NEW k \in P!Inner, P!InCall(Fut2[k])
  PROVE  ~P!InCall(Fut1[k])
<1> SUFFICES ASSUME P!InCall(Fut1[k])
             PROVE  FALSE
  OBVIOUS
<1>1. /\ stack \in Seq(Nodes) /\ Len(stack) \in Nat /\ DOMAIN stack = 1 .. Len(stack)
      /\ k \in Nodes /\ P!IsChild(k, Fut1[k]) /\ P!IsChild(k, Fut2[k])
      /\ Fut1[k] \in Nodes \ Roots /\ Fut2[k] \in Nodes \ Roots /\ Fut1[k] # Fut2[k]
  BY LenProperties, SameTrees, P!OneParent DEF P!StackInv, P!IsChild
<1>2. ASSUME NEW c \in {Fut1[k], Fut2[k]}
      PROVE  \E i \in 1 .. Len(stack) : /\ i + 1 \in 1 .. Len(stack)
                                        /\ stack[i] = k /\ stack[i + 1] = c
  <2>1. PICK i \in 1 .. Len(stack) : c = stack[i]
    BY <1>1, <1>2 DEF P!InCall, P!Range
  <2>2. stack # <<>> /\ i # 1
    BY <1>1, <2>1, EmptySeq DEF P!StackInv
  <2>3. i - 1 \in 1 .. Len(stack) - 1 /\ i - 1 \in 1 .. Len(stack) /\ (i - 1) + 1 = i
    BY <1>1, <2>1, <2>2
  <2>4. P!IsChild(stack[i - 1], c) /\ stack[i - 1] \in Nodes
    BY <1>1, <2>1, <2>3, ElementOfSeq DEF P!StackInv
  <2>5. stack[i - 1] = k
    BY <1>1, <2>4, SameTrees, P!OneParent
  <2>6. QED
    BY <2>1, <2>3, <2>5
<1>3. PICK i \in 1 .. Len(stack) : stack[i] = k /\ stack[i + 1] = Fut1[k]
  BY <1>2
<1>4. PICK j \in 1 .. Len(stack) : stack[j] = k /\ stack[j + 1] = Fut2[k]
  BY <1>2
<1>5. i = j
  BY <1>3, <1>4 DEF P!StackInv
<1>6. QED
  BY <1>1, <1>3, <1>4, <1>5

LEMMA CallPends ==
  ASSUME P!IInv, PendsInv, NEW k \in P!Inner, P!Running(k),
         NEW m \in {Fut1[k], Fut2[k]}, P!Call(m),
         \A j \in Nodes \ {k} : self'[j] = self[j],
         m = Fut2[k] /\ Kind[k] = "join" /\ self'[k].fut1_completed = P!PENDING
           => PendsOn(Fut1[k]),
         waits' = waits, phase' # "pend"
  PROVE  PendsInv'
<1>1. /\ k \in Nodes /\ m \in Nodes /\ P!IsChild(k, m)
      /\ ~P!InCall(Fut1[k]) /\ ~P!InCall(Fut2[k])
      /\ Fut1[k] # Fut2[k]
  BY SameTrees, P!RunningNode, P!OneParent
<1>2. reply' = <<>> /\ P!Range(stack') = P!Range(stack) \union {m}
  BY <1>1, SameTrees, P!CallStack DEF P!IInv, P!Call
<1>3. ReplyPends' /\ LeafPends'
  BY <1>2 DEF ReplyPends, LeafPends
<1>4. ASSUME NEW j \in P!KindsAre("join"), Fut2HasItsTurn(j)',
             self'[j].fut1_completed = P!PENDING
      PROVE  PendsOn(Fut1[j])
  <2>1. P!InCall(Fut2[j]) \/ Fut2[j] = m
    BY <1>2, <1>4 DEF Fut2HasItsTurn, P!InCall
  <2>2. CASE P!InCall(Fut2[j])
    <3>1. j # k /\ self'[j] = self[j]
      BY <1>1, <2>2, Joins
    <3>2. QED
      BY <1>4, <2>2, <3>1 DEF PendsInv, JoinPends, Fut2HasItsTurn
  <2>3. CASE Fut2[j] = m
    <3>1. P!IsChild(j, m)
      BY <2>3, Joins DEF P!IsChild
    <3>2. j = k
      BY <1>1, <3>1, Joins, SameTrees, P!OneParent
    <3>3. QED
      BY <1>4, <2>3, <3>2, Joins
  <2>4. QED
    BY <2>1, <2>2, <2>3
<1>5. JoinPends'
  BY <1>4 DEF JoinPends, PendsOn
<1>6. QED
  BY <1>3, <1>5 DEF PendsInv

LEMMA ReturnPends ==
  ASSUME P!IInv, PendsInv, NEW k \in Nodes, P!Running(k), NEW s, P!Return(k, s),
         \A j \in Nodes \ {k} : self'[j] = self[j],
         s = P!PENDING => PendsOn(k) /\ (stack' # <<>> => waits' = waits),
         stack' # <<>> =>
           \A x \in Pipes : x # k /\ Fd[x] \in waits => Fd[x] \in waits',
         phase' # "pend"
  PROVE  PendsInv'
<1>1. /\ P!Range(stack') = P!Range(stack) \ {k} /\ P!InCall(k)
      /\ stack' # <<>> => k \notin Roots
      /\ stack' = <<>> => k \in Roots
      /\ P!StackInv
  BY SameTrees, P!ReturnStack, P!RunningNode DEF P!IInv, P!Return
<1>2. LeafPends'
  BY DEF LeafPends
<1>3. CASE stack' = <<>>
  <2>1. reply' = <<>> /\ P!Range(stack') = {}
    BY <1>1, <1>3 DEF P!Return, P!Range
  <2>2. ReplyPends' /\ JoinPends'
    BY <2>1 DEF ReplyPends, JoinPends, Fut2HasItsTurn, P!InCall
  <2>3. QED
    BY <1>2, <2>2 DEF PendsInv
<1>4. CASE stack' # <<>>
  <2>1. reply' = <<k, s>>
    BY <1>1, <1>4 DEF P!Return
  <2>2. ReplyPends'
    BY <1>4, <2>1 DEF ReplyPends, PendsOn
  <2>3. ASSUME NEW j \in P!KindsAre("join"), Fut2HasItsTurn(j)',
               self'[j].fut1_completed = P!PENDING
        PROVE  PendsOn(Fut1[j])'
    <3>1. P!InCall(Fut2[j])
      BY <1>1, <2>1, <2>3 DEF Fut2HasItsTurn, P!InCall
    <3>2. j # k /\ j \in Nodes /\ Fut1[j] \in Nodes
      BY <3>1, Joins, SameTrees, P!RunningNode, P!OneParent
    <3>3. PendsOn(Fut1[j])
      BY <2>3, <3>1, <3>2 DEF PendsInv, JoinPends, Fut2HasItsTurn
    <3>4. PICK x \in Pipes : x \in P!Subtree[Fut1[j]] /\ Fd[x] \in waits
      BY <3>3 DEF PendsOn
    <3>5. ~P!InCall(Fut1[j])
      BY <1>1, <3>1, Joins, OneChildInCall
    <3>6. x # k
      BY <1>1, <3>2, <3>4, <3>5, SameTrees, P!NothingBelowInCall
    <3>7. QED
      BY <1>4, <3>4, <3>6 DEF PendsOn
  <2>4. JoinPends'
    BY <2>3 DEF JoinPends
  <2>5. QED
    BY <1>2, <2>2, <2>4 DEF PendsInv
<1>5. QED
  BY <1>3, <1>4

-----------------------------------------------------------------------------
(***************************************************************************)
(* The combinators.                                                        *)
(***************************************************************************)

(* A combinator passes a call on, or returns; it pends when a child does.  *)
CallsOn(k) ==
  \E m \in {Fut1[k], Fut2[k]} :
    /\ P!Call(m)
    /\ m = Fut2[k] /\ Kind[k] = "join" /\ self'[k].fut1_completed = P!PENDING
         => PendsOn(Fut1[k])

ReturnsWith(k) ==
  \E s \in {P!PENDING, P!COMPLETED, P!FAILURE} :
    P!Return(k, s) /\ (s = P!PENDING => PendsOn(k))

Moves(k) ==
  /\ k \in P!Inner /\ P!Running(k)
  /\ \A j \in Nodes \ {k} : self'[j] = self[j]
  /\ CallsOn(k) \/ ReturnsWith(k)

LEMMA ThenMoves ==
  ASSUME P!IInv, PendsInv, NEW k \in P!KindsAre("then"), P!ThenStep(k)
  PROVE  Moves(k)
<1>1. k \in Nodes /\ k \in P!Inner /\ Kind[k] = "then"
  BY DEF P!KindsAre, P!Inner, P!Leaves
<1>2. /\ P!Running(k)
      /\ \A j \in Nodes \ {k} : self'[j] = self[j]
  BY DEF P!ThenStep, P!ThenProgress, P!ThenFut1Completes, P!ThenFut2Completes,
         P!ThenFails, P!ChildPends, P!JustCalled, P!HasReply, P!IInv, P!BaseInv
<1>3. CASE P!ThenProgress(k) \/ P!ThenFut1Completes(k)
  <2>1. \E m \in {Fut1[k], Fut2[k]} : P!Call(m)
    BY <1>3 DEF P!ThenProgress, P!ThenFut1Completes
  <2>2. QED
    BY <1>1, <1>2, <2>1 DEF Moves, CallsOn
<1>4. CASE P!ThenFut2Completes(k) \/ P!ThenFails(k)
  BY <1>1, <1>2, <1>4
  DEF P!ThenFut2Completes, P!ThenFails, Moves, ReturnsWith, P!PENDING, P!COMPLETED,
      P!FAILURE
<1>5. CASE P!ChildPends(k)
  <2>1. PICK m \in {Fut1[k], Fut2[k]} : P!HasReply(k, m, P!PENDING)
    BY <1>5 DEF P!ChildPends
  <2>2. PendsOn(m) /\ P!Return(k, P!PENDING)
    BY <1>1, <1>5, <2>1, SameTrees, P!OneParent
    DEF P!ChildPends, P!HasReply, PendsInv, ReplyPends
  <2>3. PendsOn(k)
    BY <1>1, <2>2, PendsBelow
  <2>4. QED
    BY <1>1, <1>2, <2>2, <2>3 DEF Moves, ReturnsWith
<1>6. QED
  BY <1>3, <1>4, <1>5 DEF P!ThenStep

LEMMA SelectMoves ==
  ASSUME P!IInv, PendsInv, NothingStuck, NEW k \in P!KindsAre("select"), P!SelectStep(k)
  PROVE  Moves(k)
<1>1. k \in Nodes /\ k \in P!Inner /\ Kind[k] = "select"
  BY DEF P!KindsAre, P!Inner, P!Leaves
<1>2. /\ P!Running(k) /\ P!SelectInv(k) /\ ~P!Stuck(k)
      /\ \A j \in Nodes \ {k} : self'[j] = self[j]
      /\ \A m, s : P!HasReply(k, m, s) => s = status[m]
      /\ status[k] \in {"new", P!PENDING}
  <2>1. /\ P!Running(k) /\ P!SelectInv(k) /\ ~P!Stuck(k)
        /\ \A j \in Nodes \ {k} : self'[j] = self[j]
    BY <1>1, SameCalls
    DEF P!SelectStep, P!SelectProgress, P!SelectCompletes, P!SelectChildFails,
        P!ChildPends, P!JustCalled, P!HasReply, P!IInv, P!BaseInv, P!NodeInv,
        NothingStuck
  <2>2. QED
    BY <1>1, <2>1, SameTrees, P!RunningNode
<1>3. CASE P!SelectProgress(k)
  <2>1. self[k].which_completed # "failedBoth"
    BY <1>1, <1>2 DEF P!SelectInv, P!Stuck
  <2>2. \E m \in {Fut1[k], Fut2[k]} : P!Call(m)
    BY <1>3, <2>1 DEF P!SelectProgress
  <2>3. QED
    BY <1>1, <1>2, <2>2 DEF Moves, CallsOn
<1>4. CASE P!SelectCompletes(k)
  BY <1>1, <1>2, <1>4
  DEF P!SelectCompletes, Moves, ReturnsWith, P!PENDING, P!COMPLETED
<1>5. CASE P!SelectChildFails(k)
  <2>1. PICK m \in {Fut1[k], Fut2[k]} :
          /\ P!HasReply(k, m, P!FAILURE)
          /\ IF m = Fut1[k] THEN P!Call(Fut2[k]) ELSE P!Return(k, P!PENDING)
    BY <1>5 DEF P!SelectChildFails
  <2>2. CASE m = Fut1[k]
    BY <1>1, <1>2, <2>1, <2>2 DEF Moves, CallsOn
  <2>3. CASE m # Fut1[k]
    <3>1. P!Stuck(k)
      BY <1>1, <1>2, <2>1, <2>3
      DEF P!SelectInv, P!Stuck, P!HasReply, P!PENDING, P!COMPLETED, P!FAILURE
    <3>2. QED
      BY <1>2, <3>1
  <2>4. QED
    BY <2>2, <2>3
<1>6. CASE P!ChildPends(k)
  <2>1. PICK m \in {Fut1[k], Fut2[k]} : P!HasReply(k, m, P!PENDING)
    BY <1>6 DEF P!ChildPends
  <2>2. PendsOn(m) /\ P!Return(k, P!PENDING)
    BY <1>1, <1>6, <2>1, SameTrees, P!OneParent
    DEF P!ChildPends, P!HasReply, PendsInv, ReplyPends
  <2>3. PendsOn(k)
    BY <1>1, <2>2, PendsBelow
  <2>4. QED
    BY <1>1, <1>2, <2>2, <2>3 DEF Moves, ReturnsWith
<1>7. QED
  BY <1>3, <1>4, <1>5, <1>6 DEF P!SelectStep

LEMMA JoinMoves ==
  ASSUME P!IInv, PendsInv, NEW k \in P!KindsAre("join"), P!JoinStep(k)
  PROVE  Moves(k)
<1>1. /\ k \in Nodes /\ k \in P!Inner /\ Kind[k] = "join"
      /\ Fut1[k] \in Nodes /\ Fut2[k] \in Nodes /\ Fut1[k] # Fut2[k]
  BY Joins, SameTrees, P!OneParent
<1>2. /\ P!Running(k) /\ P!JoinInv(k)
      /\ \A j \in Nodes \ {k} : self'[j] = self[j]
  BY <1>1
  DEF P!JoinStep, P!JoinProgress, P!JoinFut1Returns, P!JoinFut2Returns,
      P!JustCalled, P!HasReply, P!IInv, P!BaseInv, P!NodeInv
<1>3. ASSUME NEW s1, NEW s2, P!JoinReturns(k, s1, s2),
             s1 = P!PENDING => PendsOn(Fut1[k]),
             s2 = P!PENDING => PendsOn(Fut2[k])
      PROVE  Moves(k)
  <2>1. PICK v \in {P!PENDING, P!COMPLETED, P!FAILURE} :
          P!Return(k, v) /\ (v = P!PENDING => P!PENDING \in {s1, s2})
    BY <1>3 DEF P!JoinReturns, P!PENDING, P!COMPLETED, P!FAILURE
  <2>2. v = P!PENDING => PendsOn(k)
    BY <1>1, <1>3, <2>1, PendsBelow
  <2>3. QED
    BY <1>1, <1>2, <2>1, <2>2 DEF Moves, ReturnsWith
<1>4. CASE P!JoinProgress(k)
  <2>1. self' = self /\ P!Call(IF self[k].fut1_completed = P!PENDING THEN Fut1[k]
                                                                   ELSE Fut2[k])
    BY <1>4 DEF P!JoinProgress
  <2>2. QED
    BY <1>1, <1>2, <2>1 DEF Moves, CallsOn
<1>5. CASE P!JoinFut1Returns(k)
  <2>1. PICK s \in {P!PENDING, P!COMPLETED, P!FAILURE} :
          /\ P!HasReply(k, Fut1[k], s)
          /\ self' = [self EXCEPT ![k].fut1_completed = s,
                                  ![k].fut1.ok = P!SavedOk(Fut1[k], s, @)]
          /\ \/ P!Call(Fut2[k])
             \/ /\ self[k].fut2_completed # P!PENDING
                /\ P!JoinReturns(k, s, self[k].fut2_completed)
    BY <1>5 DEF P!JoinFut1Returns
  <2>2. s = P!PENDING => PendsOn(Fut1[k])
    BY <1>1, <2>1 DEF P!HasReply, PendsInv, ReplyPends
  <2>3. self'[k].fut1_completed = s
    <3>1. self'[k] =
            [self[k] EXCEPT !.fut1_completed = s,
                            !.fut1.ok = P!SavedOk(Fut1[k], s, self[k].fut1.ok)]
      BY <1>1, <2>1 DEF P!IInv, P!BaseInv
    <3>2. DOMAIN self[k] = P!JoinFields
      BY <1>2 DEF P!JoinInv
    <3>3. QED
      BY <3>1, <3>2 DEF P!JoinFields
  <2>4. CASE P!Call(Fut2[k])
    BY <1>1, <1>2, <2>2, <2>3, <2>4 DEF Moves, CallsOn
  <2>5. QED
    BY <1>3, <2>1, <2>2, <2>4
<1>6. CASE P!JoinFut2Returns(k)
  <2>1. PICK s \in {P!PENDING, P!COMPLETED, P!FAILURE} :
          /\ P!HasReply(k, Fut2[k], s)
          /\ P!JoinReturns(k, self[k].fut1_completed, s)
    BY <1>6 DEF P!JoinFut2Returns
  <2>2. s = P!PENDING => PendsOn(Fut2[k])
    BY <1>1, <2>1 DEF P!HasReply, PendsInv, ReplyPends
  <2>3. self[k].fut1_completed = P!PENDING => PendsOn(Fut1[k])
    BY <2>1 DEF P!HasReply, PendsInv, JoinPends, Fut2HasItsTurn
  <2>4. QED
    BY <1>3, <2>1, <2>2, <2>3
<1>7. QED
  BY <1>4, <1>5, <1>6 DEF P!JoinStep

LEMMA CombinatorIs ==
  ASSUME Inv, PendsInv, NothingStuck, CombinatorStep
  PROVE  \E k : Moves(k)
BY SameSets, SameThen, SameJoin, SameSelect, ThenMoves, SelectMoves, JoinMoves
DEF CombinatorStep, Inv, TreeInv

LEMMA CombinatorPends ==
  ASSUME Inv, PendsInv, NothingStuck, CombinatorStep
  PROVE  PendsInv'
<1>1. PICK k : Moves(k)
  BY CombinatorIs
<1>2. phase' = phase /\ BackTo(waits)
  BY DEF CombinatorStep, leafVars
<1>3. phase' # "pend"
  <2>1. k = Last(stack) /\ stack # <<>>
    BY <1>1, SameCalls, RunningInTree DEF Moves, Inv, SleepInv
  <2>2. Kind[k] # "leaf"
    BY <1>1 DEF Moves, P!Inner, P!Leaves, P!KindsAre
  <2>3. QED
    BY <1>2, <2>1, <2>2, TreeFacts DEF Inv, SleepInv, CallInv
<1>4. stack' # <<>> => waits' = waits
  BY <1>2 DEF BackTo
<1>5. P!IInv /\ k \in Nodes /\ k \in P!Inner /\ P!Running(k)
      /\ \A j \in Nodes \ {k} : self'[j] = self[j]
  BY <1>1 DEF Moves, P!Inner, Inv, TreeInv
<1>6. CASE CallsOn(k)
  <2>1. PICK m \in {Fut1[k], Fut2[k]} :
          /\ P!Call(m)
          /\ m = Fut2[k] /\ Kind[k] = "join" /\ self'[k].fut1_completed = P!PENDING
               => PendsOn(Fut1[k])
    BY <1>6 DEF CallsOn
  <2>2. stack' # <<>>
    BY <1>5, <2>1, SameTrees, P!RunningNode, P!CallStack DEF P!IInv
  <2>3. QED
    BY <1>3, <1>4, <1>5, <2>1, <2>2, CallPends
<1>7. CASE ReturnsWith(k)
  BY <1>3, <1>4, <1>5, <1>7, ReturnPends DEF ReturnsWith
<1>8. QED
  BY <1>1, <1>6, <1>7 DEF Moves

LEMMA LeafReturnPends ==
  ASSUME Inv, PendsInv, NEW n \in Pipes \union LeavesDoing("apply"),
         \/ n \in Pipes /\ (Pend(n) \/ Complete(n) \/ ReadEof(n))
         \/ n \in LeavesDoing("apply") /\ Apply(n)
  PROVE  PendsInv'
<1>1. P!IInv /\ n \in Nodes
  BY TreeFacts DEF Inv, TreeInv
<1>2. CASE Pend(n)
  <2>1. /\ P!Running(n) /\ P!Return(n, P!PENDING) /\ self' = self
        /\ phase = "pend" /\ phase' = "io" /\ BackTo(waits)
    BY <1>2, SameLeaf DEF Pend, P!LeafPends, P!JustCalled
  <2>2. n \in Pipes
    BY <2>1, SameCalls, RunningInTree DEF Inv, SleepInv, CallInv
  <2>3. PendsOn(n)
    BY <1>1, <2>1, <2>2, SameTrees, P!SubtreeFacts DEF PendsInv, LeafPends, PendsOn
  <2>4. stack' # <<>> => waits' = waits
    BY <2>1 DEF BackTo
  <2>5. QED
    BY <1>1, <2>1, <2>3, <2>4, ReturnPends
<1>3. CASE \/ n \in LeavesDoing("apply") /\ Apply(n)
           \/ n \in Pipes /\ (Complete(n) \/ ReadEof(n))
  <2>1. PICK s \in {P!COMPLETED, P!FAILURE} : P!Return(n, s) /\ P!Running(n) /\ self' = self
    BY <1>3, SameLeaf
    DEF Apply, Complete, ReadEof, P!LeafCompletes, P!LeafFails, P!JustCalled
  <2>2. phase' = phase /\ phase # "pend"
    <3>1. CASE n \in LeavesDoing("apply") /\ Apply(n)
      BY <2>1, <3>1, SameCalls, RunningInTree, TreeFacts
      DEF Inv, SleepInv, CallInv, Apply
    <3>2. CASE Complete(n) \/ ReadEof(n)
      BY <3>2 DEF Complete, ReadEof, InLoop, leafVars
    <3>3. QED
      BY <1>3, <3>1, <3>2
  <2>3. BackTo(waits) \/ (n \in Pipes /\ BackTo(waits \ {Fd[n]}))
    <3>1. Apply(n) => BackTo(waits)
      BY DEF Apply
    <3>2. Complete(n) => BackTo(waits \ {Fd[n]})
      BY DEF Complete
    <3>3. ReadEof(n) => BackTo(waits \ {Fd[n]})
      BY DEF ReadEof
    <3>4. QED
      BY <1>3, <3>1, <3>2, <3>3
  <2>4. ASSUME stack' # <<>>, NEW x \in Pipes, x # n, Fd[x] \in waits
        PROVE  Fd[x] \in waits'
    <3>1. n \in Pipes => Fd[x] # Fd[n]
      BY <2>4, OwnFds
    <3>2. CASE BackTo(waits)
      BY <2>4, <3>2 DEF BackTo
    <3>3. CASE n \in Pipes /\ BackTo(waits \ {Fd[n]})
      BY <2>4, <3>1, <3>3 DEF BackTo
    <3>4. QED
      BY <2>3, <3>2, <3>3
  <2>5. s # P!PENDING
    BY DEF P!PENDING, P!COMPLETED, P!FAILURE
  <2>6. QED
    BY <1>1, <2>1, <2>2, <2>4, <2>5, ReturnPends
<1>4. QED
  BY <1>2, <1>3

LEMMA PendsStep ==
  ASSUME Inv, PendsInv, NothingStuck, [Next]_vars
  PROVE  PendsInv'
<1>1. ASSUME UNCHANGED <<stack, reply, self>>, waits \subseteq waits',
             phase' # "pend" \/ phase' = phase
      PROVE  PendsInv'
  BY <1>1
  DEF PendsInv, ReplyPends, JoinPends, LeafPends, PendsOn, Fut2HasItsTurn, P!InCall,
      P!Running, P!Range
<1>2. CASE ExecutorStep \/ ClientStep
  <2>1. UNCHANGED <<stack, reply, self, phase>>
    BY <1>2 DEF ExecutorStep, ClientStep, treeVars, leafVars
  <2>2. waits' = waits
    BY <1>2
    DEF ExecutorStep, ClientStep, E!EnterPoll, E!LeaveRun, E!PollWait, E!HandleEvent,
        E!Spawn, E!EnterRun, E!Destroy, E!PollFail, E!Terminated, E!callVars, E!vars
  <2>3. QED
    BY <1>1, <2>1, <2>2
<1>3. CASE PopAndProgress
  <2>1. stack = <<>> /\ phase' = phase /\ phase = "io"
    BY <1>3 DEF PopAndProgress, E!PopAndProgress, leafVars, Inv, SleepInv, CallInv
  <2>2. C!Progress
    BY <1>3, PopIsProgress
  <2>3. PICK r \in Roots : C!Call(r)
    BY <2>2 DEF C!Progress
  <2>4. stack' = <<r>> /\ reply' = <<>>
    BY <2>1, <2>3 DEF C!Call
  <2>5. P!Range(stack') = {r}
    BY <2>4 DEF P!Range
  <2>6. \A j \in P!KindsAre("join") : Fut2[j] # r
    BY Joins, SameTrees, P!OneParent DEF P!IsChild
  <2>7. QED
    BY <2>1, <2>4, <2>5, <2>6
    DEF PendsInv, ReplyPends, JoinPends, LeafPends, Fut2HasItsTurn, P!InCall
<1>4. CASE CombinatorStep
  BY <1>4, CombinatorPends
<1>5. ASSUME NEW n \in Pipes \union LeavesDoing("apply"),
             \/ n \in Pipes /\ (Pend(n) \/ Complete(n) \/ ReadEof(n))
             \/ n \in LeavesDoing("apply") /\ Apply(n)
      PROVE  PendsInv'
  BY <1>5, LeafReturnPends
<1>6. ASSUME NEW n \in Pipes, WouldBlock(n) \/ ReadSome(n) \/ AdjustSize(n) \/ WriteSome(n)
      PROVE  PendsInv'
  <2>1. UNCHANGED <<stack, reply, self, waits>> /\ (phase' # "pend" \/ phase' = phase)
    BY <1>6
    DEF WouldBlock, ReadSome, AdjustSize, WriteSome, AfterEagain, treeVars, execVars
  <2>2. QED
    BY <1>1, <2>1
<1>7. ASSUME NEW n \in Pipes, Register(n)
      PROVE  PendsInv'
  <2>1. /\ UNCHANGED <<stack, reply, self>> /\ C!Running(n)
        /\ waits' = waits \union {Fd[n]}
    BY <1>7 DEF Register, C!JustCalled, treeVars, E!MioRegister
  <2>2. \A x : P!Running(x)' => x = n
    BY <2>1, SameCalls DEF P!Running
  <2>3. LeafPends'
    BY <2>1, <2>2 DEF LeafPends
  <2>4. QED
    BY <2>1, <2>3
    DEF PendsInv, ReplyPends, JoinPends, PendsOn, Fut2HasItsTurn, P!InCall, P!Range
<1>8. CASE LeafStep
  BY <1>5, <1>6, <1>7, <1>8
  DEF LeafStep, Pipes, ReadWouldBlock, WriteWouldBlock,
      ReadCompletes, WriteCompletes
<1>9. CASE UNCHANGED threadVars
  BY <1>1, <1>9 DEF threadVars, execVars, treeVars, leafVars
<1>10. QED
  BY <1>2, <1>3, <1>4, <1>8, <1>9 DEF Next, ThreadStep, PeerStep, vars

LEMMA InitPends ==
  ASSUME Init
  PROVE  PendsInv
<1>1. reply = <<>> /\ stack = <<>>
  BY DEF Init, C!Init
<1>2. P!Range(stack) = {}
  BY <1>1 DEF P!Range
<1>3. QED
  BY <1>1, <1>2
  DEF PendsInv, ReplyPends, JoinPends, LeafPends, Fut2HasItsTurn, P!InCall, P!Running

-----------------------------------------------------------------------------
(***************************************************************************)
(* The refinement.                                                         *)
(***************************************************************************)

(* A root that is left pending waits for a descriptor.                     *)
LEMMA WaitsForSomething ==
  ASSUME Inv, NextInv', PendsInv, NothingStuck, [Next]_vars, LeavesPending
  PROVE  waits # {}
<1>1. stack # <<>> /\ stack' = <<>> /\ status'[fut] = P!PENDING /\ fut \in Roots
      /\ fut \in Nodes /\ pc = "progress" /\ pc' = "loop" /\ DOMAIN status = Nodes
  <2>1. stack # <<>> /\ stack' = <<>> /\ status'[fut] = P!PENDING
        /\ pc = "progress" /\ pc' = "loop"
    BY SameCalls DEF LeavesPending, E!EndCall, Inv, SleepInv, CallInv
  <2>2. C!Running(C!Last(stack))
    BY <2>1 DEF C!Running
  <2>3. QED
    BY <2>1, <2>2, RunningInTree, TreeFacts DEF Inv, SleepInv, IInv, DomainInv
<1>2. ASSUME NEW k \in Nodes, P!Running(k), NEW s, P!Return(k, s)
      PROVE  k = fut /\ s = P!PENDING
  <2>1. C!Running(k) /\ stack' = Front(stack) /\ status' = [status EXCEPT ![k] = s]
    BY <1>2, SameCalls DEF P!Return, P!Front, Front
  <2>2. k = fut
    BY <1>1, <2>1, RootReturns
  <2>3. QED
    BY <1>1, <2>1, <2>2
<1>3. CASE CombinatorStep
  <2>1. PICK k : Moves(k)
    BY <1>3, CombinatorIs
  <2>2. k \in Nodes /\ k \in P!Inner /\ P!Running(k) /\ P!IInv
    BY <2>1 DEF Moves, P!Inner, Inv, TreeInv
  <2>3. ~CallsOn(k)
    BY <1>1, <2>2, SameTrees, P!RunningNode, P!CallStack DEF CallsOn, P!IInv
  <2>4. PendsOn(k)
    BY <1>2, <2>1, <2>2, <2>3 DEF Moves, ReturnsWith
  <2>5. QED
    BY <2>4 DEF PendsOn
<1>4. ASSUME NEW n \in Pipes \union LeavesDoing("apply"),
             Pend(n) \/ Apply(n) \/ Complete(n) \/ ReadEof(n)
      PROVE  waits # {}
  <2>1. n \in Nodes
    BY TreeFacts
  <2>2. CASE Pend(n)
    <3>1. P!Running(n) /\ phase = "pend"
      BY <2>2, SameLeaf DEF Pend, P!LeafPends, P!JustCalled
    <3>2. n \in Pipes
      BY <3>1, SameCalls, RunningInTree DEF Inv, SleepInv, CallInv
    <3>3. QED
      BY <3>1, <3>2 DEF PendsInv, LeafPends
  <2>3. CASE Apply(n) \/ Complete(n) \/ ReadEof(n)
    <3>1. PICK s \in {P!COMPLETED, P!FAILURE} : P!Return(n, s) /\ P!Running(n)
      BY <2>3, SameLeaf
      DEF Apply, Complete, ReadEof, P!LeafCompletes, P!LeafFails, P!JustCalled
    <3>2. QED
      BY <1>2, <2>1, <3>1 DEF P!PENDING, P!COMPLETED, P!FAILURE
  <2>4. QED
    BY <1>4, <2>2, <2>3
<1>5. CASE UNCHANGED stack
  BY <1>1, <1>5
<1>6. ASSUME \/ ExecutorStep \/ ClientStep \/ UNCHANGED threadVars
             \/ \E n \in Pipes : \/ WouldBlock(n) \/ Register(n) \/ ReadSome(n)
                                 \/ AdjustSize(n) \/ WriteSome(n)
      PROVE  UNCHANGED stack
  BY <1>6
  DEF ExecutorStep, ClientStep, threadVars, WouldBlock, Register, ReadSome, AdjustSize,
      WriteSome, treeVars
<1>7. CASE PopAndProgress
  BY <1>1, <1>7 DEF PopAndProgress, E!PopAndProgress
<1>8. QED
  BY <1>3, <1>4, <1>5, <1>6, <1>7
  DEF Next, ThreadStep, LeafStep, PeerStep, vars, Pipes, ReadWouldBlock, WriteWouldBlock,
      ReadCompletes, WriteCompletes

LEMMA ExecutorStepIs ==
  ASSUME Inv, PendsInv, NothingStuck, [Next]_vars
  PROVE  [E!Next]_(E!vars)
<1>1. NextInv'
  BY NextInvStep
<1>2. CASE LeavesPending /\ registered' = registered
  <2>1. waits # {}
    BY <1>1, <1>2, WaitsForSomething
  <2>2. E!ReturnPending
    BY <1>2, <2>1 DEF LeavesPending, E!ReturnPending
  <2>3. QED
    BY <2>2 DEF E!Next, E!FutureStep
<1>3. QED
  BY <1>1, <1>2, StepIs

(* Seen from the executor, the trees are futures that keep the contract:   *)
(* in every forest and every behaviour in which no select gets stuck, each *)
(* answer FUTURE_PENDING of a root rests on a registration made in the     *)
(* same call, and each end leaves none behind.                             *)
THEOREM DrivesTheExecutor == Spec /\ []NothingStuck => ImplementsExecutor
<1>1. Inv /\ PendsInv /\ NothingStuck /\ [Next]_vars => PendsInv' /\ [E!Next]_(E!vars)
  BY PendsStep, ExecutorStepIs
<1>2. Init => E!Init /\ PendsInv
  BY InitPends DEF Init
<1>3. QED
  BY <1>1, <1>2, InvHolds, PTL DEF Spec, ImplementsExecutor, E!Spec

-----------------------------------------------------------------------------
(***************************************************************************)
(* Which futures may fail, and which forests no select can get stuck in.   *)
(***************************************************************************)

(* A read may fail, at an end of file; a then or a join, with a child.     *)
Infectious ==
  {S \in SUBSET Nodes :
     /\ Reads \subseteq S
     /\ \A n \in P!KindsAre("then") \union P!KindsAre("join") :
          Fut1[n] \in S \/ Fut2[n] \in S => n \in S}

Fallible == {n \in Nodes : \A S \in Infectious : n \in S}

(* Every select has a child that cannot fail.                              *)
SelectsAreSafe ==
  \A n \in P!KindsAre("select") : Fut1[n] \notin Fallible \/ Fut2[n] \notin Fallible

OnlyReadsFail ==
  \A n \in DOMAIN Op : status[n] = P!FAILURE => n \in Reads

OnlyFallibleFail ==
  \A n \in Nodes : status[n] = C!FAILURE => n \in Fallible

LEMMA OnlyReadsFailStep ==
  ASSUME Inv, OnlyReadsFail, [Next]_vars
  PROVE  OnlyReadsFail'
<1>1. ASSUME status' = status
      PROVE  OnlyReadsFail'
  BY <1>1 DEF OnlyReadsFail
<1>2. DOMAIN status = Nodes /\ DOMAIN Op \subseteq Nodes
  BY TreeFacts DEF Inv, IInv, DomainInv
<1>3. ASSUME NEW k, NEW s, status' = [status EXCEPT ![k] = s],
             k \in DOMAIN Op => k \in Reads \/ s # P!FAILURE
      PROVE  OnlyReadsFail'
  BY <1>2, <1>3 DEF OnlyReadsFail
<1>4. CASE CombinatorStep
  <2>1. PICK k : /\ \/ k \in C!KindsAre("then") /\ C!ThenStep(k)
                    \/ k \in C!KindsAre("join") /\ C!JoinStep(k)
                    \/ k \in C!KindsAre("select") /\ C!SelectStep(k)
    BY <1>4 DEF CombinatorStep
  <2>2. k \notin DOMAIN Op
    BY <2>1, CombinatorMoves, TreeFacts
  <2>3. status' = status \/ \E s : status' = [status EXCEPT ![k] = s]
    BY <2>1, CombinatorStatus
  <2>4. QED
    BY <1>1, <1>3, <2>2, <2>3
<1>5. ASSUME NEW n, Pend(n) \/ Complete(n) \/ Apply(n)
      PROVE  OnlyReadsFail'
  <2>1. \E s \in {P!PENDING, P!COMPLETED} : P!Return(n, s)
    BY <1>5, SameLeaf DEF Pend, Complete, Apply, P!LeafPends, P!LeafCompletes
  <2>2. P!PENDING # P!FAILURE /\ P!COMPLETED # P!FAILURE
    BY DEF P!PENDING, P!COMPLETED, P!FAILURE
  <2>3. QED
    BY <1>3, <2>1, <2>2 DEF P!Return
<1>6. ASSUME NEW n \in Reads, ReadEof(n)
      PROVE  OnlyReadsFail'
  <2>1. P!Return(n, P!FAILURE)
    BY <1>6, SameLeaf DEF ReadEof, P!LeafFails
  <2>2. QED
    BY <1>3, <1>6, <2>1 DEF P!Return
<1>7. ASSUME NEW n, WouldBlock(n) \/ Register(n) \/ ReadSome(n) \/ AdjustSize(n) \/ WriteSome(n)
      PROVE  status' = status
  BY <1>7 DEF WouldBlock, Register, ReadSome, AdjustSize, WriteSome, treeVars
<1>8. CASE LeafStep
  BY <1>1, <1>5, <1>6, <1>7, <1>8
  DEF LeafStep, Reads, ReadWouldBlock, WriteWouldBlock,
      ReadCompletes, WriteCompletes
<1>9. CASE ExecutorStep \/ ClientStep \/ PopAndProgress \/ UNCHANGED threadVars
  BY <1>1, <1>9
  DEF ExecutorStep, ClientStep, PopAndProgress, C!Call, threadVars, treeVars
<1>10. QED
  BY <1>4, <1>8, <1>9 DEF Next, ThreadStep, PeerStep, vars

LEMMA FailuresSpread ==
  ASSUME Inv, OnlyReadsFail
  PROVE  OnlyFallibleFail
<1> SUFFICES ASSUME NEW S \in Infectious
             PROVE  \A n \in Nodes : status[n] = P!FAILURE => n \in S
  BY SameCalls DEF OnlyFallibleFail, Fallible
<1> DEFINE G == {n \in Nodes : status[n] = P!FAILURE => n \in S}
<1>1. P!Leaves \subseteq G
  <2>1. P!Leaves = DOMAIN Op
    BY LeafAssumption DEF P!Leaves, P!KindsAre
  <2>2. QED
    BY <2>1, TreeFacts DEF OnlyReadsFail, Infectious
<1>2. ASSUME NEW n \in P!Inner, Fut1[n] \in G, Fut2[n] \in G
      PROVE  n \in G
  <2> SUFFICES ASSUME status[n] = P!FAILURE
               PROVE  n \in S
    BY DEF P!Inner
  <2>1. n \in Nodes /\ P!NodeInv(n)
    BY DEF Inv, TreeInv, P!IInv, P!Inner
  <2>2. Kind[n] \in {"then", "join", "select"}
    BY SameTrees DEF P!TreeAssumption, P!Inner, P!Leaves, P!KindsAre
  <2>3. CASE Kind[n] = "select"
    BY <2>1, <2>3 DEF P!NodeInv, P!SelectInv
  <2>4. CASE Kind[n] \in {"then", "join"}
    <3>1. P!FAILURE \in {status[Fut1[n]], status[Fut2[n]]}
      BY <2>1, <2>4
      DEF P!NodeInv, P!ThenInv, P!JoinInv, P!JoinRecord, P!PENDING, P!COMPLETED, P!FAILURE
    <3>2. Fut1[n] \in S \/ Fut2[n] \in S
      BY <1>2, <3>1
    <3>3. n \in P!KindsAre("then") \union P!KindsAre("join")
      BY <2>1, <2>4 DEF P!KindsAre
    <3>4. QED
      BY <3>2, <3>3 DEF Infectious
  <2>5. QED
    BY <2>2, <2>3, <2>4
<1>3. G = Nodes
  <2> HIDE DEF G
  <2>1. G \in SUBSET Nodes
    BY DEF G
  <2>2. QED
    BY <1>1, <1>2, <2>1, SameTrees, P!FromTheLeaves
<1>4. QED
  BY <1>3

(* An answer FUTURE_FAILED goes back to a read that met the end of its     *)
(* file, through thens and joins only: a select absorbs it.                *)
THEOREM OnlyTheFallibleFail == Spec => []OnlyFallibleFail
<1>1. Init => OnlyReadsFail
  <2>1. Init => \A n \in Nodes : status[n] = "new"
    BY DEF Init, C!Init
  <2>2. QED
    BY <2>1, TreeFacts DEF OnlyReadsFail, P!FAILURE
<1>2. Inv /\ OnlyReadsFail /\ [Next]_vars => OnlyReadsFail'
  BY OnlyReadsFailStep
<1>3. Inv /\ OnlyReadsFail => OnlyFallibleFail
  BY FailuresSpread
<1>4. QED
  BY <1>1, <1>2, <1>3, InvHolds, PTL DEF Spec

(* When every select has a child that cannot fail, none gets stuck.        *)
THEOREM SafeSelectsNeverGetStuck ==
  ASSUME SelectsAreSafe
  PROVE  Spec => []NothingStuck
<1>1. OnlyFallibleFail => NothingStuck
  <2> SUFFICES ASSUME OnlyFallibleFail, NEW n \in Nodes, C!Stuck(n)
               PROVE  FALSE
    BY DEF NothingStuck
  <2>1. /\ n \in P!KindsAre("select")
        /\ status[Fut1[n]] = C!FAILURE /\ status[Fut2[n]] = C!FAILURE
    BY DEF C!Stuck, P!KindsAre
  <2>2. Fut1[n] \in Nodes /\ Fut2[n] \in Nodes
    BY <2>1, SameTrees DEF P!TreeAssumption, P!Inner, P!Leaves, P!KindsAre
  <2>3. QED
    BY <2>1, <2>2 DEF OnlyFallibleFail, SelectsAreSafe
<1>2. QED
  BY <1>1, OnlyTheFallibleFail, PTL

(* So in such a forest, the trees keep the contract of the executor in     *)
(* every behaviour.                                                        *)
THEOREM SafeForestsDriveTheExecutor ==
  ASSUME SelectsAreSafe
  PROVE  Spec => ImplementsExecutor
BY SafeSelectsNeverGetStuck, DrivesTheExecutor, PTL

-----------------------------------------------------------------------------
(***************************************************************************)
(* What is proved of the executor holds of the runtime.                    *)
(***************************************************************************)

LEMMA ExecutorsAgree == ImplementsExecutor => X!Spec
<1>1. [E!Next]_(E!vars) => [X!Next]_(X!vars)
  BY SameExecutor, SameQueue
<1>2. QED
  BY <1>1, SameExecutor, PTL DEF ImplementsExecutor, E!Spec, X!Spec

(* executor_run() counts its futures right and calls none that has ended,  *)
(* and what mio_register() has promised in a call is kept to its end,      *)
(* whatever the trees answer: with a stuck select, too.                    *)
THEOREM RunsCountRight ==
  Spec => [](X!ActiveCount /\ X!NoProgressAfterFinish /\ X!RegisteredWakerIsKept)
<1>1. Inv => X!ActiveCount
  BY DEF Inv, X!IInv, X!CountInv, X!ActiveCount
<1>2. Inv => X!NoProgressAfterFinish
  BY ExecutorAssumptions
  DEF Inv, X!IInv, X!TypeOK, X!CallInv, X!EndedInv, X!NoProgressAfterFinish,
      X!NoneAssumption
<1>3. Inv => X!RegisteredWakerIsKept
  BY DEF Inv, X!WaitsInv, X!RegisteredWakerIsKept
<1>4. QED
  BY <1>1, <1>2, <1>3, InvHolds, PTL

(* "This function blocks until all spawned futures are completed"          *)
(* (executor.h:33): in the runtime too, every root that is spawned is      *)
(* brought to its end at most once, and executor_run() returns only when   *)
(* none is left.  With a stuck select it does not return.                  *)
THEOREM RunsAreTaskScopes == Spec => X!ReturnsWhenAllAreDone /\ X!Scope!ScopeSafety
<1> DEFINE Returns == pc = "loop" /\ pc' = "client" => isActive = {}
           ScopeStep == [X!Scope!ScopeNext]_(X!Scope!scopeVars)
<1>1. Init => X!Scope!ScopeInit
  BY SameExecutor, ExecutorAssumptions, X!ScopeInitHolds DEF Init
<1>2. Inv /\ [Next]_vars => Returns /\ ScopeStep
  <2> SUFFICES ASSUME Inv, [Next]_vars
               PROVE  Returns /\ ScopeStep
    OBVIOUS
  <2>1. NextInv'
    BY NextInvStep
  <2>2. CASE [E!Next]_(E!vars)
    <3>1. [X!Next]_(X!vars)
      BY <2>2, SameExecutor, SameQueue
    <3>2. QED
      BY <3>1, ExecutorAssumptions, X!LeavesWithNoneActive, X!ScopeStepHolds DEF Inv
  <2>3. CASE LeavesPending
    <3>1. pc = "progress" /\ pc' = "loop" /\ UNCHANGED <<isActive, finished>>
      BY <2>3, SameCalls DEF LeavesPending, E!EndCall, Inv, SleepInv, CallInv
    <3>2. QED
      BY <3>1 DEF X!Scope!scopeVars, X!Gone
  <2>4. QED
    BY <2>1, <2>2, <2>3, StepIs
<1>3. QED
  <2>1. Spec => [][Returns]_(X!vars)
    BY <1>2, InvHolds, PTL DEF Spec
  <2>2. Spec => [][X!Scope!ScopeNext]_(X!Scope!scopeVars)
    BY <1>2, InvHolds, PTL DEF Spec
  <2>3. QED
    BY <1>1, <2>1, <2>2, PTL DEF Spec, X!ReturnsWhenAllAreDone, X!Scope!ScopeSafety

(* With a slot of the queue for every root, no root is ever forgotten: it  *)
(* is queued, running, or a descriptor in the epoll set brings it back.    *)
THEOREM AmpleQueueForgetsNoRoot ==
  ASSUME IsFiniteSet(Roots), Cardinality(Roots) <= MaxQueueSize
  PROVE  Spec /\ []NothingStuck => []X!NoOrphan
<1>1. X!IsFiniteSet(Roots) /\ X!Cardinality(Roots) <= MaxQueueSize
  BY DEF X!IsFiniteSet, X!Cardinality, IsFiniteSet, Cardinality
<1>2. X!Spec => []X!NoOrphan
  BY <1>1, ExecutorAssumptions, OnePrivateFd, X!AmpleQueueLosesNothing
<1>3. QED
  BY <1>2, DrivesTheExecutor, ExecutorsAgree, PTL
=============================================================================
