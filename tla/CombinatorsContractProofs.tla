---------------------- MODULE CombinatorsContractProofs ----------------------
(***************************************************************************)
(* Every future of every forest keeps the contract of ProgressFn           *)
(* (FutureContract), whatever the leaves answer.                           *)
(***************************************************************************)
EXTENDS CombinatorsProofs

(* A waker call is due for n, or a stuck select below it waits for ever.   *)
WakeDue(n) == \E m \in Subtree[n] : m \in due \/ Stuck(m)

(* A future that has been left pending waits for something.                *)
WakeInv == \A n \in Nodes : ~InCall(n) /\ status[n] = PENDING => WakeDue(n)

(* A future that has not started, or has ended, waits for nothing.         *)
DueInv ==
  \A n \in Nodes : ~InCall(n) /\ status[n] # PENDING => due \intersect Subtree[n] = {}

(* The sets of nodes that have the children of their members.              *)
Closed == {S \in SUBSET Nodes : \A p \in S \intersect Inner : {Fut1[p], Fut2[p]} \subseteq S}

-----------------------------------------------------------------------------
(***************************************************************************)
(* Subtree[n] is the least closed set that n is in.                        *)
(***************************************************************************)

(* The equation of Subtree has a solution, so that Subtree is one.         *)
LEMMA SubtreeEquation ==
  \A n \in Nodes :
    Subtree[n] = IF n \in Leaves THEN {n}
                 ELSE {n} \union Subtree[Fut1[n]] \union Subtree[Fut2[n]]
<1> DEFINE Least[n \in Nodes] == {m \in Nodes : \A S \in Closed : n \in S => m \in S}
<1>1. \A n \in Nodes : Least[n] = {m \in Nodes : \A S \in Closed : n \in S => m \in S}
  OBVIOUS
<1> HIDE DEF Least
<1>2. ASSUME NEW n \in Leaves
      PROVE  Least[n] = {n}
  <2>1. n \in Nodes /\ {n} \in Closed
    BY DEF Closed, Leaves, KindsAre, Inner
  <2>2. QED
    BY <1>1, <2>1
<1>3. ASSUME NEW n \in Inner
      PROVE  Least[n] = {n} \union Least[Fut1[n]] \union Least[Fut2[n]]
  <2>1. n \in Nodes /\ Fut1[n] \in Nodes /\ Fut2[n] \in Nodes
    BY OneParent
  <2>2. {n} \union Least[Fut1[n]] \union Least[Fut2[n]] \subseteq Least[n]
    BY <1>1, <2>1 DEF Closed
  <2>3. {n} \union Least[Fut1[n]] \union Least[Fut2[n]] \in Closed
    <3>1. ASSUME NEW p \in Inner, NEW q \in Nodes, p \in Least[q]
          PROVE  Fut1[p] \in Least[q] /\ Fut2[p] \in Least[q]
      BY <1>1, <3>1, OneParent DEF Closed
    <3>2. Fut1[n] \in Least[Fut1[n]] /\ Fut2[n] \in Least[Fut2[n]]
      BY <1>1, <2>1
    <3>3. {n} \union Least[Fut1[n]] \union Least[Fut2[n]] \subseteq Nodes
      BY <1>1, <2>1
    <3>4. QED
      BY <2>1, <3>1, <3>2, <3>3 DEF Closed
  <2>4. QED
    BY <1>1, <2>1, <2>2, <2>3
<1>4. Least = [n \in Nodes |-> IF n \in Leaves THEN {n}
                               ELSE {n} \union Least[Fut1[n]] \union Least[Fut2[n]]]
  <2>1. Least = [n \in Nodes |-> Least[n]]
    BY DEF Least
  <2>2. \A n \in Nodes : Least[n] = IF n \in Leaves THEN {n}
                           ELSE {n} \union Least[Fut1[n]] \union Least[Fut2[n]]
    BY <1>2, <1>3 DEF Inner
  <2>3. QED
    BY <2>1, <2>2
<1>5. Subtree = [n \in Nodes |-> IF n \in Leaves THEN {n}
                                 ELSE {n} \union Subtree[Fut1[n]] \union Subtree[Fut2[n]]]
  BY <1>4 DEF Subtree
<1>6. QED
  BY <1>5

(* What holds of the leaves, and of a node when it holds of its children,  *)
(* holds of every node.                                                    *)
LEMMA FromTheLeaves ==
  ASSUME NEW S \in SUBSET Nodes, Leaves \subseteq S,
         \A n \in Inner : Fut1[n] \in S /\ Fut2[n] \in S => n \in S
  PROVE  S = Nodes
<1>1. SUFFICES ASSUME Nodes \ S # {} PROVE FALSE
  OBVIOUS
<1>2. Nodes \ S \in SUBSET Inner
  BY DEF Inner
<1>3. PICK n \in Nodes \ S : Fut1[n] \notin Nodes \ S /\ Fut2[n] \notin Nodes \ S
  BY <1>1, <1>2, TreeAssumption
<1>4. QED
  BY <1>2, <1>3, OneParent

LEMMA SubtreeIsLeast ==
  ASSUME NEW S \in Closed, NEW n \in S
  PROVE  Subtree[n] \subseteq S
<1> DEFINE G == {m \in Nodes : m \in S => Subtree[m] \subseteq S}
<1>1. Leaves \subseteq G
  BY SubtreeEquation DEF Leaves, KindsAre
<1>2. ASSUME NEW m \in Inner, Fut1[m] \in G, Fut2[m] \in G
      PROVE  m \in G
  BY <1>2, SubtreeEquation DEF Closed, Inner
<1>3. G = Nodes
  <2> HIDE DEF G
  <2>1. G \in SUBSET Nodes
    BY DEF G
  <2>2. QED
    BY <1>1, <1>2, <2>1, FromTheLeaves
<1>4. QED
  BY <1>3 DEF Closed

LEMMA SubtreeFacts ==
  /\ \A n \in Nodes : n \in Subtree[n] /\ Subtree[n] \in Closed
  /\ \A n \in Leaves : Subtree[n] = {n}
  /\ \A n \in Inner : /\ Subtree[n] = {n} \union Subtree[Fut1[n]] \union Subtree[Fut2[n]]
                      /\ Fut1[n] \in Subtree[n] /\ Fut2[n] \in Subtree[n]
<1>1. \A n \in Nodes : n \in Subtree[n]
  BY SubtreeEquation
<1>2. /\ \A n \in Leaves : Subtree[n] = {n}
      /\ \A n \in Inner : Subtree[n] = {n} \union Subtree[Fut1[n]] \union Subtree[Fut2[n]]
  BY SubtreeEquation DEF Leaves, KindsAre, Inner
<1> DEFINE G == {n \in Nodes : Subtree[n] \in Closed}
<1>3. Leaves \subseteq G
  BY <1>2 DEF Leaves, KindsAre, Inner, Closed
<1>4. ASSUME NEW n \in Inner, Fut1[n] \in G, Fut2[n] \in G
      PROVE  n \in G
  BY <1>1, <1>2, <1>4, OneParent DEF Closed
<1>5. G = Nodes
  <2> HIDE DEF G
  <2>1. G \in SUBSET Nodes
    BY DEF G
  <2>2. QED
    BY <1>3, <1>4, <2>1, FromTheLeaves
<1>6. QED
  BY <1>1, <1>2, <1>5, OneParent

(* Subtrees of nodes that are not below one another have nothing in common.*)
LEMMA SubtreesApart ==
  ASSUME NEW m \in Nodes, NEW n \in Nodes, m \notin Subtree[n], n \notin Subtree[m]
  PROVE  Subtree[m] \intersect Subtree[n] = {}
<1>1. ASSUME NEW p \in Subtree[n], p # n
      PROVE  \E q \in Subtree[n] : IsChild(q, p)
  <2> DEFINE S == {x \in Subtree[n] : x = n \/ \E q \in Subtree[n] : IsChild(q, x)}
  <2>1. S \in Closed
    BY SubtreeFacts DEF Closed, IsChild
  <2>2. n \in S
    BY SubtreeFacts
  <2>3. Subtree[n] \subseteq S
    <3> HIDE DEF S
    <3>1. QED
      BY <2>1, <2>2, SubtreeIsLeast
  <2>4. QED
    BY <1>1, <2>3
<1> DEFINE Rest == Subtree[m] \ Subtree[n]
<1>2. Rest \in Closed
  <2>1. ASSUME NEW p \in Rest \intersect Inner, NEW c \in {Fut1[p], Fut2[p]}
        PROVE  c \in Rest
    <3>1. c \in Subtree[m] /\ IsChild(p, c) /\ p \in Nodes /\ c \in Nodes
      BY SubtreeFacts, OneParent DEF Closed, IsChild
    <3>2. ASSUME c \in Subtree[n]
          PROVE  FALSE
      <4>1. CASE c = n
        BY <3>1, <4>1
      <4>2. CASE c # n
        <5>1. PICK q \in Subtree[n] : IsChild(q, c)
          BY <1>1, <3>2, <4>2
        <5>2. q = p
          BY <3>1, <5>1, SubtreeFacts, OneParent DEF Closed
        <5>3. QED
          BY <5>1, <5>2
      <4>3. QED
        BY <4>1, <4>2
    <3>3. QED
      BY <3>1, <3>2
  <2>2. Rest \subseteq Nodes
    BY SubtreeFacts DEF Closed
  <2>3. QED
    BY <2>1, <2>2 DEF Closed
<1>3. m \in Rest
  BY SubtreeFacts
<1>4. QED
  BY <1>2, <1>3, SubtreeIsLeast

(* Nothing is in call below a node that is not.                            *)
LEMMA NothingBelowInCall ==
  ASSUME StackInv, NEW n \in Nodes, ~InCall(n)
  PROVE  \A m \in Subtree[n] : m \in Nodes /\ ~InCall(m)
<1> DEFINE S == {m \in Nodes : ~InCall(m)}
<1>1. ASSUME NEW p \in S \intersect Inner, NEW c \in {Fut1[p], Fut2[p]}, InCall(c)
      PROVE  FALSE
  <2>1. /\ stack \in Seq(Nodes) /\ Len(stack) \in Nat
        /\ DOMAIN stack = 1 .. Len(stack)
        /\ IsChild(p, c) /\ p \in Nodes /\ c \in Nodes \ Roots
    BY OneParent, LenProperties DEF StackInv, IsChild
  <2>2. PICK i \in 1 .. Len(stack) : c = stack[i]
    BY <1>1, <2>1 DEF InCall, Range
  <2>3. stack # <<>> /\ i # 1
    BY <2>1, <2>2, EmptySeq DEF StackInv
  <2>4. i - 1 \in 1 .. Len(stack) - 1 /\ i - 1 \in 1 .. Len(stack) /\ (i - 1) + 1 = i
    BY <2>1, <2>2, <2>3
  <2>5. IsChild(stack[i - 1], c) /\ stack[i - 1] \in Nodes
    BY <2>1, <2>2, <2>4, ElementOfSeq DEF StackInv
  <2>6. stack[i - 1] = p
    BY <2>1, <2>5, OneParent
  <2>7. InCall(p)
    BY <2>1, <2>4, <2>6 DEF InCall, Range
  <2>8. QED
    BY <2>7
<1>2. S \in Closed
  BY <1>1, OneParent DEF Closed
<1>3. Subtree[n] \subseteq S
  <2> HIDE DEF S
  <2>1. n \in S
    BY DEF S
  <2>2. QED
    BY <1>2, <2>1, SubtreeIsLeast
<1>4. QED
  BY <1>3

-----------------------------------------------------------------------------
(***************************************************************************)
(* What a step does to the calls in progress.                              *)
(***************************************************************************)

IsCalled(m) ==
  /\ ~InCall(m)
  /\ Range(stack') = Range(stack) \union {m}
  /\ status' = status /\ due' = due

Returns(k, s) ==
  /\ Running(k) /\ Return(k, s)
  /\ Range(stack') = Range(stack) \ {k}
  /\ due' \ {k} = due \ {k}

LEMMA CallIs ==
  ASSUME IInv, NEW k \in Inner, NEW m \in {Fut1[k], Fut2[k]}, Running(k), Call(m),
         due' = due
  PROVE  m \in Nodes /\ IsCalled(m)
BY RunningNode, OneParent, CallStack DEF IInv, Call, IsCalled, Inner

LEMMA ReturnIs ==
  ASSUME IInv, NEW k \in Nodes, NEW s, Running(k), Return(k, s), due' \ {k} = due \ {k}
  PROVE  Returns(k, s)
BY ReturnStack DEF IInv, Return, Returns

LEMMA LeafIs ==
  ASSUME IInv, NEW k \in Leaves, LeafStep(k)
  PROVE  \/ Returns(k, PENDING) /\ k \in due'
         \/ \E s \in Ends : Returns(k, s) /\ k \notin due'
<1>1. Running(k) /\ k \in Nodes
  BY DEF LeafStep, LeafEnds, LeafPends, LeafCompletes, LeafFails, JustCalled,
         Leaves, KindsAre
<1>2. CASE LeafPends(k)
  BY <1>1, <1>2, ReturnIs DEF LeafPends
<1>3. CASE LeafCompletes(k)
  BY <1>1, <1>3, ReturnIs DEF LeafCompletes, Ends
<1>4. CASE LeafFails(k)
  BY <1>1, <1>4, ReturnIs DEF LeafFails, Ends
<1>5. QED
  BY <1>2, <1>3, <1>4 DEF LeafStep, LeafEnds

(* A combinator that pends leaves a child pending or is a stuck select;    *)
(* when it ends, no child is left pending.                                 *)
CombinatorReturns(k) ==
  /\ due' = due
  /\ \/ /\ Returns(k, PENDING)
        /\ \/ PENDING \in {status[Fut1[k]], status[Fut2[k]]}
           \/ Stuck(k)
     \/ /\ \E s \in Ends : Returns(k, s)
        /\ PENDING \notin {status[Fut1[k]], status[Fut2[k]]}

LEMMA ThenIs ==
  ASSUME IInv, NEW k \in KindsAre("then"), ThenStep(k)
  PROVE  (\E m \in {Fut1[k], Fut2[k]} : IsCalled(m)) \/ CombinatorReturns(k)
<1>1. k \in Nodes /\ k \in Inner /\ Running(k) /\ ThenInv(k) /\ due' = due
  BY Kinds DEF ThenStep, ThenProgress, ThenFut1Completes, ThenFut2Completes,
               ThenFails, ChildPends, JustCalled, HasReply, KindsAre, IInv, NodeInv
<1>2. \A m, s : HasReply(k, m, s) => s = status[m]
  BY <1>1, RunningNode
<1>3. CASE ThenProgress(k)
  BY <1>1, <1>3, CallIs DEF ThenProgress
<1>4. CASE ThenFut1Completes(k)
  BY <1>1, <1>4, CallIs DEF ThenFut1Completes
<1>5. CASE ThenFut2Completes(k)
  <2>1. HasReply(k, Fut2[k], COMPLETED) /\ Returns(k, COMPLETED)
    BY <1>1, <1>5, ReturnIs DEF ThenFut2Completes
  <2>2. QED
    BY <1>1, <1>2, <2>1
    DEF ThenInv, CombinatorReturns, Ends, PENDING, COMPLETED, FAILURE
<1>6. CASE ThenFails(k)
  <2>1. PICK m \in {Fut1[k], Fut2[k]} : HasReply(k, m, FAILURE)
    BY <1>6 DEF ThenFails
  <2>2. Returns(k, FAILURE)
    BY <1>1, <1>6, ReturnIs DEF ThenFails
  <2>3. QED
    BY <1>1, <1>2, <2>1, <2>2
    DEF ThenInv, CombinatorReturns, Ends, PENDING, COMPLETED, FAILURE
<1>7. CASE ChildPends(k)
  <2>1. PICK m \in {Fut1[k], Fut2[k]} : HasReply(k, m, PENDING)
    BY <1>7 DEF ChildPends
  <2>2. Returns(k, PENDING)
    BY <1>1, <1>7, ReturnIs DEF ChildPends
  <2>3. QED
    BY <1>1, <1>2, <2>1, <2>2 DEF CombinatorReturns
<1>8. QED
  BY <1>3, <1>4, <1>5, <1>6, <1>7 DEF ThenStep

LEMMA SelectIs ==
  ASSUME IInv, NEW k \in KindsAre("select"), SelectStep(k)
  PROVE  (\E m \in {Fut1[k], Fut2[k]} : IsCalled(m)) \/ CombinatorReturns(k)
<1>1. /\ k \in Nodes /\ k \in Inner /\ Kind[k] = "select"
      /\ Running(k) /\ SelectInv(k) /\ due' = due
  BY Kinds DEF SelectStep, SelectProgress, SelectCompletes, SelectChildFails,
               ChildPends, JustCalled, HasReply, KindsAre, IInv, NodeInv
<1>2. /\ status[k] \in {"new", PENDING}
      /\ \A m, s : HasReply(k, m, s) => s = status[m] /\ reply # <<>>
  BY <1>1, RunningNode DEF HasReply
<1>3. CASE SelectProgress(k)
  <2>1. CASE self[k].which_completed = "failedBoth" /\ Return(k, PENDING)
    <3>1. Returns(k, PENDING) /\ Stuck(k)
      BY <1>1, <2>1, ReturnIs DEF SelectInv, Stuck
    <3>2. QED
      BY <1>1, <3>1 DEF CombinatorReturns
  <2>2. QED
    BY <1>1, <1>3, <2>1, CallIs DEF SelectProgress
<1>4. CASE SelectCompletes(k)
  <2>1. PICK m \in {Fut1[k], Fut2[k]} : HasReply(k, m, COMPLETED)
    BY <1>4 DEF SelectCompletes
  <2>2. Returns(k, COMPLETED)
    BY <1>1, <1>4, ReturnIs DEF SelectCompletes
  <2>3. PENDING \notin {status[Fut1[k]], status[Fut2[k]]}
    BY <1>1, <1>2, <2>1 DEF SelectInv, PENDING, COMPLETED, FAILURE
  <2>4. QED
    BY <1>1, <2>2, <2>3 DEF CombinatorReturns, Ends
<1>5. CASE SelectChildFails(k)
  <2>1. PICK m \in {Fut1[k], Fut2[k]} :
          /\ HasReply(k, m, FAILURE)
          /\ IF m = Fut1[k] THEN Call(Fut2[k]) ELSE Return(k, PENDING)
    BY <1>5 DEF SelectChildFails
  <2>2. CASE m = Fut1[k]
    BY <1>1, <2>1, <2>2, CallIs
  <2>3. CASE m # Fut1[k]
    <3>1. Returns(k, PENDING)
      BY <1>1, <2>1, <2>3, ReturnIs
    <3>2. Stuck(k)
      BY <1>1, <1>2, <2>1, <2>3 DEF SelectInv, Stuck, PENDING, COMPLETED, FAILURE
    <3>3. QED
      BY <1>1, <3>1, <3>2 DEF CombinatorReturns
  <2>4. QED
    BY <2>2, <2>3
<1>6. CASE ChildPends(k)
  <2>1. PICK m \in {Fut1[k], Fut2[k]} : HasReply(k, m, PENDING)
    BY <1>6 DEF ChildPends
  <2>2. Returns(k, PENDING)
    BY <1>1, <1>6, ReturnIs DEF ChildPends
  <2>3. QED
    BY <1>1, <1>2, <2>1, <2>2 DEF CombinatorReturns
<1>7. QED
  BY <1>3, <1>4, <1>5, <1>6 DEF SelectStep

LEMMA JoinIs ==
  ASSUME IInv, IInv', NEW k \in KindsAre("join"), JoinStep(k)
  PROVE  (\E m \in {Fut1[k], Fut2[k]} : IsCalled(m)) \/ CombinatorReturns(k)
<1>1. /\ k \in Nodes /\ k \in Inner /\ Kind[k] = "join"
      /\ Running(k) /\ JoinInv(k)' /\ due' = due
  BY Kinds DEF JoinStep, JoinProgress, JoinFut1Returns, JoinFut2Returns,
               JustCalled, HasReply, KindsAre, IInv, NodeInv
<1>2. ASSUME NEW s1, NEW s2, JoinReturns(k, s1, s2)
      PROVE  CombinatorReturns(k)
  <2>1. PICK v \in {PENDING, COMPLETED, FAILURE} : Return(k, v)
    BY <1>2 DEF JoinReturns
  <2>2. Returns(k, v)
    BY <1>1, <2>1, ReturnIs
  <2>3. /\ status'[k] = v
        /\ status'[Fut1[k]] = status[Fut1[k]] /\ status'[Fut2[k]] = status[Fut2[k]]
        /\ status[Fut1[k]] \in States /\ status[Fut2[k]] \in States
    BY <1>1, <2>1, RunningNode, OneParent DEF IInv, BaseInv, Return
  <2>4. ~InCall(k)'
    BY <2>2 DEF Returns, InCall
  <2>5. ~Running(k)'
    <3>1. SUFFICES ASSUME stack' # <<>> /\ Last(stack') = k PROVE FALSE
      BY DEF Running
    <3>2. stack' \in Seq(Nodes)
      BY DEF IInv, StackInv
    <3>3. Len(stack') \in Nat \ {0} /\ DOMAIN stack' = 1 .. Len(stack')
      BY <3>1, <3>2, FrontProperties
    <3>4. k \in Range(stack')
      BY <3>1, <3>3 DEF Last, Range
    <3>5. QED
      BY <2>4, <3>4 DEF InCall
  <2>6. QED
    BY <1>1, <2>1, <2>2, <2>3, <2>5
    DEF JoinInv, JoinRecord, HasReply, CombinatorReturns, Ends, States, PENDING,
        COMPLETED, FAILURE
<1>3. CASE JoinProgress(k)
  BY <1>1, <1>3, CallIs DEF JoinProgress
<1>4. CASE JoinFut1Returns(k)
  BY <1>1, <1>2, <1>4, CallIs DEF JoinFut1Returns
<1>5. CASE JoinFut2Returns(k)
  BY <1>2, <1>5 DEF JoinFut2Returns
<1>6. QED
  BY <1>3, <1>4, <1>5 DEF JoinStep

-----------------------------------------------------------------------------
(***************************************************************************)
(* Every step is the call of a future that has not ended, the return of    *)
(* one, or leaves the calls alone.                                         *)
(***************************************************************************)

LEMMA NodeStepIs ==
  ASSUME IInv, IInv', NodeStep
  PROVE  \/ \E m \in Nodes : IsCalled(m)
         \/ \E k \in Leaves : Returns(k, PENDING) /\ k \in due'
         \/ \E k \in Leaves : \E s \in Ends : Returns(k, s) /\ k \notin due'
         \/ \E k \in Inner : CombinatorReturns(k)
<1>1. ASSUME NEW k \in Nodes, Kind[k] \in {"then", "join", "select"},
             (\E m \in {Fut1[k], Fut2[k]} : IsCalled(m)) \/ CombinatorReturns(k)
      PROVE  (\E m \in Nodes : IsCalled(m)) \/ \E n \in Inner : CombinatorReturns(n)
  BY <1>1, Kinds, OneParent
<1>2. CASE \E k \in Leaves : LeafStep(k)
  BY <1>2, LeafIs
<1>3. CASE \E k \in KindsAre("then") : ThenStep(k)
  BY <1>1, <1>3, ThenIs DEF KindsAre
<1>4. CASE \E k \in KindsAre("join") : JoinStep(k)
  BY <1>1, <1>4, JoinIs DEF KindsAre
<1>5. CASE \E k \in KindsAre("select") : SelectStep(k)
  BY <1>1, <1>5, SelectIs DEF KindsAre
<1>6. QED
  BY <1>2, <1>3, <1>4, <1>5 DEF NodeStep

LEMMA ProgressIs ==
  ASSUME Progress
  PROVE  \E r \in Roots : IsCalled(r) /\ stack = <<>> /\ stack' = <<r>>
<1>1. PICK r \in Roots : Call(r)
  BY DEF Progress
<1>2. stack = <<>> /\ stack' = <<r>> /\ status' = status /\ due' = due
  BY <1>1 DEF Progress, Call
<1>3. Range(stack) = {} /\ Range(stack') = {r}
  BY <1>2 DEF Range
<1>4. QED
  BY <1>2, <1>3 DEF IsCalled, InCall

-----------------------------------------------------------------------------
(***************************************************************************)
(* Who is waited for.                                                      *)
(***************************************************************************)

WaitInv == WakeInv /\ DueInv

LEMMA CallWaits ==
  ASSUME WaitInv, NEW m, IsCalled(m)
  PROVE  WaitInv'
BY DEF WaitInv, WakeInv, DueInv, WakeDue, Stuck, IsCalled, InCall

LEMMA ReturnWaits ==
  ASSUME IInv, WaitInv, NEW k \in Nodes, NEW s, Returns(k, s),
         s = PENDING => WakeDue(k)',
         s # PENDING => due' \intersect Subtree[k] = {}
  PROVE  WaitInv'
<1>1. /\ status'[k] = s
      /\ \A n \in Nodes \ {k} : status'[n] = status[n] /\ (InCall(n)' <=> InCall(n))
      /\ InCall(k) /\ status[k] # FAILURE
      /\ due' \ {k} = due \ {k}
  BY RunningNode
  DEF Returns, Return, InCall, IInv, BaseInv, PENDING, COMPLETED, FAILURE
<1>2. ASSUME NEW n \in Nodes \ {k}, ~InCall(n)'
      PROVE  /\ ~InCall(n) /\ status'[n] = status[n]
             /\ \A m \in Subtree[n] : m \in Nodes /\ m # k
  BY <1>1, <1>2, NothingBelowInCall DEF IInv
<1>3. ASSUME NEW m \in Nodes, Stuck(m)
      PROVE  Stuck(m)'
  <2>1. m \in Inner /\ Fut1[m] \in Nodes /\ Fut2[m] \in Nodes
    BY <1>3, Kinds, OneParent DEF Stuck
  <2>2. QED
    BY <1>1, <1>3, <2>1 DEF Stuck
<1>4. WakeInv'
  <2>1. ASSUME NEW n \in Nodes, ~InCall(n)', status'[n] = PENDING
        PROVE  WakeDue(n)'
    <3>1. CASE n = k
      BY <1>1, <2>1, <3>1
    <3>2. CASE n # k
      <4>1. PICK m \in Subtree[n] : m \in due \/ Stuck(m)
        BY <1>2, <2>1, <3>2 DEF WaitInv, WakeInv, WakeDue
      <4>2. m \in Nodes /\ m # k
        BY <1>2, <2>1, <3>2
      <4>3. QED
        BY <1>1, <1>3, <4>1, <4>2 DEF WakeDue
    <3>3. QED
      BY <3>1, <3>2
  <2>2. QED
    BY <2>1 DEF WakeInv
<1>5. DueInv'
  <2>1. ASSUME NEW n \in Nodes, ~InCall(n)', status'[n] # PENDING
        PROVE  due' \intersect Subtree[n] = {}
    <3>1. CASE n = k
      BY <1>1, <2>1, <3>1
    <3>2. CASE n # k
      BY <1>1, <1>2, <2>1, <3>2 DEF WaitInv, DueInv
    <3>3. QED
      BY <3>1, <3>2
  <2>2. QED
    BY <2>1 DEF DueInv
<1>6. QED
  BY <1>4, <1>5 DEF WaitInv

LEMMA CombinatorWaits ==
  ASSUME IInv, WaitInv, NEW k \in Inner, CombinatorReturns(k)
  PROVE  WaitInv'
<1>1. /\ k \in Nodes /\ Fut1[k] \in Nodes /\ Fut2[k] \in Nodes
      /\ due' = due /\ k \notin due /\ Running(k)
  BY OneParent DEF IInv, BaseInv, Inner, CombinatorReturns, Returns
<1>2. ~InCall(Fut1[k]) /\ ~InCall(Fut2[k])
  BY <1>1, RunningNode
<1>3. Subtree[k] = {k} \union Subtree[Fut1[k]] \union Subtree[Fut2[k]]
  BY SubtreeFacts
<1>4. PICK s \in Ends \union {PENDING} :
        /\ Returns(k, s)
        /\ s = PENDING => \/ PENDING \in {status[Fut1[k]], status[Fut2[k]]}
                          \/ Stuck(k)
        /\ s # PENDING => PENDING \notin {status[Fut1[k]], status[Fut2[k]]}
  BY DEF CombinatorReturns, Ends, PENDING, COMPLETED, FAILURE
<1>5. ASSUME NEW m \in Subtree[k], m \in due \/ Stuck(m)
      PROVE  WakeDue(k)'
  <2>1. Stuck(m) => Stuck(m)'
    <3>1. SUFFICES ASSUME Stuck(m) PROVE Stuck(m)'
      OBVIOUS
    <3>2. m \in Nodes
      BY <1>1, SubtreeFacts DEF Closed
    <3>3. Fut1[m] \in Nodes /\ Fut2[m] \in Nodes
      BY <3>1, <3>2, Kinds, OneParent DEF Stuck
    <3>4. status[k] # FAILURE
      BY <1>1, RunningNode DEF PENDING, FAILURE
    <3>5. QED
      BY <1>1, <1>4, <3>1, <3>3, <3>4 DEF Stuck, Returns, Return, IInv, BaseInv
  <2>2. QED
    BY <1>1, <1>5, <2>1 DEF WakeDue
<1>6. s = PENDING => WakeDue(k)'
  <2>1. CASE Stuck(k)
    BY <1>1, <1>5, <2>1, SubtreeFacts
  <2>2. CASE \E c \in {Fut1[k], Fut2[k]} : status[c] = PENDING
    <3>1. PICK c \in {Fut1[k], Fut2[k]} : status[c] = PENDING
      BY <2>2
    <3>2. PICK m \in Subtree[c] : m \in due \/ Stuck(m)
      BY <1>1, <1>2, <3>1 DEF WaitInv, WakeInv, WakeDue
    <3>3. QED
      BY <1>3, <1>5, <3>2
  <2>3. QED
    BY <1>4, <2>1, <2>2
<1>7. s # PENDING => due' \intersect Subtree[k] = {}
  BY <1>1, <1>2, <1>3, <1>4 DEF WaitInv, DueInv
<1>8. QED
  BY <1>1, <1>4, <1>6, <1>7, ReturnWaits

LEMMA StepWaits == IInv /\ IInv' /\ WaitInv /\ [Next]_vars => WaitInv'
<1> SUFFICES ASSUME IInv, IInv', WaitInv, [Next]_vars PROVE WaitInv'
  OBVIOUS
<1>1. CASE Progress
  BY <1>1, ProgressIs, CallWaits
<1>2. CASE NodeStep
  <2>1. CASE \E m \in Nodes : IsCalled(m)
    BY <2>1, CallWaits
  <2>2. ASSUME NEW k \in Leaves, Returns(k, PENDING), k \in due'
        PROVE  WaitInv'
    <3>1. k \in Nodes /\ WakeDue(k)'
      BY <2>2, SubtreeFacts DEF WakeDue, Leaves, KindsAre
    <3>2. QED
      BY <2>2, <3>1, ReturnWaits
  <2>3. ASSUME NEW k \in Leaves, NEW s \in Ends, Returns(k, s), k \notin due'
        PROVE  WaitInv'
    <3>1. k \in Nodes /\ due' \intersect Subtree[k] = {} /\ s # PENDING
      BY <2>3, SubtreeFacts DEF Leaves, KindsAre, Ends, PENDING, COMPLETED, FAILURE
    <3>2. QED
      BY <2>3, <3>1, ReturnWaits
  <2>4. CASE \E k \in Inner : CombinatorReturns(k)
    BY <2>4, CombinatorWaits
  <2>5. QED
    BY <1>2, <2>1, <2>2, <2>3, <2>4, NodeStepIs
<1>3. CASE Resting \/ UNCHANGED vars
  BY <1>3 DEF Resting, vars, WaitInv, WakeInv, DueInv, WakeDue, Stuck, InCall
<1>4. QED
  BY <1>1, <1>2, <1>3 DEF Next

LEMMA InitWaits == Init => WaitInv
BY DEF Init, WaitInv, WakeInv, DueInv, PENDING

THEOREM WaitInvariance == Spec => []WaitInv
BY Invariance, InitWaits, StepWaits, PTL DEF Spec

(* A future that has ended, or is created and not yet called, has no leaf  *)
(* below it that will have the waker called: whoever frees it, or has not  *)
(* spawned it, needs not look below.                                       *)
THEOREM IdleLeavesNoWaker ==
  Spec => [](\A n \in Nodes : HasEnded(n) \/ (status[n] = "new" /\ ~InCall(n))
                              => due \intersect Subtree[n] = {})
<1>1. IInv /\ WaitInv =>
        \A n \in Nodes : HasEnded(n) \/ (status[n] = "new" /\ ~InCall(n))
                         => due \intersect Subtree[n] = {}
  BY DEF IInv, EndedInv, HasEnded, Ends, WaitInv, DueInv, PENDING, COMPLETED, FAILURE
<1>2. QED
  BY <1>1, Invariance, WaitInvariance, PTL

-----------------------------------------------------------------------------
(***************************************************************************)
(* The refinement.                                                         *)
(***************************************************************************)

LEMMA NodeKeepsContract ==
  ASSUME IInv, IInv', WaitInv', [Next]_vars, NEW n \in Nodes
  PROVE  [Life(n)!ContractNext]_(Life(n)!contractVars)
<1>1. /\ ~InCall(n)' /\ status'[n] = PENDING => WakeDue(n)'
      /\ InCall(n)' => status'[n] \notin Ends
  BY DEF WaitInv, WakeInv, IInv, EndedInv
<1>2. ASSUME status'[n] = status[n], InCall(n)' <=> InCall(n)
      PROVE  Life(n)!WakersChange
  BY <1>1, <1>2 DEF Life!WakersChange, WakeDue, InCall, PENDING
<1>3. ASSUME NEW m \in Nodes, IsCalled(m)
      PROVE  Life(n)!ContractNext
  <2>1. CASE n = m
    BY <1>1, <1>3, <2>1
    DEF IsCalled, InCall, Life!ContractNext, Life!Called, Life!Ended, Ends,
        COMPLETED, FAILURE
  <2>2. CASE n # m
    BY <1>2, <1>3, <2>2 DEF IsCalled, InCall, Life!ContractNext
  <2>3. QED
    BY <2>1, <2>2
<1>4. ASSUME NEW k \in Nodes, NEW s \in Ends \union {PENDING}, Returns(k, s)
      PROVE  Life(n)!ContractNext
  <2>1. /\ status'[k] = s /\ InCall(k) /\ ~InCall(k)'
        /\ \A m \in Nodes \ {k} : status'[m] = status[m] /\ (InCall(m)' <=> InCall(m))
    BY <1>4, RunningNode DEF Returns, Return, IInv, BaseInv, InCall
  <2>2. CASE n = k
    BY <1>1, <2>1, <2>2
    DEF InCall, Life!ContractNext, Life!Answered, WakeDue, Ends, PENDING,
        COMPLETED, FAILURE
  <2>3. CASE n # k
    BY <1>2, <2>1, <2>3 DEF Life!ContractNext
  <2>4. QED
    BY <2>2, <2>3
<1>5. CASE Progress
  BY <1>3, <1>5, ProgressIs, OneParent
<1>6. CASE NodeStep
  BY <1>3, <1>4, <1>6, NodeStepIs DEF CombinatorReturns, Leaves, KindsAre, Inner
<1>7. CASE Resting \/ UNCHANGED vars
  BY <1>2, <1>7 DEF Resting, vars, InCall, Life!ContractNext
<1>8. QED
  BY <1>5, <1>6, <1>7 DEF Next

(* Every future of every forest, leaf or combinator, is used as ProgressFn *)
(* (future.h:18-28) demands: one call at a time, none once it has ended,   *)
(* and a waker call due whenever it is left pending, unless a select below *)
(* it is stuck.                                                            *)
THEOREM MeetsContractHolds == Spec => MeetsContract
<1>1. Init => \A n \in Nodes : Life(n)!ContractInit
  <2> SUFFICES ASSUME Init, NEW n \in Nodes PROVE Life(n)!ContractInit
    OBVIOUS
  <2>1. Range(stack) = {}
    BY DEF Init, Range
  <2>2. ~\E m \in Subtree[n] : m \in due \/ Stuck(m)
    <3>1. ASSUME NEW m \in Subtree[n]
          PROVE  ~Stuck(m)
      <4>1. SUFFICES ASSUME Stuck(m) PROVE FALSE
        OBVIOUS
      <4>2. m \in Nodes
        BY SubtreeFacts DEF Closed
      <4>3. Fut1[m] \in Nodes
        BY <4>1, <4>2, Kinds, OneParent DEF Stuck
      <4>4. QED
        BY <4>1, <4>3 DEF Init, Stuck, FAILURE
    <3>2. QED
      BY <3>1 DEF Init
  <2>3. QED
    BY <2>1, <2>2 DEF Init, Life!ContractInit
<1>2. IInv /\ IInv' /\ WaitInv' /\ [Next]_vars
        => [\A n \in Nodes : [Life(n)!ContractNext]_(Life(n)!contractVars)]_vars
  BY NodeKeepsContract
<1>3. QED
  BY <1>1, <1>2, Invariance, WaitInvariance, PTL DEF Spec, MeetsContract
=============================================================================
