-------------------------- MODULE CombinatorsProofs --------------------------
(***************************************************************************)
(* What holds of the combinators in every forest: any number of trees, of  *)
(* any size and shape.                                                     *)
(***************************************************************************)
EXTENDS Combinators, SequenceTheorems, TLAPS

Ends == {COMPLETED, FAILURE}

IsChild(n, m) == n \in Inner /\ m \in {Fut1[n], Fut2[n]}

InCall(n) == n \in Range(stack)

(* The calls in progress are a path down from a root, without repetitions. *)
StackInv ==
  /\ stack \in Seq(Nodes)
  /\ stack # <<>> => stack[1] \in Roots
  /\ \A i \in 1 .. Len(stack) - 1 : IsChild(stack[i], stack[i + 1])
  /\ \A i, j \in 1 .. Len(stack) : stack[i] = stack[j] => i = j

(* A reply is the status of a child of the node that runs.                 *)
ReplyInv ==
  reply # <<>> =>
    /\ stack # <<>>
    /\ \E m \in Nodes : /\ IsChild(Last(stack), m)
                        /\ status[m] # "new"
                        /\ reply = <<m, status[m]>>

BaseInv ==
  /\ DOMAIN self = Nodes /\ DOMAIN arg = Nodes /\ DOMAIN ok = Nodes
  /\ errcode \in [Nodes -> 0 .. 3]
  /\ status \in [Nodes -> States]
  /\ due \subseteq Leaves

(* A future that has ended is not called.                                  *)
EndedInv == \A n \in Nodes : status[n] \in Ends => ~InCall(n)

(* The end of a child is on record in its parent, or on its way to it.     *)
ThenInv(n) ==
  LET fut1 == Fut1[n]
      fut2 == Fut2[n]
  IN  /\ self[n] \in [fut1_completed : BOOLEAN]
      /\ self[n].fut1_completed =>
           status[fut1] = COMPLETED /\ arg[fut2] = ok[fut1]
      /\ InCall(fut2) \/ status[fut2] # "new" => self[n].fut1_completed
      /\ status[fut1] = COMPLETED =>
           self[n].fut1_completed \/ HasReply(n, fut1, COMPLETED)
      /\ status[fut1] = FAILURE =>
           \/ HasReply(n, fut1, FAILURE)
           \/ status[n] = FAILURE /\ errcode[n] = ERR_FUT1_FAILED
      /\ status[fut2] = FAILURE =>
           \/ HasReply(n, fut2, FAILURE)
           \/ status[n] = FAILURE /\ errcode[n] = ERR_FUT2_FAILED
      /\ status[fut2] = COMPLETED =>
           \/ HasReply(n, fut2, COMPLETED)
           \/ status[n] = COMPLETED /\ ok[n] = ok[fut2]
      /\ status[n] = FAILURE => FAILURE \in {status[fut1], status[fut2]}
      /\ status[n] = COMPLETED => status[fut2] = COMPLETED

JoinFields == {"fut1_completed", "fut2_completed", "fut1", "fut2"}
ResultFields == {"errcode", "ok"}

(* What a join has on record of child m: s as last answered, and the value *)
(* saved.                                                                  *)
JoinRecord(n, m, s, saved) ==
  /\ s \in {PENDING, COMPLETED, FAILURE}
  /\ \/ s = status[m]
     \/ s = PENDING /\ status[m] = "new"
     \/ s = PENDING /\ HasReply(n, m, status[m])
  /\ HasReply(n, m, status[m]) => s = PENDING
  /\ DOMAIN saved = ResultFields
  /\ s = COMPLETED => saved.ok = ok[m]

JoinInv(n) ==
  LET fut1 == Fut1[n]
      fut2 == Fut2[n]
      s1 == self[n].fut1_completed
      s2 == self[n].fut2_completed
  IN  /\ DOMAIN self[n] = JoinFields
      /\ JoinRecord(n, fut1, s1, self[n].fut1)
      /\ JoinRecord(n, fut2, s2, self[n].fut2)
      /\ InCall(fut2) \/ status[fut2] # "new" => status[fut1] # "new"
      /\ status[n] # "new" => status[fut2] # "new"
      /\ errcode[n] = (IF s1 = FAILURE THEN ERR_FUT1_FAILED ELSE 0)
                    + (IF s2 = FAILURE THEN ERR_FUT2_FAILED ELSE 0)
      /\ status[n] = COMPLETED => s1 = COMPLETED /\ s2 = COMPLETED
      /\ status[n] = FAILURE => PENDING \notin {s1, s2} /\ FAILURE \in {s1, s2}
      /\ PENDING \notin {s1, s2} => status[n] \in Ends

SelectInv(n) ==
  LET fut1 == Fut1[n]
      fut2 == Fut2[n]
      which == self[n].which_completed
  IN  /\ self[n] \in [which_completed : {"none", "completedFut1", "completedFut2",
                                         "failedFut1", "failedBoth"}]
      /\ status[n] # FAILURE
      /\ status[n] = COMPLETED <=> which \in {"completedFut1", "completedFut2"}
      /\ which = "none" =>
           /\ status[fut1] \in {"new", PENDING} \/ HasReply(n, fut1, status[fut1])
           /\ ~InCall(fut2) /\ status[fut2] = "new"
      /\ which = "completedFut1" => status[fut1] = COMPLETED /\ ok[n] = ok[fut1]
      /\ which = "failedFut1" =>
           /\ status[fut1] = FAILURE
           /\ status[fut2] \in {"new", PENDING} \/ HasReply(n, fut2, status[fut2])
      /\ which = "completedFut2" => status[fut2] = COMPLETED /\ ok[n] = ok[fut2]
      /\ which = "failedBoth" =>
           /\ status[fut1] = FAILURE /\ status[fut2] = FAILURE
           /\ Running(n) => reply = <<>>

NodeInv(n) ==
  /\ Kind[n] = "then" => ThenInv(n)
  /\ Kind[n] = "join" => JoinInv(n)
  /\ Kind[n] = "select" => SelectInv(n)

IInv ==
  /\ StackInv /\ ReplyInv /\ BaseInv /\ EndedInv
  /\ \A n \in Nodes : NodeInv(n)
-----------------------------------------------------------------------------
(***************************************************************************)
(* Calls and returns: what becomes of the stack.                           *)
(***************************************************************************)

LEMMA UpTo ==
  ASSUME NEW n \in Nat \ {0}
  PROVE  /\ (IF 1 <= n - 1 THEN n - 1 - 1 + 1 ELSE 0) = n - 1
         /\ \A i \in 1 .. n - 1 : i \in 1 .. n - 1 - 1 + 1 /\ 1 + i - 1 = i
         /\ \A i \in 1 .. n : i = n \/ (i \in 1 .. n - 1 /\ i + 1 \in 1 .. n)
<1>1. (IF 1 <= n - 1 THEN n - 1 - 1 + 1 ELSE 0) = n - 1
  OBVIOUS
<1>2. ASSUME NEW i \in 1 .. n - 1
      PROVE  i \in 1 .. n - 1 - 1 + 1 /\ 1 + i - 1 = i
  OBVIOUS
<1>3. ASSUME NEW i \in 1 .. n
      PROVE  i = n \/ (i \in 1 .. n - 1 /\ i + 1 \in 1 .. n)
  <2>1. i \in Int /\ n \in Int /\ (i = n \/ i < n)
    OBVIOUS
  <2>2. CASE i < n
    BY <2>1, <2>2
  <2>3. QED
    BY <2>1, <2>2
<1>4. QED
  BY <1>1, <1>2, <1>3

LEMMA FrontProperties ==
  ASSUME NEW S, NEW s \in Seq(S), s # <<>>
  PROVE  /\ Len(s) \in Nat \ {0} /\ DOMAIN s = 1 .. Len(s)
         /\ Front(s) \in Seq(S)
         /\ Len(Front(s)) = Len(s) - 1
         /\ DOMAIN Front(s) = 1 .. Len(s) - 1
         /\ \A i \in 1 .. Len(s) - 1 : Front(s)[i] = s[i]
<1>1. Len(s) \in Nat \ {0} /\ DOMAIN s = 1 .. Len(s)
  BY EmptySeq, LenProperties
<1>2. \A i \in 1 .. Len(s) - 1 : s[i] \in S
  BY <1>1, ElementOfSeq
<1>3. /\ Front(s) \in Seq(S)
      /\ Len(Front(s)) = IF 1 <= Len(s) - 1 THEN Len(s) - 1 - 1 + 1 ELSE 0
      /\ \A i \in 1 .. Len(s) - 1 - 1 + 1 : Front(s)[i] = s[1 + i - 1]
  BY <1>1, <1>2, SubSeqProperties, 1 \in Int, Len(s) - 1 \in Int DEF Front
<1>4. Len(Front(s)) = Len(s) - 1
  BY <1>1, <1>3, UpTo
<1>5. ASSUME NEW i \in 1 .. Len(s) - 1
      PROVE  Front(s)[i] = s[i]
  <2>1. i \in 1 .. Len(s) - 1 - 1 + 1 /\ 1 + i - 1 = i
    BY <1>1, UpTo
  <2>2. Front(s)[i] = s[1 + i - 1]
    BY <1>3, <2>1
  <2>3. QED
    BY <2>1, <2>2
<1>6. QED
  BY <1>1, <1>3, <1>4, <1>5, LenProperties

(* A node has one parent, and a root has none.                             *)
LEMMA OneParent ==
  /\ Roots \subseteq Nodes
  /\ \A n, m \in Nodes : IsChild(n, m) => m \in Nodes \ Roots
  /\ \A n1, n2, m \in Nodes : IsChild(n1, m) /\ IsChild(n2, m) => n1 = n2
  /\ \A n \in Inner : n \in Nodes /\ IsChild(n, Fut1[n]) /\ IsChild(n, Fut2[n])
  /\ \A n \in Inner : Fut1[n] # Fut2[n] /\ Fut1[n] \in Nodes /\ Fut2[n] \in Nodes
BY TreeAssumption DEF IsChild, Inner

(* The node that runs is on the stack once, and no child of it is.         *)
LEMMA TopOfStack ==
  ASSUME StackInv, NEW k, Running(k)
  PROVE  /\ k \in Nodes /\ InCall(k)
         /\ \A m \in Nodes : IsChild(k, m) => ~InCall(m) /\ m # k
<1>1. /\ stack \in Seq(Nodes) /\ stack # <<>>
      /\ k = stack[Len(stack)]
      /\ Len(stack) \in Nat \ {0} /\ DOMAIN stack = 1 .. Len(stack)
  BY FrontProperties DEF StackInv, Running, Last
<1>2. k \in Nodes /\ InCall(k)
  BY <1>1, ElementOfSeq DEF InCall, Range
<1>3. ASSUME NEW m \in Nodes, IsChild(k, m), InCall(m)
      PROVE  FALSE
  <2>1. PICK i \in 1 .. Len(stack) : m = stack[i]
    BY <1>1, <1>3 DEF InCall, Range
  <2>2. i # 1
    BY <1>1, <1>2, <1>3, <2>1, OneParent DEF StackInv
  <2>3. i - 1 \in 1 .. Len(stack) - 1 /\ (i - 1) + 1 = i /\ i - 1 # Len(stack)
    BY <1>1, <2>1, <2>2
  <2>4. IsChild(stack[i - 1], m)
    BY <2>1, <2>3 DEF StackInv
  <2>5. stack[i - 1] \in Nodes
    BY <1>1, <2>3, ElementOfSeq
  <2>6. stack[i - 1] = k
    BY <1>2, <1>3, <2>4, <2>5, OneParent
  <2>7. i - 1 \in 1 .. Len(stack) /\ Len(stack) \in 1 .. Len(stack)
    BY <1>1, <2>3
  <2>8. QED
    BY <1>1, <2>3, <2>6, <2>7 DEF StackInv
<1>4. QED
  BY <1>2, <1>3

LEMMA CallStack ==
  ASSUME StackInv, NEW k, Running(k), NEW m \in Nodes, IsChild(k, m), Call(m)
  PROVE  /\ StackInv'
         /\ Range(stack') = Range(stack) \union {m}
         /\ stack' # <<>> /\ Last(stack') = m
<1> DEFINE top == Len(stack)
<1>1. /\ stack \in Seq(Nodes) /\ stack # <<>>
      /\ k = stack[top]
      /\ top \in Nat \ {0} /\ DOMAIN stack = 1 .. top
  BY FrontProperties DEF StackInv, Running, Last
<1>2. /\ stack' \in Seq(Nodes) /\ stack' # <<>>
      /\ Len(stack') = top + 1
      /\ \A i \in 1 .. top : stack'[i] = stack[i]
      /\ stack'[top + 1] = m
      /\ DOMAIN stack' = 1 .. top + 1
  BY <1>1, AppendProperties, LenProperties DEF Call
<1>3. \A i \in 1 .. top + 1 : i \in 1 .. top \/ i = top + 1
  BY <1>1
<1>4. 1 .. top \subseteq 1 .. top + 1 /\ top + 1 \in 1 .. top + 1 /\ 1 \in 1 .. top
  BY <1>1
<1>5. Range(stack') = Range(stack) \union {m}
  BY <1>1, <1>2, <1>3, <1>4 DEF Range
<1>6. \A i \in 1 .. top : stack[i] # m
  BY <1>1, TopOfStack DEF InCall, Range
<1>7. \A i, j \in 1 .. top + 1 : stack'[i] = stack'[j] => i = j
  BY <1>2, <1>3, <1>6 DEF StackInv
<1>8. \A i \in 1 .. top : IsChild(stack'[i], stack'[i + 1])
  <2>1. ASSUME NEW i \in 1 .. top
        PROVE  IsChild(stack'[i], stack'[i + 1])
    <3>1. CASE i = top
      BY <1>1, <1>2, <3>1
    <3>2. CASE i # top
      <4>1. i \in 1 .. top - 1 /\ i + 1 \in 1 .. top
        BY <1>1, <3>2, UpTo
      <4>2. QED
        BY <1>2, <4>1 DEF StackInv
    <3>3. QED
      BY <3>1, <3>2
  <2>2. QED
    BY <2>1
<1>9. Len(stack') - 1 = top
  BY <1>1, <1>2
<1>10. StackInv'
  BY <1>1, <1>2, <1>4, <1>7, <1>8, <1>9 DEF StackInv, IsChild
<1>11. QED
  BY <1>2, <1>5, <1>10 DEF Last

(* The node below the one that returns is its parent.                      *)
LEMMA ReturnStack ==
  ASSUME StackInv, NEW k, Running(k), stack' = Front(stack)
  PROVE  /\ StackInv'
         /\ Range(stack') = Range(stack) \ {k}
         /\ stack' # <<>> => /\ IsChild(Last(stack'), k) /\ k \notin Roots
                            /\ Last(stack') \in Range(stack)
         /\ stack' = <<>> => k \in Roots
<1> DEFINE top == Len(stack)
<1>1. /\ stack \in Seq(Nodes) /\ stack # <<>>
      /\ k = stack[top] /\ k \in Nodes
      /\ top \in Nat \ {0} /\ DOMAIN stack = 1 .. top
  BY FrontProperties, TopOfStack DEF StackInv, Running, Last
<1>2. /\ stack' \in Seq(Nodes)
      /\ Len(stack') = top - 1
      /\ \A i \in 1 .. top - 1 : stack'[i] = stack[i]
      /\ DOMAIN stack' = 1 .. top - 1
  BY <1>1, FrontProperties
<1>3. \A i \in 1 .. top : i \in 1 .. top - 1 \/ i = top
  BY <1>1, UpTo
<1>4. 1 .. top - 1 \subseteq 1 .. top /\ top \in 1 .. top /\ top \notin 1 .. top - 1
  BY <1>1
<1>5. Range(stack') = Range(stack) \ {k}
  <2>1. \A i \in 1 .. top - 1 : stack[i] # k
    BY <1>1, <1>4 DEF StackInv
  <2>2. QED
    BY <1>1, <1>2, <1>3, <1>4, <2>1 DEF Range
<1>6. \A i, j \in 1 .. Len(stack') : stack'[i] = stack'[j] => i = j
  BY <1>2, <1>4 DEF StackInv
<1>7. \A i \in 1 .. Len(stack') - 1 : IsChild(stack'[i], stack'[i + 1])
  <2>1. \A i \in 1 .. Len(stack') - 1 : i \in 1 .. top - 1 /\ i + 1 \in 1 .. top - 1
    BY <1>1, <1>2
  <2>2. QED
    BY <1>2, <2>1 DEF StackInv
<1>8. CASE top = 1
  <2>1. stack' = <<>>
    BY <1>2, <1>8, EmptySeq
  <2>2. k \in Roots
    BY <1>1, <1>8 DEF StackInv
  <2>3. QED
    BY <1>2, <1>5, <1>6, <1>7, <2>1, <2>2 DEF StackInv, IsChild
<1>9. CASE top # 1
  <2>1. top - 1 \in 1 .. top - 1 /\ (top - 1) + 1 = top /\ 1 \in 1 .. top - 1
    BY <1>1, <1>9
  <2>2. stack' # <<>> /\ Last(stack') = stack[top - 1]
    BY <1>2, <2>1, EmptySeq DEF Last
  <2>3. IsChild(stack[top - 1], k)
    BY <1>1, <2>1 DEF StackInv
  <2>4. stack[top - 1] \in Nodes /\ stack[top - 1] \in Range(stack)
    BY <1>1, <1>4, <2>1, ElementOfSeq DEF Range
  <2>5. k \notin Roots
    BY <1>1, <2>3, <2>4, OneParent
  <2>6. stack'[1] \in Roots
    BY <1>1, <1>2, <2>1 DEF StackInv
  <2>7. QED
    BY <1>2, <1>5, <1>6, <1>7, <2>2, <2>3, <2>4, <2>5, <2>6 DEF StackInv, IsChild
<1>10. QED
  BY <1>8, <1>9
-----------------------------------------------------------------------------
(***************************************************************************)
(* What a step of the running node k leaves alone, and why that is enough  *)
(* for the other nodes.                                                    *)
(***************************************************************************)

Changes(k) ==
  /\ DOMAIN self' = Nodes /\ DOMAIN arg' = Nodes /\ DOMAIN ok' = Nodes
  /\ errcode' \in [Nodes -> 0 .. 3]
  /\ due' \subseteq Leaves
  /\ \A n \in Nodes \ {k} :
       self'[n] = self[n] /\ errcode'[n] = errcode[n] /\ ok'[n] = ok[n]
  /\ \A n \in Nodes : IsChild(k, n) \/ arg'[n] = arg[n]

LEMMA Kinds ==
  \A n \in Nodes : Kind[n] \in {"then", "join", "select"} => n \in Inner
BY DEF Inner, Leaves, KindsAre

LEMMA CallStep ==
  ASSUME IInv, NEW k \in Nodes, Running(k), Changes(k), ok' = ok,
         NEW m \in Nodes, IsChild(k, m), Call(m), status[m] \notin Ends,
         NodeInv(k)'
  PROVE  IInv'
<1>1. /\ StackInv'
      /\ Range(stack') = Range(stack) \union {m}
      /\ reply' = <<>> /\ status' = status
  BY CallStack DEF IInv, Call
<1>2. ReplyInv' /\ BaseInv' /\ EndedInv'
  BY <1>1 DEF IInv, ReplyInv, BaseInv, EndedInv, Changes, InCall
<1>3. ASSUME NEW n \in Inner, n # k, NodeInv(n)
      PROVE  NodeInv(n)'
  <2>1. /\ n \in Nodes /\ Fut1[n] \in Nodes /\ Fut2[n] \in Nodes
        /\ Fut1[n] # m /\ Fut2[n] # m
        /\ ~IsChild(k, Fut2[n])
    BY <1>3, OneParent
  <2>2. /\ self'[n] = self[n] /\ errcode'[n] = errcode[n]
        /\ arg'[Fut2[n]] = arg[Fut2[n]]
        /\ InCall(Fut2[n])' <=> InCall(Fut2[n])
    BY <1>1, <1>3, <2>1 DEF Changes, InCall
  <2>3. ~Running(n)
    BY <1>3 DEF Running
  <2>4. ThenInv(n) => ThenInv(n)'
    BY <1>1, <2>2, <2>3 DEF ThenInv, HasReply
  <2>5. JoinInv(n) => JoinInv(n)'
    BY <1>1, <2>2, <2>3 DEF JoinInv, JoinRecord, HasReply
  <2>6. SelectInv(n) => SelectInv(n)'
    BY <1>1, <2>2, <2>3 DEF SelectInv, HasReply
  <2>7. QED
    BY <1>3, <2>4, <2>5, <2>6 DEF NodeInv
<1>4. \A n \in Nodes : NodeInv(n)'
  BY <1>3, Kinds DEF IInv, NodeInv
<1>5. QED
  BY <1>1, <1>2, <1>4 DEF IInv

LEMMA ReturnStep ==
  ASSUME IInv, NEW k \in Nodes, Running(k), Changes(k), arg' = arg,
         NEW s \in States \ {"new"}, Return(k, s), NodeInv(k)'
  PROVE  IInv'
<1>1. /\ StackInv'
      /\ Range(stack') = Range(stack) \ {k}
      /\ stack' # <<>> => /\ IsChild(Last(stack'), k) /\ k \notin Roots
                         /\ Last(stack') \in Range(stack)
      /\ stack' = <<>> => k \in Roots
  BY ReturnStack DEF IInv, Return
<1>2. /\ status' \in [Nodes -> States]
      /\ status'[k] = s
      /\ \A n \in Nodes \ {k} : status'[n] = status[n]
      /\ reply' = IF k \in Roots THEN <<>> ELSE <<k, s>>
  BY DEF IInv, BaseInv, Return
<1>3. InCall(k) /\ status[k] \in {"new", PENDING}
  BY TopOfStack DEF IInv, EndedInv, BaseInv, States, Ends
<1>4. ReplyInv'
  BY <1>1, <1>2 DEF ReplyInv
<1>5. BaseInv' /\ EndedInv'
  BY <1>1, <1>2 DEF IInv, BaseInv, EndedInv, Changes, InCall
<1>6. ASSUME NEW n \in Inner, n # k, NodeInv(n)
      PROVE  NodeInv(n)'
  <2>1. /\ n \in Nodes /\ Fut1[n] \in Nodes /\ Fut2[n] \in Nodes
        /\ Fut1[n] # Fut2[n]
    BY <1>6, OneParent
  <2>2. /\ self'[n] = self[n] /\ errcode'[n] = errcode[n] /\ ok'[n] = ok[n]
        /\ arg' = arg /\ status'[n] = status[n]
        /\ ~Running(n)
    BY <1>2, <1>6, <2>1 DEF Changes, Running
  <2>3. CASE ~IsChild(n, k)
    <3>1. Fut1[n] # k /\ Fut2[n] # k /\ ~(stack' # <<>> /\ Last(stack') = n)
      BY <1>1, <1>6, <2>3 DEF IsChild
    <3>2. /\ status'[Fut1[n]] = status[Fut1[n]] /\ status'[Fut2[n]] = status[Fut2[n]]
          /\ ok'[Fut1[n]] = ok[Fut1[n]] /\ ok'[Fut2[n]] = ok[Fut2[n]]
          /\ InCall(Fut2[n])' <=> InCall(Fut2[n])
      BY <1>1, <1>2, <2>1, <3>1 DEF Changes, InCall
    <3>3. ThenInv(n) => ThenInv(n)'
      BY <2>2, <3>1, <3>2 DEF ThenInv, HasReply, Running
    <3>4. JoinInv(n) => JoinInv(n)'
      BY <2>2, <3>1, <3>2 DEF JoinInv, JoinRecord, HasReply, Running
    <3>5. SelectInv(n) => SelectInv(n)'
      BY <2>2, <3>1, <3>2 DEF SelectInv, HasReply, Running
    <3>6. QED
      BY <1>6, <3>3, <3>4, <3>5 DEF NodeInv
  <2>4. CASE IsChild(n, k)
    <3>1. stack' # <<>> /\ Last(stack') = n /\ reply' = <<k, s>>
      BY <1>1, <1>2, <2>1, <2>4, OneParent DEF IsChild, Inner
    <3>2. status[n] \notin Ends
      BY <1>1, <2>1, <3>1 DEF IInv, EndedInv, InCall
    <3>3. CASE k = Fut1[n]
      <4>1. /\ status'[Fut2[n]] = status[Fut2[n]] /\ ok'[Fut2[n]] = ok[Fut2[n]]
            /\ InCall(Fut2[n])' <=> InCall(Fut2[n])
        BY <1>1, <1>2, <2>1, <3>3 DEF Changes, InCall
      <4>2. ThenInv(n) => ThenInv(n)'
        BY <1>2, <1>3, <2>2, <3>1, <3>2, <3>3, <4>1
        DEF ThenInv, HasReply, Running, Ends, PENDING, COMPLETED, FAILURE, States
      <4>3. JoinInv(n) => JoinInv(n)'
        <5>1. ASSUME JoinRecord(n, k, self[n].fut1_completed, self[n].fut1)
              PROVE  /\ JoinRecord(n, k, self[n].fut1_completed, self[n].fut1)'
                     /\ self[n].fut1_completed = PENDING
          BY <1>2, <1>3, <2>2, <3>1, <5>1
          DEF JoinRecord, HasReply, Running, PENDING, COMPLETED, FAILURE
        <5>2. ASSUME JoinRecord(n, Fut2[n], self[n].fut2_completed, self[n].fut2)
              PROVE  JoinRecord(n, Fut2[n], self[n].fut2_completed, self[n].fut2)'
          BY <2>1, <2>2, <3>1, <3>3, <4>1, <5>2
          DEF JoinRecord, HasReply, Running
        <5>3. QED
          BY <1>2, <1>3, <2>2, <3>1, <3>2, <3>3, <4>1, <5>1, <5>2
          DEF JoinInv, PENDING, COMPLETED, FAILURE, States
      <4>4. SelectInv(n) => SelectInv(n)'
        BY <1>2, <1>3, <2>2, <3>1, <3>2, <3>3, <4>1
        DEF SelectInv, HasReply, Running, Ends, PENDING, COMPLETED, FAILURE, States
      <4>5. QED
        BY <1>6, <4>2, <4>3, <4>4 DEF NodeInv
    <3>4. CASE k = Fut2[n]
      <4>1. /\ status'[Fut1[n]] = status[Fut1[n]] /\ ok'[Fut1[n]] = ok[Fut1[n]]
            /\ InCall(Fut2[n]) /\ ~InCall(Fut2[n])'
        BY <1>1, <1>2, <1>3, <2>1, <3>4 DEF Changes, InCall
      <4>2. ThenInv(n) => ThenInv(n)'
        BY <1>2, <1>3, <2>2, <3>1, <3>2, <3>4, <4>1
        DEF ThenInv, HasReply, Running, Ends, PENDING, COMPLETED, FAILURE, States
      <4>3. JoinInv(n) => JoinInv(n)'
        <5>1. ASSUME JoinRecord(n, k, self[n].fut2_completed, self[n].fut2)
              PROVE  /\ JoinRecord(n, k, self[n].fut2_completed, self[n].fut2)'
                     /\ self[n].fut2_completed = PENDING
          BY <1>2, <1>3, <2>2, <3>1, <5>1
          DEF JoinRecord, HasReply, Running, PENDING, COMPLETED, FAILURE
        <5>2. ASSUME JoinRecord(n, Fut1[n], self[n].fut1_completed, self[n].fut1)
              PROVE  JoinRecord(n, Fut1[n], self[n].fut1_completed, self[n].fut1)'
          BY <2>1, <2>2, <3>1, <3>4, <4>1, <5>2
          DEF JoinRecord, HasReply, Running
        <5>3. QED
          BY <1>2, <1>3, <2>2, <3>1, <3>2, <3>4, <4>1, <5>1, <5>2
          DEF JoinInv, PENDING, COMPLETED, FAILURE, States
      <4>4. SelectInv(n) => SelectInv(n)'
        BY <1>2, <1>3, <2>2, <3>1, <3>2, <3>4, <4>1
        DEF SelectInv, HasReply, Running, Ends, PENDING, COMPLETED, FAILURE, States
      <4>5. QED
        BY <1>6, <4>2, <4>3, <4>4 DEF NodeInv
    <3>5. QED
      BY <2>4, <3>3, <3>4 DEF IsChild
  <2>5. QED
    BY <2>3, <2>4
<1>7. \A n \in Nodes : NodeInv(n)'
  BY <1>6, Kinds DEF IInv, NodeInv
<1>8. QED
  BY <1>1, <1>4, <1>5, <1>7 DEF IInv

LEMMA RunningNode ==
  ASSUME IInv, NEW k \in Nodes, Running(k)
  PROVE  /\ InCall(k) /\ status[k] \in {"new", PENDING}
         /\ k \in Inner =>
              \A m \in {Fut1[k], Fut2[k]} :
                m \in Nodes /\ m # k /\ IsChild(k, m) /\ ~InCall(m)
         /\ k \in Inner => Fut1[k] # Fut2[k]
         /\ \A m, s : HasReply(k, m, s) =>
              s = status[m] /\ s \in {PENDING, COMPLETED, FAILURE}
<1>1. InCall(k) /\ \A m \in Nodes : IsChild(k, m) => ~InCall(m) /\ m # k
  BY TopOfStack DEF IInv
<1>2. status[k] \in {"new", PENDING}
  BY <1>1 DEF IInv, EndedInv, BaseInv, States, Ends
<1>3. ASSUME NEW m, NEW s, HasReply(k, m, s)
      PROVE  s = status[m] /\ s \in {PENDING, COMPLETED, FAILURE}
  BY <1>3 DEF HasReply, IInv, ReplyInv, BaseInv, States
<1>4. QED
  BY <1>1, <1>2, <1>3, OneParent

-----------------------------------------------------------------------------
(***************************************************************************)
(* The steps of a leaf.                                                    *)
(***************************************************************************)

LEMMA LeafInv ==
  ASSUME IInv, NEW k \in Leaves, LeafStep(k)
  PROVE  IInv'
<1>1. k \in Nodes /\ Running(k) /\ Kind[k] = "leaf"
  BY DEF LeafStep, LeafEnds, LeafPends, LeafCompletes, LeafFails, JustCalled,
         Leaves, KindsAre
<1>2. NodeInv(k)'
  BY <1>1 DEF NodeInv
<1>3. CASE LeafPends(k)
  <2>1. Changes(k)
    BY <1>1, <1>3 DEF Changes, LeafPends, IInv, BaseInv, baseVars
  <2>2. QED
    BY <1>1, <1>2, <1>3, <2>1, ReturnStep
    DEF LeafPends, baseVars, States, PENDING, COMPLETED, FAILURE
<1>4. CASE LeafCompletes(k)
  <2>1. Changes(k)
    BY <1>1, <1>4 DEF Changes, LeafCompletes, IInv, BaseInv
  <2>2. QED
    BY <1>1, <1>2, <1>4, <2>1, ReturnStep
    DEF LeafCompletes, States, PENDING, COMPLETED, FAILURE
<1>5. CASE LeafFails(k)
  <2>1. Changes(k)
    BY <1>1, <1>5 DEF Changes, LeafFails, IInv, BaseInv, LEAF_ERRCODE
  <2>2. QED
    BY <1>1, <1>2, <1>5, <2>1, ReturnStep
    DEF LeafFails, States, PENDING, COMPLETED, FAILURE
<1>6. QED
  BY <1>3, <1>4, <1>5 DEF LeafStep, LeafEnds

-----------------------------------------------------------------------------
(***************************************************************************)
(* The steps of a ThenFuture.                                              *)
(***************************************************************************)

LEMMA ThenStepInv ==
  ASSUME IInv, NEW k \in KindsAre("then"), ThenStep(k)
  PROVE  IInv'
<1>1. /\ k \in Nodes /\ k \in Inner /\ Kind[k] = "then"
      /\ Running(k)
      /\ ThenInv(k)
  BY Kinds DEF ThenStep, ThenProgress, ThenFut1Completes, ThenFut2Completes,
               ThenFails, ChildPends, JustCalled, HasReply, KindsAre, IInv, NodeInv
<1>2. /\ InCall(k) /\ status[k] \in {"new", PENDING}
      /\ \A m \in {Fut1[k], Fut2[k]} :
           m \in Nodes /\ m # k /\ IsChild(k, m) /\ ~InCall(m)
      /\ Fut1[k] # Fut2[k]
      /\ \A m, s : HasReply(k, m, s) =>
           s = status[m] /\ s \in {PENDING, COMPLETED, FAILURE}
  BY <1>1, RunningNode
<1>3. ThenInv(k)' => NodeInv(k)'
  BY <1>1 DEF NodeInv
<1>4. CASE ThenProgress(k)
  <2>1. PICK m \in {Fut1[k], Fut2[k]} :
          m = (IF self[k].fut1_completed THEN Fut2[k] ELSE Fut1[k]) /\ Call(m)
    BY <1>4 DEF ThenProgress
  <2>2. /\ self' = self /\ ok' = ok /\ arg' = arg /\ errcode' = errcode
        /\ due' = due /\ status' = status /\ reply = <<>> /\ reply' = <<>>
    BY <1>4, <2>1 DEF ThenProgress, JustCalled, Call, baseVars
  <2>3. Changes(k)
    BY <2>2 DEF Changes, IInv, BaseInv
  <2>4. status[m] \notin Ends
    BY <1>1, <1>2, <2>1, <2>2
    DEF ThenInv, HasReply, Ends, PENDING, COMPLETED, FAILURE
  <2>5. Range(stack') = Range(stack) \union {m}
    BY <1>1, <1>2, <2>1, CallStack DEF IInv
  <2>6. ThenInv(k)'
    BY <1>1, <1>2, <2>1, <2>2, <2>4, <2>5
    DEF ThenInv, HasReply, InCall, Ends, PENDING, COMPLETED, FAILURE
  <2>7. QED
    BY <1>1, <1>2, <1>3, <2>1, <2>2, <2>3, <2>4, <2>6, CallStep
<1>5. CASE ThenFut1Completes(k)
  <2>1. /\ HasReply(k, Fut1[k], COMPLETED) /\ Call(Fut2[k])
        /\ self' = [self EXCEPT ![k].fut1_completed = TRUE]
        /\ arg' = [arg EXCEPT ![Fut2[k]] = ok[Fut1[k]]]
        /\ ok' = ok /\ errcode' = errcode
        /\ due' = due /\ status' = status /\ reply' = <<>>
    BY <1>5 DEF ThenFut1Completes, Call
  <2>2. status[Fut1[k]] = COMPLETED /\ status[Fut2[k]] \notin Ends
    BY <1>1, <1>2, <2>1 DEF ThenInv, HasReply, Ends, PENDING, COMPLETED, FAILURE
  <2>3. Changes(k)
    BY <1>2, <2>1 DEF Changes, IInv, BaseInv
  <2>4. /\ self'[k] \in [fut1_completed : BOOLEAN] /\ self'[k].fut1_completed
        /\ arg'[Fut2[k]] = ok[Fut1[k]]
    <3>1. self'[k] = [fut1_completed |-> TRUE] /\ arg'[Fut2[k]] = ok[Fut1[k]]
      BY <1>1, <1>2, <2>1 DEF ThenInv, IInv, BaseInv
    <3>2. QED
      BY <3>1
  <2>5. ThenInv(k)'
    BY <1>2, <2>1, <2>2, <2>4 DEF ThenInv, Ends, PENDING, COMPLETED, FAILURE
  <2>6. QED
    BY <1>1, <1>2, <1>3, <2>1, <2>2, <2>3, <2>5, CallStep
<1>6. ASSUME NEW s, Return(k, s)
      PROVE  /\ status' = [status EXCEPT ![k] = s]
             /\ status'[k] = s
             /\ status'[Fut1[k]] = status[Fut1[k]]
             /\ status'[Fut2[k]] = status[Fut2[k]]
             /\ ~InCall(Fut2[k])'
  <2>1. Range(stack') = Range(stack) \ {k}
    BY <1>1, <1>6, ReturnStack DEF IInv, Return
  <2>2. QED
    BY <1>1, <1>2, <1>6, <2>1 DEF IInv, BaseInv, InCall, Return
<1>7. CASE ThenFut2Completes(k)
  <2>1. /\ HasReply(k, Fut2[k], COMPLETED) /\ Return(k, COMPLETED)
        /\ ok' = [ok EXCEPT ![k] = ok[Fut2[k]]]
        /\ self' = self /\ arg' = arg /\ errcode' = errcode /\ due' = due
    BY <1>7 DEF ThenFut2Completes
  <2>2. Changes(k)
    BY <2>1 DEF Changes, IInv, BaseInv
  <2>3. /\ status[Fut2[k]] = COMPLETED /\ status[Fut1[k]] = COMPLETED
        /\ self[k] \in [fut1_completed : BOOLEAN] /\ self[k].fut1_completed
        /\ arg[Fut2[k]] = ok[Fut1[k]]
    BY <1>1, <1>2, <2>1 DEF ThenInv, PENDING, COMPLETED, FAILURE
  <2>4. /\ ok'[k] = ok[Fut2[k]]
        /\ ok'[Fut1[k]] = ok[Fut1[k]] /\ ok'[Fut2[k]] = ok[Fut2[k]]
    BY <1>1, <1>2, <2>1 DEF IInv, BaseInv
  <2>5. ThenInv(k)'
    BY <1>6, <2>1, <2>3, <2>4 DEF ThenInv, PENDING, COMPLETED, FAILURE
  <2>6. QED
    BY <1>1, <1>3, <2>1, <2>2, <2>5, ReturnStep
    DEF States, PENDING, COMPLETED, FAILURE
<1>8. CASE ThenFails(k)
  <2>1. PICK m \in {Fut1[k], Fut2[k]} :
          /\ HasReply(k, m, FAILURE)
          /\ errcode' = [errcode EXCEPT ![k] = ThenErrcode(k, m)]
    BY <1>8 DEF ThenFails
  <2>2. /\ Return(k, FAILURE)
        /\ self' = self /\ ok' = ok /\ arg' = arg /\ due' = due
    BY <1>8 DEF ThenFails
  <2>3. Changes(k)
    <3>1. ThenErrcode(k, m) \in 0 .. 3
      BY DEF ThenErrcode, ERR_FUT1_FAILED, ERR_FUT2_FAILED
    <3>2. QED
      BY <1>1, <2>1, <2>2, <3>1 DEF Changes, IInv, BaseInv
  <2>4. /\ status[m] = FAILURE
        /\ m = Fut2[k] => status[Fut1[k]] = COMPLETED
        /\ errcode'[k] = ThenErrcode(k, m)
    BY <1>1, <1>2, <2>1
    DEF ThenInv, IInv, BaseInv, PENDING, COMPLETED, FAILURE
  <2>5. m = Fut1[k] => status[Fut2[k]] = "new" /\ ~self[k].fut1_completed
    BY <1>1, <1>2, <2>4 DEF ThenInv, COMPLETED, FAILURE
  <2>6. ThenInv(k)'
    BY <1>1, <1>2, <1>6, <2>2, <2>4, <2>5
    DEF ThenInv, ThenErrcode, PENDING, COMPLETED, FAILURE
  <2>7. QED
    BY <1>1, <1>3, <2>2, <2>3, <2>6, ReturnStep
    DEF States, PENDING, COMPLETED, FAILURE
<1>9. CASE ChildPends(k)
  <2>1. PICK m \in {Fut1[k], Fut2[k]} : HasReply(k, m, PENDING)
    BY <1>9 DEF ChildPends
  <2>2. /\ Return(k, PENDING)
        /\ self' = self /\ ok' = ok /\ arg' = arg /\ errcode' = errcode
        /\ due' = due
    BY <1>9 DEF ChildPends, baseVars
  <2>3. Changes(k)
    BY <2>2 DEF Changes, IInv, BaseInv
  <2>4. \A x, s \in {COMPLETED, FAILURE} : ~HasReply(k, x, s)
    BY <2>1 DEF HasReply, PENDING, COMPLETED, FAILURE
  <2>5. /\ status[Fut1[k]] # FAILURE
        /\ status[Fut2[k]] \notin {COMPLETED, FAILURE}
        /\ status[Fut1[k]] = COMPLETED => self[k].fut1_completed
    BY <1>1, <1>2, <2>1, <2>4
    DEF ThenInv, HasReply, PENDING, COMPLETED, FAILURE
  <2>6. ThenInv(k)'
    BY <1>1, <1>6, <2>2, <2>5 DEF ThenInv, PENDING, COMPLETED, FAILURE
  <2>7. QED
    BY <1>1, <1>3, <2>2, <2>3, <2>6, ReturnStep
    DEF States, PENDING, COMPLETED, FAILURE
<1>10. QED
  BY <1>4, <1>5, <1>7, <1>8, <1>9 DEF ThenStep

-----------------------------------------------------------------------------
(***************************************************************************)
(* The steps of a SelectFuture.                                            *)
(***************************************************************************)

LEMMA SelectStepInv ==
  ASSUME IInv, NEW k \in KindsAre("select"), SelectStep(k)
  PROVE  IInv'
<1>1. /\ k \in Nodes /\ k \in Inner /\ Kind[k] = "select"
      /\ Running(k)
      /\ SelectInv(k)
  BY Kinds DEF SelectStep, SelectProgress, SelectCompletes, SelectChildFails,
               ChildPends, JustCalled, HasReply, KindsAre, IInv, NodeInv
<1>2. /\ InCall(k) /\ status[k] \in {"new", PENDING}
      /\ \A m \in {Fut1[k], Fut2[k]} :
           m \in Nodes /\ m # k /\ IsChild(k, m) /\ ~InCall(m)
      /\ Fut1[k] # Fut2[k]
      /\ \A m, s : HasReply(k, m, s) =>
           s = status[m] /\ s \in {PENDING, COMPLETED, FAILURE}
  BY <1>1, RunningNode
<1>3. SelectInv(k)' => NodeInv(k)'
  BY <1>1 DEF NodeInv
<1>4. ASSUME NEW s, Return(k, s)
      PROVE  /\ status'[k] = s
             /\ status'[Fut1[k]] = status[Fut1[k]]
             /\ status'[Fut2[k]] = status[Fut2[k]]
             /\ ~InCall(Fut2[k])' /\ ~Running(k)'
  <2>1. /\ Range(stack') = Range(stack) \ {k}
        /\ stack' # <<>> => IsChild(Last(stack'), k)
    BY <1>1, <1>4, ReturnStack DEF IInv, Return
  <2>2. ~Running(k)'
    BY <1>2, <2>1 DEF IsChild, Running
  <2>3. QED
    BY <1>1, <1>2, <1>4, <2>1, <2>2 DEF IInv, BaseInv, InCall, Return
<1>5. CASE SelectProgress(k)
  <2>1. /\ self' = self /\ ok' = ok /\ arg' = arg /\ errcode' = errcode
        /\ due' = due /\ reply = <<>>
    BY <1>5 DEF SelectProgress, JustCalled, baseVars
  <2>2. Changes(k)
    BY <2>1 DEF Changes, IInv, BaseInv
  <2>3. \A m, s : ~HasReply(k, m, s)
    BY <2>1 DEF HasReply
  <2>4. CASE self[k].which_completed = "none" /\ Call(Fut1[k])
    <3>1. status[Fut1[k]] \notin Ends
      BY <1>1, <2>3, <2>4 DEF SelectInv, Ends, PENDING, COMPLETED, FAILURE
    <3>2. status' = status /\ Range(stack') = Range(stack) \union {Fut1[k]}
      BY <1>1, <1>2, <2>4, CallStack DEF IInv, Call
    <3>3. ~InCall(Fut2[k])'
      BY <1>2, <3>2 DEF InCall
    <3>4. SelectInv(k)'
      BY <1>1, <2>1, <2>3, <2>4, <3>2, <3>3 DEF SelectInv
    <3>5. QED
      BY <1>1, <1>2, <1>3, <2>1, <2>2, <2>4, <3>1, <3>4, CallStep
  <2>5. CASE self[k].which_completed = "failedFut1" /\ Call(Fut2[k])
    <3>1. status[Fut2[k]] \notin Ends
      BY <1>1, <2>3, <2>5 DEF SelectInv, Ends, PENDING, COMPLETED, FAILURE
    <3>2. status' = status
      BY <2>5 DEF Call
    <3>3. SelectInv(k)'
      BY <1>1, <2>1, <2>3, <2>5, <3>2 DEF SelectInv
    <3>4. QED
      BY <1>1, <1>2, <1>3, <2>1, <2>2, <2>5, <3>1, <3>3, CallStep
  <2>6. CASE self[k].which_completed = "failedBoth" /\ Return(k, PENDING)
    <3>1. SelectInv(k)'
      BY <1>1, <1>4, <2>1, <2>6 DEF SelectInv, PENDING, COMPLETED, FAILURE
    <3>2. QED
      BY <1>1, <1>3, <2>1, <2>2, <2>6, <3>1, ReturnStep
      DEF States, PENDING, COMPLETED, FAILURE
  <2>7. QED
    BY <1>5, <2>4, <2>5, <2>6 DEF SelectProgress
<1>6. CASE SelectCompletes(k)
  <2>1. PICK m \in {Fut1[k], Fut2[k]} :
          /\ HasReply(k, m, COMPLETED)
          /\ self' = [self EXCEPT ![k].which_completed =
                        IF m = Fut1[k] THEN "completedFut1" ELSE "completedFut2"]
          /\ ok' = [ok EXCEPT ![k] = ok[m]]
    BY <1>6 DEF SelectCompletes, SelectedOk
  <2>2. /\ Return(k, COMPLETED)
        /\ arg' = arg /\ errcode' = errcode /\ due' = due
    BY <1>6 DEF SelectCompletes
  <2>3. Changes(k)
    BY <1>1, <2>1, <2>2 DEF Changes, IInv, BaseInv
  <2>4. /\ status[m] = COMPLETED
        /\ ok'[k] = ok[m] /\ ok'[m] = ok[m]
        /\ self'[k] = [which_completed |-> IF m = Fut1[k] THEN "completedFut1"
                                                         ELSE "completedFut2"]
    BY <1>1, <1>2, <2>1 DEF IInv, BaseInv, SelectInv
  <2>5. SelectInv(k)'
    BY <1>2, <1>4, <2>2, <2>4 DEF SelectInv, PENDING, COMPLETED, FAILURE
  <2>6. QED
    BY <1>1, <1>3, <2>2, <2>3, <2>5, ReturnStep
    DEF States, PENDING, COMPLETED, FAILURE
<1>7. CASE SelectChildFails(k)
  <2>1. PICK m \in {Fut1[k], Fut2[k]} :
          /\ HasReply(k, m, FAILURE)
          /\ self' = [self EXCEPT ![k].which_completed = WhichFailed(k, m)]
          /\ IF m = Fut1[k] THEN Call(Fut2[k]) ELSE Return(k, PENDING)
    BY <1>7 DEF SelectChildFails
  <2>2. /\ errcode' = [errcode EXCEPT ![k] = SELECT_ERRCODE]
        /\ arg' = arg /\ ok' = ok /\ due' = due
    BY <1>7 DEF SelectChildFails
  <2>3. Changes(k)
    <3>1. SELECT_ERRCODE \in 0 .. 3
      BY DEF SELECT_ERRCODE
    <3>2. QED
      BY <1>1, <2>1, <2>2, <3>1 DEF Changes, IInv, BaseInv
  <2>4. /\ status[m] = FAILURE
        /\ reply # <<>>
        /\ self'[k] = [which_completed |-> WhichFailed(k, m)]
    BY <1>1, <1>2, <2>1 DEF IInv, BaseInv, SelectInv, HasReply
  <2>6. CASE m = Fut1[k]
    <3>1. self[k].which_completed \in {"none", "failedFut1"}
      BY <1>1, <1>2, <2>4, <2>6 DEF SelectInv, PENDING, COMPLETED, FAILURE
    <3>2. \A s : ~HasReply(k, Fut2[k], s)
      BY <1>2, <2>1, <2>6 DEF HasReply
    <3>3. status[Fut2[k]] \in {"new", PENDING}
      BY <1>1, <3>1, <3>2 DEF SelectInv
    <3>4. Call(Fut2[k]) /\ status' = status /\ status[Fut2[k]] \notin Ends
      BY <2>1, <2>6, <3>3 DEF Call, Ends, PENDING, COMPLETED, FAILURE
    <3>5. self'[k] = [which_completed |-> "failedFut1"]
      BY <2>4, <2>6 DEF WhichFailed
    <3>6. SelectInv(k)'
      BY <1>2, <2>4, <2>6, <3>3, <3>4, <3>5
      DEF SelectInv, PENDING, COMPLETED, FAILURE
    <3>7. QED
      BY <1>1, <1>2, <1>3, <2>2, <2>3, <3>4, <3>6, CallStep
  <2>7. CASE m # Fut1[k]
    <3>1. m = Fut2[k] /\ Return(k, PENDING)
      BY <2>1, <2>7
    <3>2. self[k].which_completed = "failedFut1" /\ status[Fut1[k]] = FAILURE
      BY <1>1, <1>2, <2>4, <3>1 DEF SelectInv, PENDING, COMPLETED, FAILURE
    <3>3. self'[k] = [which_completed |-> "failedBoth"]
      BY <2>4, <2>7 DEF WhichFailed
    <3>4. SelectInv(k)'
      BY <1>4, <2>4, <3>1, <3>2, <3>3 DEF SelectInv, PENDING, COMPLETED, FAILURE
    <3>5. QED
      BY <1>1, <1>3, <2>2, <2>3, <3>1, <3>4, ReturnStep
      DEF States, PENDING, COMPLETED, FAILURE
  <2>8. QED
    BY <2>6, <2>7
<1>8. CASE ChildPends(k)
  <2>1. PICK m \in {Fut1[k], Fut2[k]} : HasReply(k, m, PENDING)
    BY <1>8 DEF ChildPends
  <2>2. /\ Return(k, PENDING)
        /\ self' = self /\ ok' = ok /\ arg' = arg /\ errcode' = errcode
        /\ due' = due
    BY <1>8 DEF ChildPends, baseVars
  <2>3. Changes(k)
    BY <2>2 DEF Changes, IInv, BaseInv
  <2>4. \A x, s : HasReply(k, x, s) => s = PENDING
    BY <2>1 DEF HasReply
  <2>5. SelectInv(k)'
    BY <1>1, <1>2, <1>4, <2>2, <2>4 DEF SelectInv, PENDING, COMPLETED, FAILURE
  <2>6. QED
    BY <1>1, <1>3, <2>2, <2>3, <2>5, ReturnStep
    DEF States, PENDING, COMPLETED, FAILURE
<1>9. QED
  BY <1>5, <1>6, <1>7, <1>8 DEF SelectStep

-----------------------------------------------------------------------------
(***************************************************************************)
(* The steps of a JoinFuture.                                              *)
(***************************************************************************)

LEMMA JoinStepInv ==
  ASSUME IInv, NEW k \in KindsAre("join"), JoinStep(k)
  PROVE  IInv'
<1> DEFINE s1 == self[k].fut1_completed
           s2 == self[k].fut2_completed
<1>1. /\ k \in Nodes /\ k \in Inner /\ Kind[k] = "join"
      /\ Running(k)
      /\ JoinInv(k)
  BY Kinds DEF JoinStep, JoinProgress, JoinFut1Returns, JoinFut2Returns,
               JustCalled, HasReply, KindsAre, IInv, NodeInv
<1>2. /\ InCall(k) /\ status[k] \in {"new", PENDING}
      /\ \A m \in {Fut1[k], Fut2[k]} :
           m \in Nodes /\ m # k /\ IsChild(k, m) /\ ~InCall(m)
      /\ Fut1[k] # Fut2[k]
      /\ \A m, s : HasReply(k, m, s) =>
           s = status[m] /\ s \in {PENDING, COMPLETED, FAILURE}
  BY <1>1, RunningNode
<1>3. JoinInv(k)' => NodeInv(k)'
  BY <1>1 DEF NodeInv
<1>4. ASSUME NEW s, Return(k, s)
      PROVE  /\ status'[k] = s
             /\ status'[Fut1[k]] = status[Fut1[k]]
             /\ status'[Fut2[k]] = status[Fut2[k]]
             /\ ~InCall(Fut2[k])'
             /\ \A m, t : ~(Running(k)' /\ reply' = <<m, t>>)
  <2>1. /\ Range(stack') = Range(stack) \ {k}
        /\ stack' # <<>> => IsChild(Last(stack'), k)
    BY <1>1, <1>4, ReturnStack DEF IInv, Return
  <2>2. ~Running(k)'
    BY <1>2, <2>1 DEF IsChild, Running
  <2>3. QED
    BY <1>1, <1>2, <1>4, <2>1, <2>2 DEF IInv, BaseInv, InCall, Return
<1>5. CASE JoinProgress(k)
  <2>1. PICK m \in {Fut1[k], Fut2[k]} :
          m = (IF s1 = PENDING THEN Fut1[k] ELSE Fut2[k]) /\ Call(m)
    BY <1>5 DEF JoinProgress
  <2>2. /\ self' = self /\ ok' = ok /\ arg' = arg /\ errcode' = errcode
        /\ due' = due /\ status' = status /\ reply = <<>> /\ reply' = <<>>
    BY <1>5, <2>1 DEF JoinProgress, JustCalled, Call, baseVars
  <2>3. Changes(k)
    BY <2>2 DEF Changes, IInv, BaseInv
  <2>4. \A x, s : ~HasReply(k, x, s)
    BY <2>2 DEF HasReply
  <2>5. status[m] \notin Ends
    BY <1>1, <1>2, <2>1, <2>4
    DEF JoinInv, JoinRecord, Ends, PENDING, COMPLETED, FAILURE
  <2>6. Range(stack') = Range(stack) \union {m}
    BY <1>1, <1>2, <2>1, CallStack DEF IInv
  <2>7. m = Fut2[k] => status[Fut1[k]] # "new"
    BY <1>1, <1>2, <2>1, <2>4
    DEF JoinInv, JoinRecord, PENDING, COMPLETED, FAILURE
  <2>8. InCall(Fut2[k])' => m = Fut2[k]
    BY <1>2, <2>6 DEF InCall
  <2>9. JoinInv(k)'
    BY <1>1, <2>2, <2>4, <2>7, <2>8 DEF JoinInv, JoinRecord, HasReply
  <2>10. QED
    BY <1>1, <1>2, <1>3, <2>1, <2>2, <2>3, <2>5, <2>9, CallStep
<1>6. CASE JoinFut1Returns(k)
  <2>1. PICK s \in {PENDING, COMPLETED, FAILURE} :
          /\ HasReply(k, Fut1[k], s)
          /\ self' = [self EXCEPT ![k].fut1_completed = s,
                                  ![k].fut1.ok = SavedOk(Fut1[k], s, @)]
          /\ errcode' = [errcode EXCEPT
                           ![k] = JoinErrcode(k, s, ERR_FUT1_FAILED)]
          /\ \/ s2 = PENDING /\ Call(Fut2[k])
             \/ s2 # PENDING /\ JoinReturns(k, s, s2)
    BY <1>6 DEF JoinFut1Returns
  <2>2. arg' = arg /\ ok' = ok /\ due' = due
    BY <1>6 DEF JoinFut1Returns
  <2>3. /\ status[Fut1[k]] = s /\ s1 = PENDING
        /\ \A t : ~HasReply(k, Fut2[k], t)
    BY <1>1, <1>2, <2>1 DEF JoinInv, JoinRecord, HasReply
  <2>4. /\ errcode[k] = (IF s2 = FAILURE THEN ERR_FUT2_FAILED ELSE 0)
        /\ JoinErrcode(k, s, ERR_FUT1_FAILED)
             = (IF s = FAILURE THEN ERR_FUT1_FAILED ELSE 0)
             + (IF s2 = FAILURE THEN ERR_FUT2_FAILED ELSE 0)
    BY <1>1, <2>3
    DEF JoinInv, JoinErrcode, ERR_FUT1_FAILED, ERR_FUT2_FAILED,
        ERR_BOTH_FUTS_FAILED, SUCCESS, PENDING, FAILURE
  <2>5. /\ JoinErrcode(k, s, ERR_FUT1_FAILED) \in 0 .. 3
        /\ errcode'[k] = JoinErrcode(k, s, ERR_FUT1_FAILED)
    BY <1>1, <2>1, <2>4
    DEF IInv, BaseInv, ERR_FUT1_FAILED, ERR_FUT2_FAILED
  <2>6. Changes(k)
    BY <1>1, <2>1, <2>2, <2>5 DEF Changes, IInv, BaseInv
  <2>7. /\ DOMAIN self'[k] = DOMAIN self[k]
        /\ DOMAIN self'[k].fut1 = DOMAIN self[k].fut1
        /\ self'[k].fut1_completed = s
        /\ self'[k].fut1.ok = SavedOk(Fut1[k], s, self[k].fut1.ok)
        /\ self'[k].fut2_completed = s2 /\ self'[k].fut2 = self[k].fut2
    <3>1. self'[k] =
            [self[k] EXCEPT !.fut1_completed = s,
                            !.fut1.ok = SavedOk(Fut1[k], s, self[k].fut1.ok)]
      BY <1>1, <2>1 DEF IInv, BaseInv
    <3>2. DOMAIN self[k] = JoinFields /\ DOMAIN self[k].fut1 = ResultFields
      BY <1>1 DEF JoinInv, JoinRecord
    <3>3. QED
      BY <3>1, <3>2 DEF JoinFields, ResultFields
  <2>8. CASE s2 = PENDING /\ Call(Fut2[k])
    <3>1. status' = status /\ reply' = <<>>
      BY <2>8 DEF Call
    <3>2. status[Fut2[k]] \notin Ends
      BY <1>1, <2>3, <2>8
      DEF JoinInv, JoinRecord, Ends, PENDING, COMPLETED, FAILURE
    <3>3. JoinInv(k)'
      BY <1>1, <1>2, <2>1, <2>2, <2>3, <2>4, <2>5, <2>7, <2>8, <3>1
      DEF JoinInv, JoinRecord, SavedOk, HasReply, PENDING, COMPLETED, FAILURE
    <3>4. QED
      BY <1>1, <1>2, <1>3, <2>2, <2>6, <2>8, <3>2, <3>3, CallStep
  <2>9. CASE s2 # PENDING /\ JoinReturns(k, s, s2)
    <3>1. PICK v \in {PENDING, COMPLETED, FAILURE} :
            /\ v = (IF PENDING \in {s, s2} THEN PENDING
                    ELSE IF errcode'[k] # SUCCESS THEN FAILURE ELSE COMPLETED)
            /\ Return(k, v)
      BY <2>9 DEF JoinReturns
    <3>2. s2 = status[Fut2[k]] /\ s2 \in {COMPLETED, FAILURE}
      BY <1>1, <2>9 DEF JoinInv, JoinRecord
    <3>3. JoinInv(k)'
      BY <1>1, <1>4, <2>2, <2>3, <2>4, <2>5, <2>7, <3>1, <3>2
      DEF JoinInv, JoinRecord, SavedOk, HasReply, Ends, PENDING, COMPLETED,
          FAILURE, SUCCESS, ERR_FUT1_FAILED, ERR_FUT2_FAILED
    <3>4. QED
      BY <1>1, <1>3, <2>2, <2>6, <3>1, <3>3, ReturnStep
      DEF States, PENDING, COMPLETED, FAILURE
  <2>10. QED
    BY <2>1, <2>8, <2>9
<1>7. CASE JoinFut2Returns(k)
  <2>1. PICK s \in {PENDING, COMPLETED, FAILURE} :
          /\ HasReply(k, Fut2[k], s)
          /\ self' = [self EXCEPT ![k].fut2_completed = s,
                                  ![k].fut2.ok = SavedOk(Fut2[k], s, @)]
          /\ errcode' = [errcode EXCEPT
                           ![k] = JoinErrcode(k, s, ERR_FUT2_FAILED)]
          /\ JoinReturns(k, s1, s)
    BY <1>7 DEF JoinFut2Returns
  <2>2. arg' = arg /\ ok' = ok /\ due' = due
    BY <1>7 DEF JoinFut2Returns
  <2>3. /\ status[Fut2[k]] = s /\ s2 = PENDING
        /\ \A t : ~HasReply(k, Fut1[k], t)
    BY <1>1, <1>2, <2>1 DEF JoinInv, JoinRecord, HasReply
  <2>4. status[Fut1[k]] = s1 /\ s1 \in {PENDING, COMPLETED, FAILURE}
    BY <1>1, <2>1, <2>3
    DEF JoinInv, JoinRecord, PENDING, COMPLETED, FAILURE
  <2>5. JoinErrcode(k, s, ERR_FUT2_FAILED)
             = (IF s1 = FAILURE THEN ERR_FUT1_FAILED ELSE 0)
             + (IF s = FAILURE THEN ERR_FUT2_FAILED ELSE 0)
    BY <1>1, <2>3
    DEF JoinInv, JoinErrcode, ERR_FUT1_FAILED, ERR_FUT2_FAILED,
        ERR_BOTH_FUTS_FAILED, SUCCESS, PENDING, FAILURE
  <2>6. /\ JoinErrcode(k, s, ERR_FUT2_FAILED) \in 0 .. 3
        /\ errcode'[k] = JoinErrcode(k, s, ERR_FUT2_FAILED)
    BY <1>1, <2>1, <2>5
    DEF IInv, BaseInv, ERR_FUT1_FAILED, ERR_FUT2_FAILED
  <2>7. Changes(k)
    BY <1>1, <2>1, <2>2, <2>6 DEF Changes, IInv, BaseInv
  <2>8. /\ DOMAIN self'[k] = DOMAIN self[k]
        /\ DOMAIN self'[k].fut2 = DOMAIN self[k].fut2
        /\ self'[k].fut2_completed = s
        /\ self'[k].fut2.ok = SavedOk(Fut2[k], s, self[k].fut2.ok)
        /\ self'[k].fut1_completed = s1 /\ self'[k].fut1 = self[k].fut1
    <3>1. self'[k] =
            [self[k] EXCEPT !.fut2_completed = s,
                            !.fut2.ok = SavedOk(Fut2[k], s, self[k].fut2.ok)]
      BY <1>1, <2>1 DEF IInv, BaseInv
    <3>2. DOMAIN self[k] = JoinFields /\ DOMAIN self[k].fut2 = ResultFields
      BY <1>1 DEF JoinInv, JoinRecord
    <3>3. QED
      BY <3>1, <3>2 DEF JoinFields, ResultFields
  <2>9. PICK v \in {PENDING, COMPLETED, FAILURE} :
          /\ v = (IF PENDING \in {s1, s} THEN PENDING
                  ELSE IF errcode'[k] # SUCCESS THEN FAILURE ELSE COMPLETED)
          /\ Return(k, v)
    BY <2>1 DEF JoinReturns
  <2>10. JoinInv(k)'
    BY <1>1, <1>4, <2>2, <2>3, <2>4, <2>5, <2>6, <2>8, <2>9
    DEF JoinInv, JoinRecord, SavedOk, HasReply, Ends, PENDING, COMPLETED,
        FAILURE, SUCCESS, ERR_FUT1_FAILED, ERR_FUT2_FAILED
  <2>11. QED
    BY <1>1, <1>3, <2>2, <2>7, <2>9, <2>10, ReturnStep
    DEF States, PENDING, COMPLETED, FAILURE
<1>8. QED
  BY <1>5, <1>6, <1>7 DEF JoinStep

-----------------------------------------------------------------------------
(***************************************************************************)
(* The call of a root, and the induction.                                  *)
(***************************************************************************)

LEMMA ProgressInv ==
  ASSUME IInv, Progress
  PROVE  IInv'
<1>1. PICK r \in Roots : MayBeCalled(r) /\ Call(r)
  BY DEF Progress
<1>2. /\ stack = <<>> /\ reply' = <<>> /\ status' = status
      /\ self' = self /\ arg' = arg /\ ok' = ok /\ errcode' = errcode
      /\ due' = due
  BY <1>1 DEF Progress, Call, baseVars
<1>3. r \in Nodes /\ status[r] \notin Ends
  BY <1>1, OneParent DEF MayBeCalled, Ends, PENDING, COMPLETED, FAILURE
<1>4. stack' = <<r>>
  BY <1>1, <1>2 DEF Call
<1>5. /\ stack' \in Seq(Nodes) /\ Len(stack') = 1 /\ stack'[1] = r
      /\ Range(stack) = {} /\ Range(stack') = {r}
  BY <1>2, <1>3, <1>4 DEF Range
<1>6. StackInv'
  <2>1. \A i, j \in 1 .. Len(stack') : i = j
    BY <1>5
  <2>2. 1 .. Len(stack') - 1 = {}
    BY <1>5
  <2>3. QED
    BY <1>5, <2>1, <2>2 DEF StackInv
<1>7. ReplyInv' /\ BaseInv'
  BY <1>2 DEF IInv, ReplyInv, BaseInv
<1>8. EndedInv'
  BY <1>2, <1>3, <1>5 DEF EndedInv, InCall
<1>9. ASSUME NEW n \in Inner, NodeInv(n)
      PROVE  NodeInv(n)'
  <2>1. InCall(Fut2[n])' <=> InCall(Fut2[n])
    BY <1>5, OneParent DEF InCall, IsChild, Inner
  <2>2. ThenInv(n) => ThenInv(n)'
    BY <1>2, <2>1 DEF ThenInv, HasReply, Running
  <2>3. JoinInv(n) => JoinInv(n)'
    BY <1>2, <2>1 DEF JoinInv, JoinRecord, HasReply, Running
  <2>4. SelectInv(n) => SelectInv(n)'
    BY <1>2, <2>1 DEF SelectInv, HasReply, Running
  <2>5. QED
    BY <1>9, <2>2, <2>3, <2>4 DEF NodeInv
<1>10. \A n \in Nodes : NodeInv(n)'
  BY <1>9, Kinds DEF IInv, NodeInv
<1>11. QED
  BY <1>6, <1>7, <1>8, <1>10 DEF IInv

LEMMA InitInv == Init => IInv
<1> SUFFICES ASSUME Init PROVE IInv
  OBVIOUS
<1>1. /\ stack \in Seq(Nodes) /\ Len(stack) = 0 /\ Range(stack) = {}
      /\ \A i : i \notin 1 .. Len(stack) /\ i \notin 1 .. Len(stack) - 1
  BY EmptySeq DEF Init, Range
<1>2. StackInv /\ ReplyInv /\ EndedInv
  BY <1>1 DEF Init, StackInv, ReplyInv, EndedInv, InCall
<1>3. BaseInv
  BY DEF Init, BaseInv, States, SUCCESS
<1>4. \A n \in Nodes : /\ self[n] = Created(n) /\ errcode[n] = 0
                       /\ status[n] = "new" /\ ~InCall(n)
  BY <1>1 DEF Init, InCall, SUCCESS
<1>5. ASSUME NEW n \in Inner
      PROVE  NodeInv(n)
  <2>1. n \in Nodes /\ Fut1[n] \in Nodes /\ Fut2[n] \in Nodes
    BY OneParent
  <2>2. Kind[n] = "then" => ThenInv(n)
    <3>1. ASSUME Kind[n] = "then"
          PROVE  self[n] \in [fut1_completed : BOOLEAN] /\ ~self[n].fut1_completed
      <4>1. self[n] = [fut1_completed |-> FALSE]
        BY <1>4, <2>1, <3>1 DEF Created, future_then
      <4>2. QED
        BY <4>1
    <3>2. QED
      BY <1>4, <2>1, <3>1 DEF ThenInv, PENDING, COMPLETED, FAILURE
  <2>3. Kind[n] = "join" => JoinInv(n)
    <3>1. ASSUME Kind[n] = "join"
          PROVE  /\ DOMAIN self[n] = JoinFields
                 /\ self[n].fut1_completed = PENDING
                 /\ self[n].fut2_completed = PENDING
                 /\ DOMAIN self[n].fut1 = ResultFields
                 /\ DOMAIN self[n].fut2 = ResultFields
      <4>1. self[n] = future_join
        BY <1>4, <2>1, <3>1 DEF Created
      <4>2. QED
        BY <4>1 DEF future_join, JoinFields, ResultFields
    <3>2. QED
      BY <1>4, <2>1, <3>1
      DEF JoinInv, JoinRecord, HasReply, PENDING, COMPLETED, FAILURE, Init
  <2>4. Kind[n] = "select" => SelectInv(n)
    BY <1>4, <2>1
    DEF SelectInv, Created, future_select, PENDING, COMPLETED, FAILURE
  <2>5. QED
    BY <2>2, <2>3, <2>4 DEF NodeInv
<1>6. QED
  BY <1>2, <1>3, <1>5, Kinds DEF IInv, NodeInv

LEMMA StepInv == IInv /\ [Next]_vars => IInv'
<1> SUFFICES ASSUME IInv, [Next]_vars PROVE IInv'
  OBVIOUS
<1>1. CASE Progress
  BY <1>1, ProgressInv
<1>2. CASE NodeStep
  BY <1>2, LeafInv, ThenStepInv, JoinStepInv, SelectStepInv DEF NodeStep
<1>3. CASE Resting \/ UNCHANGED vars
  BY <1>3 DEF Resting, vars, baseVars, IInv, StackInv, ReplyInv, BaseInv,
              EndedInv, NodeInv, ThenInv, JoinInv, JoinRecord, SelectInv,
              InCall, HasReply, Running
<1>4. QED
  BY <1>1, <1>2, <1>3 DEF Next

(* The inductive invariant: the calls in progress are one path in a tree,  *)
(* a future that has ended is not called, and every combinator has on      *)
(* record what its children have answered.                                 *)
THEOREM Invariance == Spec => []IInv
BY InitInv, StepInv, PTL DEF Spec

-----------------------------------------------------------------------------
(***************************************************************************)
(* The properties of the runs.                                             *)
(***************************************************************************)

(* An idle node does not run, and no reply is on its way to it.            *)
LEMMA IdleNode ==
  ASSUME IInv, NEW n \in Inner, ~InCall(n)
  PROVE  /\ ~Running(n)
         /\ status[n] \in States /\ status[Fut1[n]] \in States
         /\ status[Fut2[n]] \in States /\ NodeInv(n)
BY TopOfStack, OneParent DEF IInv, BaseInv

LEMMA TypeOKHolds == IInv => TypeOK
<1> SUFFICES ASSUME IInv PROVE TypeOK
  OBVIOUS
<1>1. ASSUME NEW i \in 1 .. Len(stack) - 1
      PROVE  stack[i] \in Inner /\ stack[i + 1] \in {Fut1[stack[i]], Fut2[stack[i]]}
  BY DEF IInv, StackInv, IsChild
<1>2. reply \in {<<>>} \union (Nodes \X (States \ {"new"}))
  BY DEF IInv, ReplyInv, BaseInv
<1>3. ASSUME NEW n \in Nodes
      PROVE  /\ Kind[n] = "then" => self[n].fut1_completed \in BOOLEAN
             /\ Kind[n] = "join" =>
                  {self[n].fut1_completed, self[n].fut2_completed}
                    \subseteq States \ {"new"}
             /\ Kind[n] = "select" =>
                  self[n].which_completed \in {"none", "completedFut1",
                    "completedFut2", "failedFut1", "failedBoth"}
  BY DEF IInv, NodeInv, ThenInv, JoinInv, JoinRecord, SelectInv, States,
         PENDING, COMPLETED, FAILURE
<1>4. QED
  BY <1>1, <1>2, <1>3 DEF TypeOK, IInv, StackInv, BaseInv, KindsAre

(* Every variable holds a value of its C type, the calls in progress are a *)
(* path down from a root, and SELECT_FAILED_FUT2 never arises.             *)
THEOREM TypeCorrect == Spec => []TypeOK
BY Invariance, TypeOKHolds, PTL

(* A future that has ended is never called again, whichever combinators it *)
(* is below (the first half of the contract of ProgressFn, future.h:18-28).*)
THEOREM EndedIsNotCalled ==
  Spec => [](\A n \in Nodes : HasEnded(n) => n \notin Range(stack))
<1>1. IInv => \A n \in Nodes : HasEnded(n) => n \notin Range(stack)
  BY DEF IInv, EndedInv, HasEnded, Ends, InCall
<1>2. QED
  BY <1>1, Invariance, PTL

(* fut2 of a ThenFuture never runs before fut1 has completed, nor with     *)
(* another argument than the result of fut1 (future_combinators.h:14).     *)
THEOREM ThenPasses == Spec => []ThenPassesResult
<1>1. IInv => ThenPassesResult
  BY Kinds DEF ThenPassesResult, IInv, NodeInv, ThenInv, KindsAre, InCall
<1>2. QED
  BY <1>1, Invariance, PTL

(* A ThenFuture ends when the chain has ended, with the result of fut2 or  *)
(* the error code of the failure (future_combinators.h:15-17).             *)
THEOREM ThenEnds == Spec => []ThenVerdict
<1>1. ASSUME IInv, NEW n \in KindsAre("then"), IsIdle(n)
      PROVE  CASE status[Fut1[n]] = FAILURE ->
                    /\ status[n] = FAILURE /\ errcode[n] = ERR_FUT1_FAILED
                    /\ status[Fut2[n]] = "new"
               [] status[Fut2[n]] = FAILURE ->
                    status[n] = FAILURE /\ errcode[n] = ERR_FUT2_FAILED
               [] status[Fut2[n]] = COMPLETED ->
                    status[n] = COMPLETED /\ ok[n] = ok[Fut2[n]]
               [] OTHER -> status[n] = PENDING
  <2>1. /\ ThenInv(n) /\ ~Running(n)
        /\ status[n] \in States /\ status[n] # "new"
    BY <1>1, IdleNode, Kinds DEF NodeInv, KindsAre, IsIdle, InCall
  <2>2. QED
    BY <2>1 DEF ThenInv, HasReply, States, PENDING, COMPLETED, FAILURE
<1>2. IInv => ThenVerdict
  BY <1>1 DEF ThenVerdict
<1>3. QED
  BY <1>2, Invariance, PTL

(* A JoinFuture ends when both its children have ended and not before, and *)
(* says which of them failed (future_combinators.h:37-40).                 *)
THEOREM JoinEnds == Spec => []JoinVerdict
<1>1. ASSUME IInv, NEW n \in KindsAre("join"), IsIdle(n)
      PROVE  /\ "new" \notin {status[Fut1[n]], status[Fut2[n]]}
             /\ status[n] = CASE PENDING \in {status[Fut1[n]], status[Fut2[n]]}
                                  -> PENDING
                              [] status[Fut1[n]] = COMPLETED
                                   /\ status[Fut2[n]] = COMPLETED -> COMPLETED
                              [] OTHER -> FAILURE
             /\ HasEnded(n) =>
                  errcode[n] = (IF status[Fut1[n]] = FAILURE THEN ERR_FUT1_FAILED ELSE 0)
                             + (IF status[Fut2[n]] = FAILURE THEN ERR_FUT2_FAILED ELSE 0)
  <2>1. /\ JoinInv(n) /\ ~Running(n)
        /\ status[n] \in States /\ status[n] # "new"
        /\ status[Fut1[n]] \in States /\ status[Fut2[n]] \in States
    BY <1>1, IdleNode, Kinds DEF NodeInv, KindsAre, IsIdle, InCall
  <2>2. "new" \notin {status[Fut1[n]], status[Fut2[n]]}
    BY <2>1 DEF JoinInv
  <2>3. /\ self[n].fut1_completed = status[Fut1[n]]
        /\ self[n].fut2_completed = status[Fut2[n]]
    BY <2>1, <2>2 DEF JoinInv, JoinRecord, HasReply
  <2>4. QED
    BY <2>1, <2>2, <2>3
    DEF JoinInv, HasEnded, Ends, States, PENDING, COMPLETED, FAILURE
<1>2. IInv => JoinVerdict
  BY <1>1 DEF JoinVerdict
<1>3. QED
  BY <1>2, Invariance, PTL

(* A JoinFuture that has ended still has the value that each child has     *)
(* returned (future_combinators.h:38).                                     *)
THEOREM JoinSaves == Spec => []JoinSavesReturns
<1>1. ASSUME IInv, NEW n \in KindsAre("join"), HasEnded(n)
      PROVE  /\ status[Fut1[n]] = COMPLETED => self[n].fut1.ok = ok[Fut1[n]]
             /\ status[Fut2[n]] = COMPLETED => self[n].fut2.ok = ok[Fut2[n]]
  <2>1. n \in Inner /\ ~InCall(n) /\ Kind[n] = "join"
    BY <1>1, Kinds DEF IInv, EndedInv, HasEnded, Ends, KindsAre
  <2>2. JoinInv(n) /\ ~Running(n)
    BY <1>1, <2>1, IdleNode DEF NodeInv
  <2>3. QED
    BY <2>2 DEF JoinInv, JoinRecord, HasReply, PENDING, COMPLETED, FAILURE
<1>2. IInv => JoinSavesReturns
  BY <1>1 DEF JoinSavesReturns
<1>3. QED
  BY <1>2, Invariance, PTL

(* A SelectFuture has completed when and only when a child has, and with   *)
(* the result of that child (future_combinators.h:66).                     *)
THEOREM SelectEnds == Spec => []SelectVerdict
<1>1. ASSUME IInv, NEW n \in KindsAre("select"), IsIdle(n)
      PROVE  /\ status[n] = COMPLETED
                  <=> COMPLETED \in {status[Fut1[n]], status[Fut2[n]]}
             /\ status[n] = COMPLETED =>
                  \E m \in {Fut1[n], Fut2[n]} :
                    status[m] = COMPLETED /\ ok[n] = ok[m]
  <2>1. SelectInv(n) /\ ~Running(n)
    BY <1>1, IdleNode, Kinds DEF NodeInv, KindsAre, IsIdle, InCall
  <2>2. QED
    BY <2>1 DEF SelectInv, HasReply, PENDING, COMPLETED, FAILURE
<1>2. IInv => SelectVerdict
  BY <1>1 DEF SelectVerdict
<1>3. QED
  BY <1>2, Invariance, PTL
=============================================================================
