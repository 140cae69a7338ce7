----------------------------- MODULE Combinators -----------------------------
(***************************************************************************)
(* ThenFuture, JoinFuture and SelectFuture (src/future_combinators.c):     *)
(* trees of futures, whose roots the executor progresses, one at a time,   *)
(* and whose leaves are futures of which only the contract of ProgressFn   *)
(* is known.                                                               *)
(*                                                                         *)
(* A progress function of a combinator calls those of its children: stack  *)
(* holds the calls in progress, root first.  The code of a combinator is   *)
(* cut at these calls, into the part that runs when it is called and the   *)
(* parts that run when a child has answered.                               *)
(***************************************************************************)
EXTENDS Integers, SequencesExt

CONSTANTS
  Nodes,          \* the futures of the trees
  Roots,          \* those that are spawned
  Kind,           \* Kind[n]: "then", "join", "select" or "leaf"
  Fut1, Fut2,     \* the children of the combinators
  NULL

KindsAre(k) == {n \in Nodes : Kind[n] = k}
Leaves == KindsAre("leaf")
Inner == Nodes \ Leaves

(* Every node but the roots is the child of one node, and no node is below *)
(* itself: the constructors take children that have been made before, so   *)
(* that one of any futures is the oldest, and its children are others.     *)
ASSUME TreeAssumption ==
  /\ Roots \subseteq Nodes
  /\ Kind \in [Nodes -> {"then", "join", "select", "leaf"}]
  /\ Fut1 \in [Inner -> Nodes \ Roots]
  /\ Fut2 \in [Inner -> Nodes \ Roots]
  /\ \A m, n \in Inner : /\ Fut1[m] # Fut2[n]
                         /\ m # n => Fut1[m] # Fut1[n] /\ Fut2[m] # Fut2[n]
  /\ \A S \in SUBSET Inner :
       S # {} => \E n \in S : Fut1[n] \notin S /\ Fut2[n] \notin S

(* A node and all the nodes below it.                                      *)
Subtree[n \in Nodes] ==
  IF n \in Leaves THEN {n} ELSE {n} \union Subtree[Fut1[n]] \union Subtree[Fut2[n]]

(* FutureState.                                                            *)
PENDING == "pending"
COMPLETED == "completed"
FAILURE == "failed"

(* The error codes; a SelectFuture stores the enum constant FUTURE_FAILURE *)
(* in its errcode.                                                         *)
SUCCESS == 0
ERR_FUT1_FAILED == 1
ERR_FUT2_FAILED == 2
ERR_BOTH_FUTS_FAILED == 3
SELECT_ERRCODE == 2
LEAF_ERRCODE == 1

VARIABLES
  stack,          \* the calls of progress() in progress, root first
  reply,          \* what the top of the stack has got from its child: the
                  \* child and its FutureState; <<>> if it has just been called
  self,           \* self[n]: the fields of n besides the base future
  arg, ok, errcode,   \* the fields of the base futures
  status,         \* status[n]: "new", or what progress() of n last returned
  due             \* the leaves that have arranged for the waker to be called

baseVars == <<arg, ok, errcode>>
vars == <<stack, reply, self, baseVars, status, due>>

(* What the constructors store besides the base future and the children.   *)
future_then == [fut1_completed |-> FALSE]

future_join == [fut1_completed |-> PENDING,
                fut2_completed |-> PENDING,
                fut1 |-> [errcode |-> SUCCESS, ok |-> NULL],
                fut2 |-> [errcode |-> SUCCESS, ok |-> NULL]]

future_select == [which_completed |-> "none"]

Created(n) ==
  CASE Kind[n] = "then"   -> future_then
    [] Kind[n] = "join"   -> future_join
    [] Kind[n] = "select" -> future_select
    [] Kind[n] = "leaf"   -> <<>>

Init ==
  /\ stack = <<>>
  /\ reply = <<>>
  /\ self = [n \in Nodes |-> Created(n)]
  /\ arg = [n \in Nodes |-> NULL]
  /\ ok = [n \in Nodes |-> NULL]
  /\ errcode = [n \in Nodes |-> SUCCESS]
  /\ status = [n \in Nodes |-> "new"]
  /\ due = {}

-----------------------------------------------------------------------------
(***************************************************************************)
(* Calls and returns.                                                      *)
(***************************************************************************)

Running(n) == stack # <<>> /\ Last(stack) = n

JustCalled(n) == Running(n) /\ reply = <<>>

(* n goes on because its child m has returned s.                           *)
HasReply(n, m, s) == Running(n) /\ reply = <<m, s>>

Call(m) ==
  /\ stack' = Append(stack, m)
  /\ reply' = <<>>
  /\ UNCHANGED status

Return(n, s) ==
  /\ stack' = Front(stack)
  /\ reply' = IF n \in Roots THEN <<>> ELSE <<n, s>>
  /\ status' = [status EXCEPT ![n] = s]

(* The executor calls a root once it is spawned, and then whenever a waker *)
(* call of one of its leaves comes.                                        *)
MayBeCalled(r) ==
  status[r] = "new" \/ (status[r] = PENDING /\ due \intersect Subtree[r] # {})

Progress ==
  /\ stack = <<>>
  /\ \E r \in Roots : MayBeCalled(r) /\ Call(r)
  /\ UNCHANGED <<self, baseVars, due>>

-----------------------------------------------------------------------------
(***************************************************************************)
(* The leaves.  A leaf that answers FUTURE_PENDING has arranged for a      *)
(* waker call; one that has ended has withdrawn it.  What it computes is   *)
(* told apart by the leaf and by its argument.                             *)
(***************************************************************************)

LeafPends(n) ==
  /\ JustCalled(n)
  /\ Return(n, PENDING)
  /\ due' = due \union {n}
  /\ UNCHANGED <<self, baseVars>>

LeafCompletes(n) ==
  /\ JustCalled(n)
  /\ ok' = [ok EXCEPT ![n] = <<n, arg[n]>>]
  /\ Return(n, COMPLETED)
  /\ due' = due \ {n}
  /\ UNCHANGED <<self, arg, errcode>>

LeafFails(n) ==
  /\ JustCalled(n)
  /\ errcode' = [errcode EXCEPT ![n] = LEAF_ERRCODE]
  /\ Return(n, FAILURE)
  /\ due' = due \ {n}
  /\ UNCHANGED <<self, arg, ok>>

(* A then or a select pends with the child it has called.                  *)
ChildPends(n) ==
  /\ \E m \in {Fut1[n], Fut2[n]} : HasReply(n, m, PENDING)
  /\ Return(n, PENDING)
  /\ UNCHANGED <<self, baseVars, due>>

-----------------------------------------------------------------------------
(***************************************************************************)
(* then_future_progress().                                                 *)
(***************************************************************************)

ThenProgress(n) ==
  /\ JustCalled(n)
  /\ Call(IF self[n].fut1_completed THEN Fut2[n] ELSE Fut1[n])
  /\ UNCHANGED <<self, baseVars, due>>

(* Mutant of ThenFut1Completes: no argument for fut2.                      *)
ThenDropsResult(n) ==
  /\ HasReply(n, Fut1[n], COMPLETED)
  /\ self' = [self EXCEPT ![n].fut1_completed = TRUE]
  /\ Call(Fut2[n])
  /\ UNCHANGED <<baseVars, due>>

(* fut2 is called at once, with the result of fut1 for its argument.       *)
ThenFut1Completes(n) ==
  /\ HasReply(n, Fut1[n], COMPLETED)
  /\ self' = [self EXCEPT ![n].fut1_completed = TRUE]
  /\ arg' = [arg EXCEPT ![Fut2[n]] = ok[Fut1[n]]]
  /\ Call(Fut2[n])
  /\ UNCHANGED <<ok, errcode, due>>

ThenFut2Completes(n) ==
  /\ HasReply(n, Fut2[n], COMPLETED)
  /\ ok' = [ok EXCEPT ![n] = ok[Fut2[n]]]
  /\ Return(n, COMPLETED)
  /\ UNCHANGED <<self, arg, errcode, due>>

(* Mutant of ThenErrcode: one errcode for both failures.                   *)
ThenErrcodeOfFut1(n, m) == ERR_FUT1_FAILED

(* errcode when child m has failed.                                        *)
ThenErrcode(n, m) == IF m = Fut1[n] THEN ERR_FUT1_FAILED ELSE ERR_FUT2_FAILED

ThenFails(n) ==
  /\ \E m \in {Fut1[n], Fut2[n]} :
       /\ HasReply(n, m, FAILURE)
       /\ errcode' = [errcode EXCEPT ![n] = ThenErrcode(n, m)]
  /\ Return(n, FAILURE)
  /\ UNCHANGED <<self, arg, ok, due>>

-----------------------------------------------------------------------------
(***************************************************************************)
(* join_future_progress().                                                 *)
(***************************************************************************)

(* Mutant of JoinProgress: fut1 is called every time.                      *)
JoinProgressesFut1(n) ==
  /\ JustCalled(n)
  /\ Call(Fut1[n])
  /\ UNCHANGED <<self, baseVars, due>>

(* A call skips the child that has ended.                                  *)
JoinProgress(n) ==
  /\ JustCalled(n)
  /\ Call(IF self[n].fut1_completed = PENDING THEN Fut1[n] ELSE Fut2[n])
  /\ UNCHANGED <<self, baseVars, due>>

(* Mutant of JoinErrcode: the later failure hides the earlier one.         *)
JoinLastErrcode(n, s, err) == IF s # FAILURE THEN errcode[n] ELSE err

(* errcode after a child has answered s; err is the code of its failure.   *)
JoinErrcode(n, s, err) ==
  IF s # FAILURE THEN errcode[n]
  ELSE IF errcode[n] = SUCCESS THEN err ELSE ERR_BOTH_FUTS_FAILED

(* Mutant of SavedOk: the value of a child is not copied.                  *)
SavedNever(m, s, saved) == saved

(* result.futN.ok after child m has answered s.                            *)
SavedOk(m, s, saved) == IF s = COMPLETED THEN ok[m] ELSE saved

(* Mutant of JoinReturns: it waits until both children have COMPLETED.     *)
JoinWaitsForSuccess(n, s1, s2) ==
  Return(n, IF s1 = COMPLETED /\ s2 = COMPLETED THEN COMPLETED ELSE PENDING)

(* The end of the function: s1 and s2 are the states of the children.      *)
JoinReturns(n, s1, s2) ==
  Return(n, IF PENDING \in {s1, s2} THEN PENDING
            ELSE IF errcode'[n] # SUCCESS THEN FAILURE ELSE COMPLETED)

JoinFut1Returns(n) ==
  /\ \E s \in {PENDING, COMPLETED, FAILURE} :
       /\ HasReply(n, Fut1[n], s)
       /\ self' = [self EXCEPT ![n].fut1_completed = s,
                               ![n].fut1.ok = SavedOk(Fut1[n], s, @)]
       /\ errcode' = [errcode EXCEPT
                        ![n] = JoinErrcode(n, s, ERR_FUT1_FAILED)]
       /\ \/ self[n].fut2_completed = PENDING /\ Call(Fut2[n])
          \/ self[n].fut2_completed # PENDING
               /\ JoinReturns(n, s, self[n].fut2_completed)
  /\ UNCHANGED <<arg, ok, due>>

JoinFut2Returns(n) ==
  /\ \E s \in {PENDING, COMPLETED, FAILURE} :
       /\ HasReply(n, Fut2[n], s)
       /\ self' = [self EXCEPT ![n].fut2_completed = s,
                               ![n].fut2.ok = SavedOk(Fut2[n], s, @)]
       /\ errcode' = [errcode EXCEPT
                        ![n] = JoinErrcode(n, s, ERR_FUT2_FAILED)]
       /\ JoinReturns(n, self[n].fut1_completed, s)
  /\ UNCHANGED <<arg, ok, due>>

-----------------------------------------------------------------------------
(***************************************************************************)
(* select_future_progress().  Its second and fourth blocks, for            *)
(* SELECT_COMPLETED_NONE after fut1 and for SELECT_FAILED_FUT2, are never  *)
(* reached: the first block returns or sets SELECT_FAILED_FUT1.            *)
(***************************************************************************)

SelectProgress(n) ==
  /\ JustCalled(n)
  /\ \/ self[n].which_completed = "none" /\ Call(Fut1[n])
     \/ self[n].which_completed = "failedFut1" /\ Call(Fut2[n])
     \/ self[n].which_completed = "failedBoth" /\ Return(n, PENDING)
  /\ UNCHANGED <<self, baseVars, due>>

(* Mutant of SelectedOk: the result is always that of fut1.                *)
OkOfFut1(n, m) == ok[Fut1[n]]

(* ok when child m has completed.                                          *)
SelectedOk(n, m) == ok[m]

SelectCompletes(n) ==
  /\ \E m \in {Fut1[n], Fut2[n]} :
       /\ HasReply(n, m, COMPLETED)
       /\ self' = [self EXCEPT ![n].which_completed =
                     IF m = Fut1[n] THEN "completedFut1" ELSE "completedFut2"]
       /\ ok' = [ok EXCEPT ![n] = SelectedOk(n, m)]
  /\ Return(n, COMPLETED)
  /\ UNCHANGED <<arg, errcode, due>>

(* Mutant of WhichFailed: the failure of fut2 forgets that of fut1.        *)
LastFailed(n, m) == IF m = Fut1[n] THEN "failedFut1" ELSE "failedFut2"

(* which_completed when child m has failed; fut2 is called after fut1 only.*)
WhichFailed(n, m) == IF m = Fut1[n] THEN "failedFut1" ELSE "failedBoth"

(* The failure of fut1 falls through to the third block, which calls fut2; *)
(* that of fut2 to the last line of the function.                          *)
SelectChildFails(n) ==
  /\ \E m \in {Fut1[n], Fut2[n]} :
       /\ HasReply(n, m, FAILURE)
       /\ self' = [self EXCEPT ![n].which_completed = WhichFailed(n, m)]
       /\ IF m = Fut1[n] THEN Call(Fut2[n]) ELSE Return(n, PENDING)
  /\ errcode' = [errcode EXCEPT ![n] = SELECT_ERRCODE]
  /\ UNCHANGED <<arg, ok, due>>

-----------------------------------------------------------------------------

LeafEnds(n) == LeafCompletes(n) \/ LeafFails(n)

LeafStep(n) == LeafPends(n) \/ LeafEnds(n)

ThenStep(n) ==
  \/ ThenProgress(n)
  \/ ThenFut1Completes(n)
  \/ ThenFut2Completes(n)
  \/ ThenFails(n)
  \/ ChildPends(n)

JoinStep(n) ==
  \/ JoinProgress(n)
  \/ JoinFut1Returns(n)
  \/ JoinFut2Returns(n)

SelectStep(n) ==
  \/ SelectProgress(n)
  \/ SelectCompletes(n)
  \/ SelectChildFails(n)
  \/ ChildPends(n)

(* The executor waits for ever for a root whose waker nobody calls.        *)
Resting ==
  /\ stack = <<>>
  /\ \A r \in Roots : ~MayBeCalled(r)
  /\ UNCHANGED vars

NodeStep ==
  \/ \E n \in Leaves : LeafStep(n)
  \/ \E n \in KindsAre("then") : ThenStep(n)
  \/ \E n \in KindsAre("join") : JoinStep(n)
  \/ \E n \in KindsAre("select") : SelectStep(n)

Next == Progress \/ NodeStep \/ Resting

Spec == Init /\ [][Next]_vars

(* A waker call that is due comes, no call of progress() lasts for ever,   *)
(* and a leaf that is called again and again ends some day.                *)
Fairness ==
  /\ WF_vars(Progress \/ NodeStep)
  /\ \A n \in Leaves : SF_vars(LeafEnds(n))

FairSpec == Spec /\ Fairness
-----------------------------------------------------------------------------
(***************************************************************************)
(* Properties.                                                             *)
(***************************************************************************)

States == {"new", PENDING, COMPLETED, FAILURE}
HasEnded(n) == status[n] \in {COMPLETED, FAILURE}

(* progress() of n has returned and is not being called again.             *)
IsIdle(n) == n \notin Range(stack) /\ status[n] # "new"

(* A select whose children have both failed, which never ends (see         *)
(* SelectFailsWithBoth): the one way in which a tree gets stuck.           *)
Stuck(n) ==
  Kind[n] = "select" /\ status[Fut1[n]] = FAILURE /\ status[Fut2[n]] = FAILURE

(* Every variable holds a value of its C type, the calls in progress are a *)
(* path down from a root, and SELECT_FAILED_FUT2 never arises.             *)
TypeOK ==
  /\ stack \in Seq(Nodes)
  /\ stack # <<>> => stack[1] \in Roots
  /\ \A i \in 1 .. Len(stack) - 1 :
       stack[i] \in Inner /\ stack[i + 1] \in {Fut1[stack[i]], Fut2[stack[i]]}
  /\ reply \in {<<>>} \union (Nodes \X (States \ {"new"}))
  /\ \A n \in KindsAre("then") : self[n].fut1_completed \in BOOLEAN
  /\ \A n \in KindsAre("join") :
       {self[n].fut1_completed, self[n].fut2_completed} \subseteq States \ {"new"}
  /\ \A n \in KindsAre("select") :
       self[n].which_completed \in {"none", "completedFut1", "completedFut2",
                                    "failedFut1", "failedBoth"}
  /\ errcode \in [Nodes -> 0 .. 3]
  /\ status \in [Nodes -> States]
  /\ due \subseteq Leaves

(* Every future of the tree, leaf or combinator, is used as ProgressFn     *)
(* (future.h:18-28) demands: never called once it has ended, and whenever  *)
(* it is left pending, some leaf below it will have the waker called.  The *)
(* second is what a combinator owes its caller although it never touches a *)
(* waker itself: it must not answer FUTURE_PENDING when all it has called  *)
(* has ended.  Only a stuck select does.                                   *)
Life(n) == INSTANCE FutureContract WITH
             status  <- status[n],
             inCall  <- n \in Range(stack),
             wakeDue <- \E m \in Subtree[n] : m \in due \/ Stuck(m)

MeetsContract ==
  /\ \A n \in Nodes : Life(n)!ContractInit
  /\ [][\A n \in Nodes : [Life(n)!ContractNext]_(Life(n)!contractVars)]_vars

(* "When the first future (fut1) completes, its result is passed to the    *)
(* second future (fut2)" (future_combinators.h:14): fut2 never runs before,*)
(* or with another argument, however deep the tree below fut1 is.          *)
ThenPassesResult ==
  \A n \in KindsAre("then") :
    (Fut2[n] \in Range(stack) \/ status[Fut2[n]] # "new")
      => status[Fut1[n]] = COMPLETED /\ arg[Fut2[n]] = ok[Fut1[n]]

(* "The ThenFuture is considered COMPLETED when fut2 is COMPLETED. If      *)
(* either of the futures returns FAILURE, ThenFuture shall return FAILURE, *)
(* too, and set the proper errcode" (future_combinators.h:15-17).          *)
ThenVerdict ==
  \A n \in KindsAre("then") :
    LET fut1 == status[Fut1[n]]
        fut2 == status[Fut2[n]]
    IN  IsIdle(n) =>
          CASE fut1 = FAILURE ->
                 status[n] = FAILURE /\ errcode[n] = ERR_FUT1_FAILED /\ fut2 = "new"
            [] fut2 = FAILURE ->
                 status[n] = FAILURE /\ errcode[n] = ERR_FUT2_FAILED
            [] fut2 = COMPLETED ->
                 status[n] = COMPLETED /\ ok[n] = ok[Fut2[n]]
            [] OTHER -> status[n] = PENDING

(* "JoinFuture shall progress both futures until completion even if one of *)
(* the futures returns FAILURE" (future_combinators.h:37-40): it ends when *)
(* both have and not before, and its errcode says which ones failed.       *)
JoinVerdict ==
  \A n \in KindsAre("join") :
    LET fut1 == status[Fut1[n]]
        fut2 == status[Fut2[n]]
    IN  IsIdle(n) =>
          /\ "new" \notin {fut1, fut2}
          /\ status[n] = CASE PENDING \in {fut1, fut2} -> PENDING
                           [] fut1 = COMPLETED /\ fut2 = COMPLETED -> COMPLETED
                           [] OTHER -> FAILURE
          /\ HasEnded(n) =>
               errcode[n] = (IF fut1 = FAILURE THEN ERR_FUT1_FAILED ELSE 0)
                          + (IF fut2 = FAILURE THEN ERR_FUT2_FAILED ELSE 0)

(* "JoinFuture shall save corresponding returns" (future_combinators.h:38):*)
(* a value returned in an early call is still there in the end.            *)
JoinSavesReturns ==
  \A n \in KindsAre("join") :
    HasEnded(n) =>
      /\ status[Fut1[n]] = COMPLETED => self[n].fut1.ok = ok[Fut1[n]]
      /\ status[Fut2[n]] = COMPLETED => self[n].fut2.ok = ok[Fut2[n]]

(* "The SelectFuture is considered COMPLETED when fut1 or fut2 are         *)
(* COMPLETED" (future_combinators.h:66), and then with the result of the   *)
(* one that is.                                                            *)
SelectVerdict ==
  \A n \in KindsAre("select") :
    IsIdle(n) =>
      /\ status[n] = COMPLETED <=> COMPLETED \in {status[Fut1[n]], status[Fut2[n]]}
      /\ status[n] = COMPLETED =>
           \E m \in {Fut1[n], Fut2[n]} : status[m] = COMPLETED /\ ok[n] = ok[m]

(* Two pipe reads "wrapped in SelectFuture" should "work concurrently (with*)
(* one future progressing when the other is waiting to read)"              *)
(* (basic_select_test.c:22-24): a select that waits has started both.      *)
SelectRunsBoth ==
  \A n \in KindsAre("select") :
    IsIdle(n) /\ status[n] = PENDING => "new" \notin {status[Fut1[n]], status[Fut2[n]]}

(* "SelectFuture shall only propagate error (of whichever future) if both  *)
(* futures fail" (future_combinators.h:68): it fails when both have failed.*)
SelectFailsWithBoth ==
  \A n \in KindsAre("select") :
    IsIdle(n) /\ status[Fut1[n]] = FAILURE /\ status[Fut2[n]] = FAILURE
      => status[n] = FAILURE

(* Each tree ends, unless a select in it is stuck: no combinator drops a   *)
(* leaf that it still needs.                                               *)
RootsEnd ==
  \A r \in Roots : <>(HasEnded(r) \/ \E n \in Subtree[r] : Stuck(n))
=============================================================================
