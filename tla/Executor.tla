------------------------------ MODULE Executor ------------------------------
(***************************************************************************)
(* The current-thread executor (src/executor.c), its wakers (waker_wake)   *)
(* and its epoll event loop (src/mio.c), driving futures of which only the *)
(* contract of ProgressFn (include/future.h) is known.                     *)
(*                                                                         *)
(* One thread runs everything: pc says where it is.  A call of progress()  *)
(* is not atomic, because the kernel makes descriptors ready while it      *)
(* runs: each call it makes into the executor or Mio is a step, and it     *)
(* ends with ReturnPending or ReturnFinished.                              *)
(***************************************************************************)
EXTENDS FifoOps, FiniteSets

CONSTANTS
  Fds,          \* file descriptors that futures read or write
  Users,        \* Users[fd] is the set of the futures that use fd
  MaxEvents,    \* MAX_EVENTS, the most that one epoll_wait() reports
  None          \* no future

ASSUME UsersAssumption == Users \in [Fds -> SUBSET Futures]
ASSUME MaxEventsAssumption == MaxEvents \in Nat \ {0}
ASSUME NoneAssumption == None \notin Futures

VARIABLES
  pc,           \* where the thread is
  queue,        \* executor->queue
  active,       \* executor->active
  isActive,     \* the futures with is_active set
  finished,     \* the futures whose progress() has returned COMPLETED or
                \* FAILURE; the executor treats both alike
  fut,          \* the future whose progress() runs, else None
  woken,        \* this call of progress() has called its own waker
  waits,        \* descriptors for which this call has had a 0 from
                \* mio_register() and not yet unregistered
  registered,   \* registered[fd]: data.ptr of fd in the epoll set, or None
  ready,        \* descriptors the kernel holds ready (level-triggered)
  events        \* mio->events still to handle: <<fd, data.ptr>>

callVars == <<fut, woken, waits>>
taskVars == <<queue, active, isActive>>
vars == <<pc, queue, active, isActive, finished, fut, woken, waits,
          registered, ready, events>>

(* executor_create(): empty queue, empty epoll set, no active future.      *)
Init ==
  /\ pc = "client"
  /\ queue = <<>>
  /\ active = 0
  /\ isActive = {}
  /\ finished = {}
  /\ fut = None
  /\ woken = FALSE
  /\ waits = {}
  /\ registered = [fd \in Fds |-> None]
  /\ ready = {}
  /\ events = {}

-----------------------------------------------------------------------------
(***************************************************************************)
(* executor_spawn() and waker_wake().                                      *)
(***************************************************************************)

(* Mutant of ExecutorSpawn: it counts calls, not futures.                  *)
CountingSpawn(f) ==
  /\ isActive' = isActive \union {f}
  /\ active' = active + 1
  /\ queue' = Pushed(queue, f)

(* The counter counts a future when its flag rises; the result of the push *)
(* is dropped.                                                             *)
ExecutorSpawn(f) ==
  /\ isActive' = isActive \union {f}
  /\ active' = IF f \in isActive THEN active ELSE active + 1
  /\ queue' = Pushed(queue, f)

(* Mutant of WakerWake: no search of the queue.                            *)
WakeWithoutSearch(f) == ExecutorSpawn(f)

(* Mutant of WakerWake: is_active tested in place of the queue.            *)
WakeUnlessActive(f) ==
  \/ f \in isActive /\ UNCHANGED taskVars
  \/ f \notin isActive /\ ExecutorSpawn(f)

(* A future that is queued already is not queued again.                    *)
WakerWake(f) ==
  \/ Holds(queue, f) /\ UNCHANGED taskVars
  \/ ~Holds(queue, f) /\ ExecutorSpawn(f)

(* The client's thread is the executor's: it spawns between runs, or from  *)
(* inside the progress function of a running future.                       *)
Spawn(f) ==
  /\ pc \in {"client", "progress"}
  /\ f \notin isActive \union finished
  /\ ExecutorSpawn(f)
  /\ UNCHANGED <<pc, finished, callVars, registered, ready, events>>

-----------------------------------------------------------------------------
(***************************************************************************)
(* executor_run().  "loop" is the head of its inner loop.                  *)
(***************************************************************************)

EnterRun ==
  /\ pc = "client"
  /\ active > 0
  /\ pc' = "loop"
  /\ UNCHANGED <<taskVars, finished, callVars, registered, ready, events>>

PopAndProgress ==
  /\ pc = "loop"
  /\ queue # <<>>
  /\ pc' = "progress"
  /\ fut' = Head(queue)
  /\ queue' = Tail(queue)
  /\ UNCHANGED <<active, isActive, finished, woken, waits, registered, ready,
                 events>>

EnterPoll ==
  /\ pc = "loop"
  /\ queue = <<>>
  /\ active > 0
  /\ pc' = "poll"
  /\ UNCHANGED <<taskVars, finished, callVars, registered, ready, events>>

(* Mutant of LeaveRun: the outer loop stops one future early.              *)
LeaveRunEarly ==
  /\ pc = "loop"
  /\ queue = <<>>
  /\ ~(active > 1)
  /\ pc' = "client"
  /\ UNCHANGED <<taskVars, finished, callVars, registered, ready, events>>

LeaveRun ==
  /\ pc = "loop"
  /\ queue = <<>>
  /\ ~(active > 0)
  /\ pc' = "client"
  /\ UNCHANGED <<taskVars, finished, callVars, registered, ready, events>>

EndCall ==
  /\ pc = "progress"
  /\ pc' = "loop"
  /\ fut' = None
  /\ woken' = FALSE
  /\ waits' = {}
  /\ UNCHANGED <<queue, ready, events>>

(* FUTURE_PENDING.  The contract of ProgressFn: a waker call has been made *)
(* or is due, as far as the future can tell.                               *)
ReturnPending ==
  /\ woken \/ waits # {}
  /\ EndCall
  /\ UNCHANGED <<active, isActive, finished, registered>>

(* Mutant of Finish: the flag falls and the counter does not.              *)
FinishUncounted ==
  /\ EndCall
  /\ isActive' = isActive \ {fut}
  /\ finished' = finished \union {fut}
  /\ UNCHANGED active

(* FUTURE_COMPLETED or FUTURE_FAILURE.                                     *)
Finish ==
  /\ EndCall
  /\ isActive' = isActive \ {fut}
  /\ active' = active - 1
  /\ finished' = finished \union {fut}

(* How the futures of this repository finish: they have not yielded in the *)
(* same call, and they unregister their descriptors before they return.    *)
ReturnFinished(f) ==
  /\ f = fut
  /\ ~woken
  /\ Finish
  /\ registered' = [fd \in Fds |-> IF f \in Users[fd] THEN None
                                                      ELSE registered[fd]]

(* A progress function of which the contract also allows to yield and then *)
(* finish in the same call.                                                *)
FinishAfterYield(f) ==
  /\ f = fut
  /\ woken
  /\ Finish
  /\ registered' = [fd \in Fds |-> IF f \in Users[fd] THEN None
                                                      ELSE registered[fd]]

-----------------------------------------------------------------------------
(***************************************************************************)
(* What a progress function may do before it returns.                      *)
(***************************************************************************)

(* waker_wake(&waker): ask to be called again ("yield").                   *)
Yield ==
  /\ pc = "progress"
  /\ WakerWake(fut)
  /\ woken' = TRUE
  /\ UNCHANGED <<pc, finished, fut, waits, registered, ready, events>>

(* read() or write() uses up what made fd ready.                           *)
Consume(fd) ==
  /\ pc = "progress"
  /\ fut \in Users[fd]
  /\ fd \in ready
  /\ ready' = ready \ {fd}
  /\ UNCHANGED <<pc, taskVars, finished, callVars, registered, events>>

(* Mutant of MioRegister: data.fd written last overwrites data.ptr.        *)
MioRegisterByFd(fd) ==
  /\ pc = "progress"
  /\ fut \in Users[fd]
  /\ registered' = [registered EXCEPT ![fd] = IF @ = None THEN fd ELSE @]
  /\ waits' = waits \union {fd}
  /\ UNCHANGED <<pc, taskVars, finished, fut, woken, ready, events>>

(* mio_register(): 0 both when fd is added and when it was there (EEXIST), *)
(* in which case the entry, and the future it names, stay as they were.    *)
MioRegister(fd) ==
  /\ pc = "progress"
  /\ fut \in Users[fd]
  /\ registered' = [registered EXCEPT ![fd] = IF @ = None THEN fut ELSE @]
  /\ waits' = waits \union {fd}
  /\ UNCHANGED <<pc, taskVars, finished, fut, woken, ready, events>>

(* Mutant of MioUnregister: it removes every entry of the future.          *)
MioUnregisterAll(fd) ==
  /\ pc = "progress"
  /\ fut \in Users[fd]
  /\ registered[fd] # None
  /\ registered' = [x \in Fds |-> IF registered[x] = fut THEN None
                                                        ELSE registered[x]]
  /\ waits' = waits \ {fd}
  /\ UNCHANGED <<pc, taskVars, finished, fut, woken, ready, events>>

(* mio_unregister() removes the entry of fd, whoever registered it.        *)
MioUnregister(fd) ==
  /\ pc = "progress"
  /\ fut \in Users[fd]
  /\ registered[fd] # None
  /\ registered' = [registered EXCEPT ![fd] = None]
  /\ waits' = waits \ {fd}
  /\ UNCHANGED <<pc, taskVars, finished, fut, woken, ready, events>>

-----------------------------------------------------------------------------
(***************************************************************************)
(* mio_poll(), and the kernel.                                             *)
(***************************************************************************)

Reportable == {fd \in ready : registered[fd] # None}

(* Mutant of PollWait: a registration is used up by its report, as with    *)
(* EPOLLONESHOT.                                                           *)
PollWaitOneShot ==
  /\ pc = "poll"
  /\ \E reported \in SUBSET Reportable :
       /\ reported # {}
       /\ Cardinality(reported) <= MaxEvents
       /\ reported = Reportable \/ Cardinality(reported) = MaxEvents
       /\ events' = {<<fd, registered[fd]>> : fd \in reported}
       /\ registered' = [fd \in Fds |-> IF fd \in reported
                                         THEN None ELSE registered[fd]]
  /\ pc' = "dispatch"
  /\ UNCHANGED <<taskVars, finished, callVars, ready>>

(* epoll_wait() blocks until there is something to report, and reports all *)
(* of it, or MAX_EVENTS.                                                   *)
PollWait ==
  /\ pc = "poll"
  /\ \E reported \in SUBSET Reportable :
       /\ reported # {}
       /\ Cardinality(reported) <= MaxEvents
       /\ reported = Reportable \/ Cardinality(reported) = MaxEvents
       /\ events' = {<<fd, registered[fd]>> : fd \in reported}
  /\ pc' = "dispatch"
  /\ UNCHANGED <<taskVars, finished, callVars, registered, ready>>

(* epoll_wait() = -1 (a signal is enough): executor_destroy() and exit(1). *)
PollFail ==
  /\ pc = "poll"
  /\ pc' = "exited"
  /\ queue' = <<>>
  /\ registered' = [fd \in Fds |-> None]
  /\ UNCHANGED <<active, isActive, finished, callVars, ready, events>>

(* One round of the loop over the events reported; it ends with the last.  *)
HandleEvent(e) ==
  /\ pc = "dispatch"
  /\ e \in events
  /\ WakerWake(e[2])
  /\ events' = events \ {e}
  /\ pc' = IF events' = {} THEN "loop" ELSE "dispatch"
  /\ UNCHANGED <<finished, callVars, registered, ready>>

(* The peer writes to a pipe, drains it or closes it.                      *)
BecomeReady(fd) ==
  /\ pc \notin {"destroyed", "exited"}
  /\ ready' = ready \union {fd}
  /\ UNCHANGED <<pc, taskVars, finished, callVars, registered, events>>

(* executor_destroy(), whatever is still queued or registered.             *)
Destroy ==
  /\ pc = "client"
  /\ pc' = "destroyed"
  /\ queue' = <<>>
  /\ registered' = [fd \in Fds |-> None]
  /\ UNCHANGED <<active, isActive, finished, callVars, ready, events>>

Terminated ==
  /\ pc \in {"destroyed", "exited"}
  /\ UNCHANGED vars

-----------------------------------------------------------------------------
(***************************************************************************)
(* Specifications.                                                         *)
(***************************************************************************)

ExecutorStep ==
  \/ PopAndProgress
  \/ EnterPoll
  \/ LeaveRun
  \/ PollWait
  \/ \E e \in events : HandleEvent(e)

FutureStep ==
  \/ ReturnPending
  \/ \E f \in Futures : ReturnFinished(f)
  \/ \E fd \in Fds : Consume(fd) \/ MioRegister(fd) \/ MioUnregister(fd)

OtherStep ==
  \/ EnterRun
  \/ PollFail
  \/ Destroy
  \/ \E fd \in Fds : BecomeReady(fd)
  \/ Terminated

Next ==
  \/ ExecutorStep
  \/ FutureStep
  \/ OtherStep
  \/ Yield
  \/ \E f \in Futures : Spawn(f)

Spec == Init /\ [][Next]_vars

(* Futures that may finish in the call in which they have yielded.         *)
LateWakeSpec ==
  Init /\ [][Next \/ \E f \in Futures : FinishAfterYield(f)]_vars

(* Clients that never push into a full queue: they cannot ask the executor *)
(* whether it is full, so they must keep count themselves.                 *)
CarefulNext ==
  \/ ExecutorStep
  \/ FutureStep
  \/ OtherStep
  \/ (Full(queue) => Holds(queue, fut)) /\ Yield
  \/ ~Full(queue) /\ \E f \in Futures : Spawn(f)

CarefulSpec == Init /\ [][CarefulNext]_vars

(* executor_run() goes on as long as it can, and a call of progress() does *)
(* not last for ever.                                                      *)
Scheduling ==
  /\ WF_vars(ExecutorStep)
  /\ WF_vars(ReturnPending \/ \E f \in Futures : ReturnFinished(f))

(* A future called again and again finishes some day, and the other end of *)
(* a descriptor makes it ready some day, as the writers of the tests do.   *)
FiniteWork ==
  /\ \A f \in Futures : SF_vars(ReturnFinished(f))
  /\ \A fd \in Fds : WF_vars(BecomeReady(fd))

FairSpec == Spec /\ Scheduling /\ FiniteWork
FairCarefulSpec == CarefulSpec /\ Scheduling /\ FiniteWork
EndlessWorkSpec == Spec /\ Scheduling
-----------------------------------------------------------------------------
(***************************************************************************)
(* Properties.                                                             *)
(***************************************************************************)

Gone == pc \in {"destroyed", "exited"}

(* Every variable holds a value of its C type.                             *)
TypeOK ==
  /\ pc \in {"client", "loop", "progress", "poll", "dispatch", "destroyed",
             "exited"}
  /\ queue \in Seq(Futures) /\ Len(queue) <= MaxQueueSize
  /\ active \in Int
  /\ isActive \subseteq Futures
  /\ finished \subseteq Futures
  /\ fut \in Futures \union {None}
  /\ woken \in BOOLEAN
  /\ waits \subseteq Fds
  /\ registered \in [Fds -> Futures \union {None}]
  /\ ready \subseteq Fds
  /\ events \subseteq Fds \X Futures

(* "Counter of futures with is_active set to true" (executor.c:131).  It   *)
(* is raised in executor_spawn() and lowered in executor_run(), far apart: *)
(* a future queued twice, or woken after its end, makes the two disagree,  *)
(* and executor_run() then returns early or never.                         *)
ActiveCount == active = Cardinality(isActive)

(* "progress should not be called by the executor anymore once             *)
(* FUTURE_COMPLETED or FUTURE_FAILED is returned" (future.h:27): no queue  *)
(* slot, registration or pending event outlives the future it names.       *)
NoProgressAfterFinish == fut \notin finished

(* An unfinished future that is spawned is never forgotten: it is queued,  *)
(* running, or some descriptor in the epoll set will bring it back.  What  *)
(* would lose it is a refused push in executor_spawn(), or a registration  *)
(* that another future removed.                                            *)
NoOrphan ==
  ~Gone => \A f \in isActive :
             Holds(queue, f) \/ f = fut \/ f \in Range(registered)

(* "When the specified events occur on the file descriptor, the associated *)
(* Waker is invoked" (mio.h:23): when mio_register() has answered 0, the   *)
(* epoll set names the future whose waker was passed.                      *)
RegisteredWakerIsKept == \A fd \in waits : registered[fd] = fut

(* The queue is first-in first-out and every yield goes to its back: a     *)
(* queued future gets its turn even if others yield for ever.              *)
QueuedGetsATurn ==
  \A f \in Futures : (Holds(queue, f) /\ pc # "client") ~> (fut = f \/ Gone)

(* "The future will be progressed (in executor_run()) until complete"      *)
(* (executor.h:25).                                                        *)
SpawnedIsCompleted ==
  \A f \in Futures :
    (f \in isActive /\ pc = "loop") ~> (f \in finished \/ Gone)

(* "This function blocks until all spawned futures are completed"          *)
(* (executor.h:33).                                                        *)
ReturnsWhenAllAreDone ==
  [][pc = "loop" /\ pc' = "client" => isActive = {}]_vars

(* The executor is the task scope of executor.h: every future brought to   *)
(* its end once, a return when none is left and not before, and (under the *)
(* fairness of FairCarefulSpec) always some day.                           *)
Scope == INSTANCE TaskScope WITH
           spawned <- isActive \union finished,
           running <- pc \in {"loop", "progress", "poll", "dispatch"},
           gone    <- Gone

ImplementsScope == Scope!ScopeSpec
=============================================================================
