---------------------------- MODULE ExecutorProofs ----------------------------
(***************************************************************************)
(* What holds of the executor for every number of futures, descriptors and *)
(* events, and for every capacity of the queue.                            *)
(***************************************************************************)
EXTENDS Executor, FiniteSetTheorems, SequenceTheorems, TLAPS

-----------------------------------------------------------------------------
(***************************************************************************)
(* Facts about the operations of the queue.                                *)
(***************************************************************************)

LEMMA PushedProperties ==
  ASSUME NEW q \in Seq(Futures), Len(q) <= MaxQueueSize, NEW f \in Futures
  PROVE  /\ Pushed(q, f) \in Seq(Futures)
         /\ Len(Pushed(q, f)) <= MaxQueueSize
         /\ Range(q) \subseteq Range(Pushed(q, f))
         /\ Range(Pushed(q, f)) \subseteq Range(q) \union {f}
         /\ ~Full(q) => f \in Range(Pushed(q, f))
         /\ f \notin Range(q) /\ IsInjective(q) => IsInjective(Pushed(q, f))
<1>1. CASE Full(q)
  BY <1>1 DEF Pushed
<1>2. CASE ~Full(q)
  <2>1. Len(q) \in Nat /\ Len(q) + 1 <= MaxQueueSize
    BY <1>2, LenProperties, CapacityAssumption DEF Full
  <2>2. /\ Append(q, f) \in Seq(Futures)
        /\ Len(Append(q, f)) = Len(q) + 1
        /\ \A i \in 1 .. Len(q) : Append(q, f)[i] = q[i]
        /\ Append(q, f)[Len(q) + 1] = f
    BY AppendProperties
  <2>3. /\ DOMAIN q = 1 .. Len(q)
        /\ DOMAIN Append(q, f) = 1 .. Len(q) + 1
    BY <2>2, LenProperties
  <2>4. \A i \in 1 .. Len(q) + 1 : i \in 1 .. Len(q) \/ i = Len(q) + 1
    BY <2>1
  <2>5. 1 .. Len(q) \subseteq 1 .. Len(q) + 1 /\ Len(q) + 1 \in 1 .. Len(q) + 1
    BY <2>1
  <2>6. Range(Append(q, f)) = Range(q) \union {f}
    BY <2>2, <2>3, <2>4, <2>5 DEF Range
  <2>7. f \notin Range(q) /\ IsInjective(q) => IsInjective(Append(q, f))
    BY <2>2, <2>3, <2>4 DEF Range, IsInjective
  <2>8. QED
    BY <1>2, <2>1, <2>2, <2>6, <2>7 DEF Pushed
<1>3. QED
  BY <1>1, <1>2

LEMMA PoppedProperties ==
  ASSUME NEW q \in Seq(Futures), q # <<>>
  PROVE  /\ Head(q) \in Range(q)
         /\ Tail(q) \in Seq(Futures)
         /\ Len(Tail(q)) = Len(q) - 1
         /\ Range(q) = Range(Tail(q)) \union {Head(q)}
         /\ IsInjective(q) => /\ IsInjective(Tail(q))
                              /\ Head(q) \notin Range(Tail(q))
<1>1. Len(q) \in Nat \ {0} /\ DOMAIN q = 1 .. Len(q)
  BY EmptySeq, LenProperties
<1>2. /\ Tail(q) \in Seq(Futures)
      /\ Len(Tail(q)) = Len(q) - 1
      /\ \A i \in 1 .. Len(Tail(q)) : Tail(q)[i] = q[i + 1]
      /\ Head(q) = q[1]
  BY HeadTailProperties
<1>3. DOMAIN Tail(q) = 1 .. Len(q) - 1
  BY <1>2, LenProperties
<1>4. \A i \in 1 .. Len(q) : i = 1 \/ (i - 1 \in 1 .. Len(q) - 1 /\ (i - 1) + 1 = i)
  BY <1>1
<1>5. /\ 1 \in 1 .. Len(q)
      /\ \A i \in 1 .. Len(q) - 1 : i + 1 \in 1 .. Len(q) /\ i + 1 # 1
      /\ \A i, j \in 1 .. Len(q) - 1 : i + 1 = j + 1 => i = j
  BY <1>1
<1>6. Range(q) = Range(Tail(q)) \union {Head(q)}
  <2>1. ASSUME NEW i \in 1 .. Len(q)
        PROVE  q[i] \in Range(Tail(q)) \union {Head(q)}
    <3>1. CASE i = 1
      BY <1>2, <3>1
    <3>2. CASE i - 1 \in 1 .. Len(q) - 1 /\ (i - 1) + 1 = i
      <4>1. Tail(q)[i - 1] = q[i]
        BY <1>2, <3>2
      <4>2. QED
        BY <1>3, <3>2, <4>1 DEF Range
    <3>3. QED
      BY <1>4, <3>1, <3>2
  <2>2. ASSUME NEW i \in 1 .. Len(q) - 1
        PROVE  Tail(q)[i] \in Range(q)
    BY <1>1, <1>2, <1>5 DEF Range
  <2>3. Head(q) \in Range(q)
    BY <1>1, <1>2, <1>5 DEF Range
  <2>4. Range(q) = {q[i] : i \in 1 .. Len(q)}
    BY <1>1 DEF Range
  <2>5. Range(Tail(q)) = {Tail(q)[i] : i \in 1 .. Len(q) - 1}
    BY <1>3 DEF Range
  <2>6. QED
    BY <2>1, <2>2, <2>3, <2>4, <2>5
<1>7. IsInjective(q) => IsInjective(Tail(q)) /\ Head(q) \notin Range(Tail(q))
  BY <1>1, <1>2, <1>3, <1>5 DEF Range, IsInjective
<1>8. QED
  BY <1>2, <1>6, <1>7

LEMMA EmptyQueue ==
  /\ <<>> \in Seq(Futures) /\ Len(<<>>) = 0
  /\ Range(<<>>) = {} /\ IsInjective(<<>>)
BY EmptySeq DEF Range, IsInjective

(* A queue without repetitions is no longer than the set it draws from.    *)
LEMMA QueueFitsSet ==
  ASSUME NEW S, IsFiniteSet(S), NEW q \in Seq(S), IsInjective(q)
  PROVE  Len(q) <= Cardinality(S)
<1>1. q \in [1 .. Len(q) -> S] /\ Len(q) \in Nat
  BY LenProperties
<1>2. q \in Injection(1 .. Len(q), S)
  BY <1>1 DEF Injection
<1>3. Cardinality(1 .. Len(q)) <= Cardinality(S)
  BY <1>2, FS_Injection
<1>4. Cardinality(1 .. Len(q)) = Len(q)
  <2>1. Cardinality(1 .. Len(q)) = IF 1 > Len(q) THEN 0 ELSE Len(q) - 1 + 1
    BY <1>1, FS_Interval, 1 \in Int, Len(q) \in Int
  <2>2. QED
    BY <1>1, <2>1
<1>5. QED
  BY <1>3, <1>4
-----------------------------------------------------------------------------
(***************************************************************************)
(* The inductive invariant.                                                *)
(***************************************************************************)

CountInv == IsFiniteSet(isActive) /\ active = Cardinality(isActive)

(* Only active futures are queued, and none twice.                         *)
QueuedInv == IsInjective(queue) /\ Range(queue) \subseteq isActive

(* The future that runs is active, and not queued unless it has yielded.   *)
CallInv ==
  /\ pc = "progress" <=> fut # None
  /\ fut # None => fut \in isActive
  /\ fut # None /\ ~woken => fut \notin Range(queue)
  /\ pc # "progress" => ~woken /\ waits = {}

(* Registrations and pending events name active futures only.              *)
WakersInv ==
  /\ \A fd \in Fds : registered[fd] # None =>
                       registered[fd] \in isActive /\ registered[fd] \in Users[fd]
  /\ \A e \in events : e[2] \in isActive
  /\ events # {} => pc = "dispatch"

EndedInv == isActive \intersect finished = {}

IInv == TypeOK /\ CountInv /\ QueuedInv /\ CallInv /\ WakersInv /\ EndedInv

LEMMA InitInv == Init => IInv
<1> SUFFICES ASSUME Init
             PROVE  IInv
  OBVIOUS
<1>1. TypeOK
  <2>1. queue \in Seq(Futures) /\ Len(queue) <= MaxQueueSize
    BY EmptyQueue, CapacityAssumption DEF Init
  <2>2. registered \in [Fds -> Futures \union {None}]
    BY DEF Init
  <2>3. woken \in BOOLEAN
    BY Zenon DEF Init
  <2>4. active \in Int
    BY DEF Init
  <2>5. QED
    BY <2>1, <2>2, <2>3, <2>4 DEF Init, TypeOK
<1>2. CountInv
  BY FS_EmptySet DEF Init, CountInv
<1>3. QueuedInv
  BY EmptyQueue DEF Init, QueuedInv
<1>4. CallInv /\ WakersInv /\ EndedInv
  BY DEF Init, CallInv, WakersInv, EndedInv
<1>5. QED
  BY <1>1, <1>2, <1>3, <1>4 DEF IInv

(* What a push does to the three variables it changes.                     *)
LEMMA SpawnProperties ==
  ASSUME IInv, NEW f \in Futures, ExecutorSpawn(f), f \notin Range(queue)
  PROVE  /\ queue' \in Seq(Futures) /\ Len(queue') <= MaxQueueSize
         /\ active' \in Int /\ isActive' = isActive \union {f}
         /\ isActive' \subseteq Futures
         /\ CountInv'
         /\ QueuedInv'
         /\ Range(queue) \subseteq Range(queue')
         /\ Range(queue') \subseteq Range(queue) \union {f}
         /\ ~Full(queue) => f \in Range(queue')
<1>1. /\ queue \in Seq(Futures) /\ Len(queue) <= MaxQueueSize
      /\ isActive \subseteq Futures /\ active \in Int
      /\ IsFiniteSet(isActive) /\ active = Cardinality(isActive)
      /\ IsInjective(queue) /\ Range(queue) \subseteq isActive
  BY DEF IInv, TypeOK, CountInv, QueuedInv
<1>2. /\ queue' = Pushed(queue, f)
      /\ isActive' = isActive \union {f}
      /\ active' = IF f \in isActive THEN active ELSE active + 1
  BY DEF ExecutorSpawn
<1>3. CountInv'
  BY <1>1, <1>2, FS_AddElement DEF CountInv
<1>4. QED
  BY <1>1, <1>2, <1>3, PushedProperties DEF QueuedInv

(* A wake of an active future changes the queue only.                      *)
LEMMA WakeProperties ==
  ASSUME IInv, NEW f \in isActive, WakerWake(f)
  PROVE  /\ queue' \in Seq(Futures) /\ Len(queue') <= MaxQueueSize
         /\ active' = active /\ isActive' = isActive
         /\ CountInv'
         /\ QueuedInv'
         /\ Range(queue) \subseteq Range(queue')
         /\ Range(queue') \subseteq Range(queue) \union {f}
         /\ (Full(queue) => Holds(queue, f)) => f \in Range(queue')
<1>1. f \in Futures
  BY DEF IInv, TypeOK
<1>2. CASE Holds(queue, f) /\ UNCHANGED taskVars
  BY <1>2 DEF IInv, TypeOK, CountInv, QueuedInv, taskVars, Holds
<1>3. CASE ~Holds(queue, f) /\ ExecutorSpawn(f)
  BY <1>1, <1>3, SpawnProperties DEF ExecutorSpawn, Holds
<1>4. QED
  BY <1>2, <1>3 DEF WakerWake
-----------------------------------------------------------------------------
(***************************************************************************)
(* Each action preserves it.                                               *)
(***************************************************************************)

LEMMA SpawnInv == ASSUME IInv, NEW f \in Futures, Spawn(f) PROVE IInv'
<1>1. f \notin isActive /\ f \notin finished /\ f \notin Range(queue)
  BY DEF Spawn, IInv, QueuedInv
<1>2. ExecutorSpawn(f)
  BY DEF Spawn
<1>3. /\ queue' \in Seq(Futures) /\ Len(queue') <= MaxQueueSize
      /\ active' \in Int /\ isActive' = isActive \union {f}
      /\ isActive' \subseteq Futures
      /\ CountInv'
      /\ QueuedInv'
      /\ Range(queue') \subseteq Range(queue) \union {f}
  BY <1>1, <1>2, SpawnProperties
<1>4. UNCHANGED <<pc, finished, fut, woken, waits, registered, ready, events>>
  BY DEF Spawn, callVars
<1>5. TypeOK'
  BY <1>3, <1>4 DEF IInv, TypeOK
<1>6. CallInv'
  BY <1>1, <1>3, <1>4 DEF IInv, CallInv
<1>7. WakersInv' /\ EndedInv'
  BY <1>1, <1>3, <1>4 DEF IInv, WakersInv, EndedInv
<1>8. QED
  BY <1>3, <1>5, <1>6, <1>7 DEF IInv

LEMMA YieldInv == ASSUME IInv, Yield PROVE IInv'
<1>1. fut \in isActive /\ fut # None /\ pc = "progress"
  BY DEF Yield, IInv, CallInv
<1>2. /\ queue' \in Seq(Futures) /\ Len(queue') <= MaxQueueSize
      /\ active' = active /\ isActive' = isActive
      /\ CountInv'
      /\ QueuedInv'
  BY <1>1, WakeProperties DEF Yield
<1>3. woken' = TRUE /\ UNCHANGED <<pc, finished, fut, waits, registered, ready, events>>
  BY DEF Yield
<1>4. TypeOK'
  BY <1>2, <1>3 DEF IInv, TypeOK
<1>5. CallInv' /\ WakersInv' /\ EndedInv'
  BY <1>1, <1>2, <1>3 DEF IInv, CallInv, WakersInv, EndedInv
<1>6. QED
  BY <1>2, <1>4, <1>5 DEF IInv

LEMMA HandleEventInv ==
  ASSUME IInv, NEW e \in events, HandleEvent(e) PROVE IInv'
<1>1. e[2] \in isActive
  BY DEF IInv, WakersInv
<1>2. /\ queue' \in Seq(Futures) /\ Len(queue') <= MaxQueueSize
      /\ active' = active /\ isActive' = isActive
      /\ CountInv'
      /\ QueuedInv'
  BY <1>1, WakeProperties DEF HandleEvent
<1>3. /\ pc = "dispatch" /\ pc' \in {"loop", "dispatch"}
      /\ events' = events \ {e}
      /\ events' # {} => pc' = "dispatch"
      /\ UNCHANGED <<finished, fut, woken, waits, registered, ready>>
  BY DEF HandleEvent, callVars
<1>4. TypeOK'
  BY <1>2, <1>3 DEF IInv, TypeOK
<1>5. CallInv'
  BY <1>3 DEF IInv, CallInv
<1>6. WakersInv' /\ EndedInv'
  BY <1>2, <1>3 DEF IInv, WakersInv, EndedInv
<1>7. QED
  BY <1>2, <1>4, <1>5, <1>6 DEF IInv

LEMMA PopAndProgressInv == ASSUME IInv, PopAndProgress PROVE IInv'
<1>1. /\ pc = "loop" /\ pc' = "progress" /\ queue # <<>>
      /\ fut' = Head(queue) /\ queue' = Tail(queue)
      /\ UNCHANGED <<active, isActive, finished, woken, waits, registered,
                     ready, events>>
  BY DEF PopAndProgress
<1>2. /\ Head(queue) \in Range(queue)
      /\ Tail(queue) \in Seq(Futures)
      /\ Len(Tail(queue)) = Len(queue) - 1
      /\ Range(queue) = Range(Tail(queue)) \union {Head(queue)}
      /\ IsInjective(Tail(queue))
      /\ Head(queue) \notin Range(Tail(queue))
  BY <1>1, PoppedProperties DEF IInv, TypeOK, QueuedInv
<1>3. Len(queue) \in Nat
  BY LenProperties DEF IInv, TypeOK
<1>4. fut' \in isActive /\ fut' # None
  BY <1>1, <1>2, NoneAssumption DEF IInv, TypeOK, QueuedInv
<1>5. TypeOK'
  BY <1>1, <1>2, <1>3, <1>4, CapacityAssumption DEF IInv, TypeOK
<1>6. CountInv' /\ QueuedInv'
  BY <1>1, <1>2 DEF IInv, CountInv, QueuedInv
<1>7. CallInv' /\ WakersInv' /\ EndedInv'
  BY <1>1, <1>2, <1>4 DEF IInv, CallInv, WakersInv, EndedInv
<1>8. QED
  BY <1>5, <1>6, <1>7 DEF IInv

(* The end of a call that leaves the future pending, with or without a     *)
(* waker call to come.                                                     *)
LEMMA EndCallInv ==
  ASSUME IInv, EndCall, UNCHANGED <<active, isActive, finished, registered>>
  PROVE  IInv'
<1>1. /\ pc = "progress" /\ pc' = "loop" /\ fut' = None
      /\ woken' = FALSE /\ waits' = {}
      /\ UNCHANGED <<queue, active, isActive, finished, registered, ready,
                     events>>
  BY DEF EndCall
<1>2. TypeOK'
  BY <1>1 DEF IInv, TypeOK
<1>3. CountInv' /\ QueuedInv' /\ CallInv' /\ WakersInv' /\ EndedInv'
  BY <1>1 DEF IInv, CountInv, QueuedInv, CallInv, WakersInv, EndedInv
<1>4. QED
  BY <1>2, <1>3 DEF IInv

LEMMA ReturnPendingInv == ASSUME IInv, ReturnPending PROVE IInv'
BY EndCallInv DEF ReturnPending

LEMMA ReturnFinishedInv ==
  ASSUME IInv, NEW f \in Futures, ReturnFinished(f) PROVE IInv'
<1>1. /\ pc = "progress" /\ pc' = "loop" /\ fut = f /\ fut' = None
      /\ ~woken /\ woken' = FALSE /\ waits' = {}
      /\ isActive' = isActive \ {f} /\ active' = active - 1
      /\ finished' = finished \union {f}
      /\ registered' = [fd \in Fds |-> IF f \in Users[fd] THEN None
                                                          ELSE registered[fd]]
      /\ UNCHANGED <<queue, ready, events>>
  BY DEF ReturnFinished, Finish, EndCall
<1>2. f \in isActive /\ f # None /\ f \notin Range(queue)
  BY <1>1, NoneAssumption DEF IInv, CallInv
<1>3. TypeOK'
  <2>1. registered' \in [Fds -> Futures \union {None}]
    BY <1>1 DEF IInv, TypeOK
  <2>2. active' \in Int
    BY <1>1 DEF IInv, TypeOK
  <2>3. woken' \in BOOLEAN
    BY <1>1, Zenon
  <2>4. isActive' \subseteq Futures /\ finished' \subseteq Futures
    BY <1>1 DEF IInv, TypeOK
  <2>5. QED
    BY <1>1, <2>1, <2>2, <2>3, <2>4 DEF IInv, TypeOK
<1>4. CountInv'
  BY <1>1, <1>2, FS_RemoveElement DEF IInv, CountInv
<1>5. QueuedInv' /\ CallInv'
  BY <1>1, <1>2 DEF IInv, QueuedInv, CallInv
<1>6. WakersInv'
  BY <1>1, <1>2 DEF IInv, WakersInv
<1>7. EndedInv'
  BY <1>1 DEF IInv, EndedInv
<1>8. QED
  BY <1>3, <1>4, <1>5, <1>6, <1>7 DEF IInv

LEMMA PollWaitInv == ASSUME IInv, PollWait PROVE IInv'
<1>1. PICK reported \in SUBSET Reportable :
           events' = {<<fd, registered[fd]>> : fd \in reported}
  BY DEF PollWait
<1>2. /\ pc = "poll" /\ pc' = "dispatch"
      /\ UNCHANGED <<queue, active, isActive, finished, fut, woken, waits,
                     registered, ready>>
  BY DEF PollWait, taskVars, callVars
<1>3. \A fd \in reported : /\ fd \in Fds
                           /\ registered[fd] \in isActive
                           /\ registered[fd] \in Futures
  BY DEF Reportable, IInv, TypeOK, WakersInv
<1>4. events' \subseteq Fds \X Futures /\ \A e \in events' : e[2] \in isActive
  BY <1>1, <1>3
<1>5. TypeOK'
  BY <1>2, <1>4 DEF IInv, TypeOK
<1>6. CountInv' /\ QueuedInv' /\ CallInv' /\ EndedInv'
  BY <1>2 DEF IInv, CountInv, QueuedInv, CallInv, EndedInv
<1>7. WakersInv'
  BY <1>2, <1>4 DEF IInv, WakersInv
<1>8. QED
  BY <1>5, <1>6, <1>7 DEF IInv

(* The end of the executor: the queue and the epoll set are given up.      *)
LEMMA GoneInv ==
  ASSUME IInv, PollFail \/ Destroy PROVE IInv'
<1>1. /\ pc \in {"poll", "client"} /\ pc' \in {"exited", "destroyed"}
      /\ queue' = <<>> /\ registered' = [fd \in Fds |-> None]
      /\ UNCHANGED <<active, isActive, finished, fut, woken, waits, ready,
                     events>>
  BY DEF PollFail, Destroy, callVars
<1>2. TypeOK'
  BY <1>1, EmptyQueue, CapacityAssumption DEF IInv, TypeOK
<1>3. CountInv' /\ EndedInv'
  BY <1>1 DEF IInv, CountInv, EndedInv
<1>4. QueuedInv' /\ CallInv'
  BY <1>1, EmptyQueue DEF IInv, QueuedInv, CallInv
<1>5. WakersInv'
  BY <1>1 DEF IInv, WakersInv
<1>6. QED
  BY <1>2, <1>3, <1>4, <1>5 DEF IInv

(* Steps that only move the thread.                                        *)
LEMMA LoopInv ==
  ASSUME IInv, EnterRun \/ EnterPoll \/ LeaveRun PROVE IInv'
<1>1. /\ pc \in {"client", "loop"} /\ pc' \in {"client", "loop", "poll"}
      /\ UNCHANGED <<queue, active, isActive, finished, fut, woken, waits,
                     registered, ready, events>>
  BY DEF EnterRun, EnterPoll, LeaveRun, taskVars, callVars
<1>2. TypeOK'
  BY <1>1 DEF IInv, TypeOK
<1>3. CountInv' /\ QueuedInv' /\ CallInv' /\ WakersInv' /\ EndedInv'
  BY <1>1 DEF IInv, CountInv, QueuedInv, CallInv, WakersInv, EndedInv
<1>4. QED
  BY <1>2, <1>3 DEF IInv

(* Steps of a progress function and of the kernel on descriptors.          *)
LEMMA DescriptorInv ==
  ASSUME IInv, NEW fd \in Fds,
         \/ Consume(fd)
         \/ MioRegister(fd)
         \/ MioUnregister(fd)
         \/ BecomeReady(fd)
  PROVE  IInv'
<1>1. CASE Consume(fd) \/ BecomeReady(fd)
  <2>1. /\ ready' \subseteq Fds
        /\ UNCHANGED <<pc, queue, active, isActive, finished, fut, woken,
                       waits, registered, events>>
    BY <1>1 DEF Consume, BecomeReady, taskVars, callVars, IInv, TypeOK
  <2>2. TypeOK'
    BY <2>1 DEF IInv, TypeOK
  <2>3. CountInv' /\ QueuedInv' /\ CallInv' /\ WakersInv' /\ EndedInv'
    BY <2>1 DEF IInv, CountInv, QueuedInv, CallInv, WakersInv, EndedInv
  <2>4. QED
    BY <2>2, <2>3 DEF IInv
<1>2. CASE MioRegister(fd) \/ MioUnregister(fd)
  <2>1. /\ pc = "progress" /\ fut \in Users[fd] /\ fut \in isActive
        /\ fut \in Futures
        /\ waits' \subseteq Fds
        /\ registered' = [registered EXCEPT ![fd] = None]
             \/ registered' = [registered EXCEPT ![fd] = fut]
             \/ registered' = registered
        /\ UNCHANGED <<pc, queue, active, isActive, finished, fut, woken,
                       ready, events>>
    <3>1. CASE MioRegister(fd)
      BY <3>1 DEF MioRegister, taskVars, IInv, TypeOK, CallInv
    <3>2. CASE MioUnregister(fd)
      BY <3>2 DEF MioUnregister, taskVars, IInv, TypeOK, CallInv
    <3>3. QED
      BY <1>2, <3>1, <3>2
  <2>2. TypeOK'
    BY <2>1 DEF IInv, TypeOK
  <2>3. CountInv' /\ QueuedInv' /\ CallInv' /\ EndedInv'
    BY <2>1 DEF IInv, CountInv, QueuedInv, CallInv, EndedInv
  <2>4. WakersInv'
    BY <2>1 DEF IInv, TypeOK, WakersInv
  <2>5. QED
    BY <2>2, <2>3, <2>4 DEF IInv
<1>3. QED
  BY <1>1, <1>2

LEMMA StepInv == IInv /\ [Next]_vars => IInv'
<1> SUFFICES ASSUME IInv, [Next]_vars
             PROVE  IInv'
  OBVIOUS
<1>1. CASE ExecutorStep
  BY <1>1, PopAndProgressInv, LoopInv, PollWaitInv, HandleEventInv
     DEF ExecutorStep
<1>2. CASE FutureStep
  BY <1>2, ReturnPendingInv, ReturnFinishedInv, DescriptorInv DEF FutureStep
<1>3. CASE UNCHANGED vars
  BY <1>3 DEF vars, IInv, TypeOK, CountInv, QueuedInv, CallInv, WakersInv,
     EndedInv
<1>4. CASE OtherStep
  BY <1>3, <1>4, LoopInv, GoneInv, DescriptorInv DEF OtherStep, Terminated
<1>5. CASE Yield \/ \E f \in Futures : Spawn(f)
  BY <1>5, YieldInv, SpawnInv
<1>6. QED
  BY <1>1, <1>2, <1>3, <1>4, <1>5 DEF Next

LEMMA Invariance == Spec => []IInv
BY InitInv, StepInv, PTL DEF Spec

(* The variables keep their types under every action.                      *)
THEOREM TypeCorrect == Spec => []TypeOK
BY Invariance, PTL DEF IInv

(* executor->active is the number of active futures, so that the loop of   *)
(* executor_run() ends neither early nor late.                             *)
THEOREM CountsActive == Spec => []ActiveCount
BY Invariance, PTL DEF IInv, CountInv, ActiveCount

(* No progress() is called on a future that has finished.                  *)
THEOREM FinishedStaysFinished == Spec => []NoProgressAfterFinish
<1>1. IInv => NoProgressAfterFinish
  <2> SUFFICES ASSUME IInv
               PROVE  fut \notin finished
    BY DEF NoProgressAfterFinish
  <2>1. fut = None => fut \notin finished
    BY NoneAssumption DEF IInv, TypeOK
  <2>2. QED
    BY <2>1 DEF IInv, CallInv, EndedInv
<1>2. QED
  BY <1>1, Invariance, PTL
-----------------------------------------------------------------------------
(***************************************************************************)
(* The executor is a task scope.                                           *)
(***************************************************************************)

(* executor_run() returns only when no spawned future is unfinished.       *)
LEMMA LeavesWithNoneActive ==
  IInv /\ [Next]_vars => (pc = "loop" /\ pc' = "client" => isActive = {})
<1> SUFFICES ASSUME IInv, [Next]_vars, pc = "loop", pc' = "client"
             PROVE  isActive = {}
  OBVIOUS
<1>1. LeaveRun
  BY DEF Next, ExecutorStep, FutureStep, OtherStep, PopAndProgress, EnterPoll,
     LeaveRun, PollWait, HandleEvent, ReturnPending, ReturnFinished, Finish,
     EndCall, Consume, MioRegister, MioUnregister, EnterRun, PollFail, Destroy,
     BecomeReady, Terminated, Yield, Spawn, vars
<1>2. ~(Cardinality(isActive) > 0) /\ IsFiniteSet(isActive)
  BY <1>1 DEF LeaveRun, IInv, CountInv
<1>3. Cardinality(isActive) = 0
  BY <1>2, FS_CardinalityType
<1>4. QED
  BY <1>2, <1>3, FS_EmptySet

(* "This function blocks until all spawned futures are completed"          *)
(* (executor.h:33).                                                        *)
THEOREM BlocksUntilAllAreDone == Spec => ReturnsWhenAllAreDone
BY Invariance, LeavesWithNoneActive, PTL DEF Spec, ReturnsWhenAllAreDone

LEMMA ScopeInitHolds == Init => Scope!ScopeInit
BY DEF Init, Scope!ScopeInit, Gone

LEMMA ScopeStepHolds ==
  IInv /\ [Next]_vars => [Scope!ScopeNext]_(Scope!scopeVars)
<1> SUFFICES ASSUME IInv, [Next]_vars
             PROVE  [Scope!ScopeNext]_(Scope!scopeVars)
  OBVIOUS
<1> DEFINE running == pc \in {"loop", "progress", "poll", "dispatch"}
<1>1. ASSUME isActive' = isActive, finished' = finished,
             running' = running, Gone' = Gone
      PROVE  UNCHANGED Scope!scopeVars
  BY <1>1 DEF Scope!scopeVars
<1>2. ASSUME NEW f \in Futures, Spawn(f)
      PROVE  Scope!ScopeSpawn(f)
  BY <1>2 DEF Spawn, ExecutorSpawn, Scope!ScopeSpawn, Gone
<1>3. ASSUME EnterRun
      PROVE  Scope!ScopeRun
  <2>1. isActive # {}
    BY <1>3, FS_EmptySet DEF EnterRun, IInv, CountInv
  <2>2. isActive \union finished # finished
    BY <2>1 DEF IInv, EndedInv
  <2>3. QED
    BY <1>3, <2>2 DEF EnterRun, Scope!ScopeRun, Gone, taskVars
<1>4. ASSUME NEW f \in Futures, ReturnFinished(f)
      PROVE  Scope!ScopeFinish(f)
  <2>1. f \in isActive /\ f \notin finished /\ pc = "progress" /\ pc' = "loop"
    BY <1>4, NoneAssumption
       DEF ReturnFinished, Finish, EndCall, IInv, CallInv, EndedInv
  <2>2. isActive' = isActive \ {f} /\ finished' = finished \union {f}
    BY <1>4 DEF ReturnFinished, Finish
  <2>3. isActive' \union finished' = isActive \union finished
    BY <2>1, <2>2
  <2>4. QED
    BY <2>1, <2>2, <2>3 DEF Scope!ScopeFinish, Gone
<1>5. ASSUME LeaveRun
      PROVE  Scope!ScopeReturn
  <2>1. pc = "loop" /\ pc' = "client" /\ UNCHANGED <<isActive, finished>>
    BY <1>5 DEF LeaveRun, taskVars
  <2>2. isActive = {}
    BY <2>1, LeavesWithNoneActive
  <2>3. QED
    BY <2>1, <2>2 DEF Scope!ScopeReturn, Gone
<1>6. ASSUME PollFail \/ Destroy
      PROVE  Scope!ScopeEnd
  BY <1>6 DEF PollFail, Destroy, Scope!ScopeEnd, Gone
<1>7. ASSUME Yield
      PROVE  UNCHANGED Scope!scopeVars
  <2>1. isActive' = isActive
    BY <1>7, WakeProperties DEF Yield, IInv, CallInv
  <2>2. QED
    BY <1>1, <1>7, <2>1 DEF Yield, Gone
<1>8. ASSUME NEW e \in events, HandleEvent(e)
      PROVE  UNCHANGED Scope!scopeVars
  <2>1. isActive' = isActive
    BY <1>8, WakeProperties DEF HandleEvent, IInv, WakersInv
  <2>2. QED
    BY <1>1, <1>8, <2>1 DEF HandleEvent, Gone
<1>9. ASSUME \/ PopAndProgress
             \/ EnterPoll
             \/ PollWait
             \/ ReturnPending
             \/ \E fd \in Fds : \/ Consume(fd)
                                \/ MioRegister(fd)
                                \/ MioUnregister(fd)
                                \/ BecomeReady(fd)
             \/ Terminated
             \/ UNCHANGED vars
      PROVE  UNCHANGED Scope!scopeVars
  BY <1>1, <1>9 DEF PopAndProgress, EnterPoll, PollWait, ReturnPending,
     EndCall, Consume, MioRegister, MioUnregister, BecomeReady, Terminated,
     vars, taskVars, Gone
<1>10. QED
  BY <1>2, <1>3, <1>4, <1>5, <1>6, <1>7, <1>8, <1>9
     DEF Next, ExecutorStep, FutureStep, OtherStep, Scope!ScopeNext

(* Every spawned future is brought to its end at most once, during the     *)
(* run, and the run returns only when none is left: the safety half of     *)
(* ImplementsScope.                                                        *)
THEOREM ExecutorIsTaskScope == Spec => Scope!ScopeSafety
BY Invariance, ScopeInitHolds, ScopeStepHolds, PTL
   DEF Spec, Scope!ScopeSafety
-----------------------------------------------------------------------------
(***************************************************************************)
(* No future is forgotten, provided that no two futures share a descriptor *)
(* and that no push of a future is refused.                                *)
(***************************************************************************)

PrivateFds == \A fd \in Fds : \A f, g \in Users[fd] : f = g

(* What mio_register() has promised during this call still holds.          *)
WaitsInv ==
  \A fd \in waits : registered[fd] = fut /\ fut \in Users[fd]

LEMMA WaitsStep ==
  ASSUME PrivateFds
  PROVE  IInv /\ WaitsInv /\ [Next]_vars => WaitsInv'
<1> SUFFICES ASSUME IInv, WaitsInv, [Next]_vars
             PROVE  WaitsInv'
  OBVIOUS
<1>1. ASSUME UNCHANGED <<waits, registered, fut>>
      PROVE  WaitsInv'
  BY <1>1 DEF WaitsInv
<1>2. ASSUME waits' = {}
      PROVE  WaitsInv'
  BY <1>2 DEF WaitsInv
<1>3. ASSUME waits = {}, waits' = waits
      PROVE  WaitsInv'
  BY <1>3 DEF WaitsInv
<1>4. ASSUME NEW fd \in Fds, MioRegister(fd)
      PROVE  WaitsInv'
  <2>1. registered[fd] # None => registered[fd] = fut
    BY <1>4 DEF MioRegister, PrivateFds, IInv, WakersInv
  <2>2. /\ registered' = [registered EXCEPT ![fd] = IF @ = None THEN fut ELSE @]
        /\ waits' = waits \union {fd} /\ fut' = fut /\ fut \in Users[fd]
    BY <1>4 DEF MioRegister
  <2>3. QED
    BY <2>1, <2>2 DEF WaitsInv, IInv, TypeOK
<1>5. ASSUME NEW fd \in Fds, MioUnregister(fd)
      PROVE  WaitsInv'
  BY <1>5 DEF MioUnregister, WaitsInv, IInv, TypeOK
<1>6. CASE ReturnPending \/ \E f \in Futures : ReturnFinished(f)
  BY <1>2, <1>6 DEF ReturnPending, ReturnFinished, Finish, EndCall
<1>7. CASE PopAndProgress \/ PollFail \/ Destroy
  BY <1>3, <1>7 DEF PopAndProgress, PollFail, Destroy, callVars, IInv, CallInv
<1>8. CASE \/ EnterPoll \/ LeaveRun \/ PollWait \/ EnterRun \/ Terminated
           \/ \E e \in events : HandleEvent(e)
           \/ \E fd \in Fds : Consume(fd) \/ BecomeReady(fd)
           \/ Yield
           \/ \E f \in Futures : Spawn(f)
           \/ UNCHANGED vars
  BY <1>1, <1>8 DEF EnterPoll, LeaveRun, PollWait, EnterRun, Terminated,
     HandleEvent, Consume, BecomeReady, Yield, Spawn, callVars, vars
<1>9. QED
  BY <1>4, <1>5, <1>6, <1>7, <1>8 DEF Next, ExecutorStep, FutureStep, OtherStep

(* An answer of 0 from mio_register() is kept: the epoll set goes on       *)
(* naming the future that asked.                                           *)
THEOREM RegistrationIsKept ==
  ASSUME PrivateFds
  PROVE  Spec => []RegisteredWakerIsKept
<1>1. Init => WaitsInv
  BY DEF Init, WaitsInv
<1>2. WaitsInv => RegisteredWakerIsKept
  BY DEF WaitsInv, RegisteredWakerIsKept
<1>3. QED
  BY <1>1, <1>2, WaitsStep, Invariance, PTL DEF Spec

(* A yield has put the future back into the queue.                         *)
YieldedInv == woken => fut \in Range(queue)

CareInv == WaitsInv /\ YieldedInv /\ NoOrphan

LEMMA CarefulIsNext == [CarefulNext]_vars => [Next]_vars
BY DEF CarefulNext, Next

LEMMA YieldedStep == IInv /\ YieldedInv /\ [CarefulNext]_vars => YieldedInv'
<1> SUFFICES ASSUME IInv, YieldedInv, [CarefulNext]_vars
             PROVE  YieldedInv'
  OBVIOUS
<1>1. ASSUME woken' = FALSE
      PROVE  YieldedInv'
  BY <1>1 DEF YieldedInv
<1>2. ASSUME UNCHANGED <<woken, fut, queue>>
      PROVE  YieldedInv'
  BY <1>2 DEF YieldedInv
<1>3. ASSUME woken' = woken, ~woken
      PROVE  YieldedInv'
  BY <1>3 DEF YieldedInv
<1>4. ASSUME Yield, Full(queue) => Holds(queue, fut)
      PROVE  YieldedInv'
  <2>1. fut \in isActive /\ fut' = fut
    BY <1>4 DEF Yield, IInv, CallInv
  <2>2. fut \in Range(queue')
    BY <1>4, <2>1, WakeProperties DEF Yield
  <2>3. QED
    BY <2>1, <2>2 DEF YieldedInv
<1>5. ASSUME NEW f \in Futures, Spawn(f)
      PROVE  YieldedInv'
  <2>1. f \notin Range(queue)
    BY <1>5 DEF Spawn, IInv, QueuedInv
  <2>2. Range(queue) \subseteq Range(queue') /\ UNCHANGED <<woken, fut>>
    BY <1>5, <2>1, SpawnProperties DEF Spawn, callVars
  <2>3. QED
    BY <2>2 DEF YieldedInv
<1>6. CASE ReturnPending \/ \E f \in Futures : ReturnFinished(f)
  BY <1>1, <1>6 DEF ReturnPending, ReturnFinished, Finish, EndCall
<1>7. CASE PopAndProgress \/ PollFail \/ Destroy \/ \E e \in events : HandleEvent(e)
  BY <1>3, <1>7 DEF PopAndProgress, PollFail, Destroy, HandleEvent, callVars,
     IInv, CallInv
<1>8. CASE \/ EnterPoll \/ LeaveRun \/ PollWait \/ EnterRun \/ Terminated
           \/ \E fd \in Fds : \/ Consume(fd) \/ BecomeReady(fd)
                              \/ MioRegister(fd) \/ MioUnregister(fd)
           \/ UNCHANGED vars
  BY <1>2, <1>8 DEF EnterPoll, LeaveRun, PollWait, EnterRun, Terminated,
     Consume, BecomeReady, MioRegister, MioUnregister, taskVars, callVars, vars
<1>9. QED
  BY <1>4, <1>5, <1>6, <1>7, <1>8
     DEF CarefulNext, ExecutorStep, FutureStep, OtherStep

LEMMA NoOrphanStep ==
  ASSUME PrivateFds
  PROVE  IInv /\ CareInv /\ [CarefulNext]_vars => NoOrphan'
<1> SUFFICES ASSUME IInv, CareInv, [CarefulNext]_vars, ~Gone',
                    NEW f \in isActive'
             PROVE  \/ f \in Range(queue')
                    \/ f = fut'
                    \/ f \in Range(registered')
  BY DEF NoOrphan, Holds
<1>1. ~Gone
  BY DEF Gone, CarefulNext, ExecutorStep, FutureStep, OtherStep,
     PopAndProgress, EnterPoll, LeaveRun, PollWait, HandleEvent, ReturnPending,
     ReturnFinished, Finish, EndCall, Consume, MioRegister, MioUnregister,
     EnterRun, PollFail, Destroy, BecomeReady, Terminated, Yield, Spawn, vars
<1>2. f \in isActive => \/ f \in Range(queue)
                        \/ f = fut
                        \/ \E fd \in Fds : registered[fd] = f
  BY <1>1 DEF CareInv, NoOrphan, Holds, Range, IInv, TypeOK
<1>3. f # None
  <2>1. IInv'
    BY StepInv, CarefulIsNext
  <2>2. QED
    BY <2>1, NoneAssumption DEF IInv, TypeOK
<1>4. Range(registered) = {registered[fd] : fd \in Fds}
  BY DEF Range, IInv, TypeOK
<1>5. ASSUME Range(queue) \subseteq Range(queue'), fut' = fut,
             registered' = registered, isActive' = isActive
      PROVE  f \in Range(queue') \/ f = fut' \/ f \in Range(registered')
  BY <1>2, <1>4, <1>5
<1>6. ASSUME NEW g \in Futures, Spawn(g), ~Full(queue)
      PROVE  f \in Range(queue') \/ f = fut' \/ f \in Range(registered')
  <2>1. g \notin Range(queue)
    BY <1>6 DEF Spawn, IInv, QueuedInv
  <2>2. /\ Range(queue) \subseteq Range(queue') /\ g \in Range(queue')
        /\ isActive' = isActive \union {g}
        /\ UNCHANGED <<fut, registered>>
    BY <1>6, <2>1, SpawnProperties DEF Spawn, callVars
  <2>3. QED
    BY <1>2, <1>4, <2>2
<1>7. CASE Yield
  BY <1>5, <1>7, WakeProperties DEF Yield, IInv, CallInv
<1>8. ASSUME NEW e \in events, HandleEvent(e)
      PROVE  f \in Range(queue') \/ f = fut' \/ f \in Range(registered')
  BY <1>5, <1>8, WakeProperties DEF HandleEvent, callVars, IInv, WakersInv
<1>9. CASE PopAndProgress
  <2>1. /\ Range(queue) = Range(queue') \union {fut'} /\ fut = None
        /\ UNCHANGED <<isActive, registered>>
    BY <1>9, PoppedProperties DEF PopAndProgress, IInv, TypeOK, CallInv
  <2>2. QED
    BY <1>2, <1>3, <1>4, <2>1
<1>10. CASE ReturnPending
  <2>1. /\ woken \/ waits # {}
        /\ UNCHANGED <<queue, isActive, registered>>
    BY <1>10 DEF ReturnPending, EndCall
  <2>2. fut \in Range(queue) \/ \E fd \in Fds : registered[fd] = fut
    BY <2>1 DEF CareInv, WaitsInv, YieldedInv, IInv, TypeOK
  <2>3. QED
    BY <1>2, <1>4, <2>1, <2>2
<1>11. ASSUME NEW g \in Futures, ReturnFinished(g)
       PROVE  f \in Range(queue') \/ f = fut' \/ f \in Range(registered')
  <2>1. /\ g = fut /\ isActive' = isActive \ {g} /\ queue' = queue
        /\ registered' = [fd \in Fds |-> IF g \in Users[fd] THEN None
                                                            ELSE registered[fd]]
    BY <1>11 DEF ReturnFinished, Finish, EndCall
  <2>2. ASSUME NEW fd \in Fds, registered[fd] = f
        PROVE  registered'[fd] = f
    <3>1. f \in Users[fd] /\ f # g
      BY <1>3, <2>1, <2>2 DEF IInv, WakersInv
    <3>2. QED
      BY <2>1, <2>2, <3>1 DEF PrivateFds
  <2>3. Range(registered') = {registered'[fd] : fd \in Fds}
    BY <2>1 DEF Range
  <2>4. QED
    BY <1>2, <2>1, <2>2, <2>3
<1>12. ASSUME NEW d \in Fds, MioRegister(d) \/ MioUnregister(d)
       PROVE  f \in Range(queue') \/ f = fut' \/ f \in Range(registered')
  <2>1. /\ fut \in Users[d] /\ UNCHANGED <<queue, isActive, fut>>
        /\ \A fd \in Fds \ {d} : registered'[fd] = registered[fd]
        /\ DOMAIN registered' = Fds
    BY <1>12 DEF MioRegister, MioUnregister, taskVars, IInv, TypeOK
  <2>2. registered[d] = f => f = fut
    BY <1>3, <2>1 DEF IInv, WakersInv, PrivateFds
  <2>3. Range(registered') = {registered'[fd] : fd \in Fds}
    BY <2>1 DEF Range
  <2>4. QED
    BY <1>2, <2>1, <2>2, <2>3
<1>13. CASE \/ EnterPoll \/ LeaveRun \/ PollWait \/ EnterRun
            \/ \E fd \in Fds : Consume(fd) \/ BecomeReady(fd)
            \/ UNCHANGED vars
  BY <1>5, <1>13 DEF EnterPoll, LeaveRun, PollWait, EnterRun, Consume,
     BecomeReady, taskVars, callVars, vars
<1>14. CASE PollFail \/ Destroy \/ Terminated
  BY <1>1, <1>14 DEF PollFail, Destroy, Terminated, Gone
<1>15. QED
  BY <1>6, <1>7, <1>8, <1>9, <1>10, <1>11, <1>12, <1>13, <1>14
     DEF CarefulNext, ExecutorStep, FutureStep, OtherStep

(* Clients that keep count of the queue lose no future, whatever its       *)
(* capacity: wakes that the full queue refuses in mio_poll() are harmless. *)
THEOREM CarefulClientsLoseNothing ==
  ASSUME PrivateFds
  PROVE  CarefulSpec => []NoOrphan
<1>1. Init => CareInv
  BY DEF Init, CareInv, WaitsInv, YieldedInv, NoOrphan
<1>2. IInv /\ CareInv /\ [CarefulNext]_vars => IInv' /\ CareInv'
  BY StepInv, CarefulIsNext, WaitsStep, YieldedStep, NoOrphanStep DEF CareInv
<1>3. CareInv => NoOrphan
  BY DEF CareInv
<1>4. QED
  BY <1>1, <1>2, <1>3, InitInv, PTL DEF CarefulSpec
-----------------------------------------------------------------------------

(* A queue with a slot for every future never refuses one: every client is *)
(* then a careful one.                                                     *)
LEMMA AmpleStep ==
  ASSUME IsFiniteSet(Futures), Cardinality(Futures) <= MaxQueueSize
  PROVE  IInv /\ [Next]_vars => [CarefulNext]_vars
<1> SUFFICES ASSUME IInv, [Next]_vars
             PROVE  [CarefulNext]_vars
  OBVIOUS
<1>1. ASSUME NEW f \in Futures, Full(queue)
      PROVE  f \in Range(queue)
  <2> SUFFICES ASSUME f \notin Range(queue)
               PROVE  FALSE
    OBVIOUS
  <2>1. queue \in Seq(Futures \ {f}) /\ IsInjective(queue)
    <3>1. queue \in Seq(Futures) /\ IsInjective(queue)
      BY DEF IInv, TypeOK, QueuedInv
    <3>2. \A i \in 1 .. Len(queue) : queue[i] \in Futures \ {f}
      BY <3>1, LenProperties, ElementOfSeq DEF Range
    <3>3. QED
      BY <3>1, <3>2, LenProperties, SeqDef
  <2>2. /\ IsFiniteSet(Futures \ {f})
        /\ Cardinality(Futures \ {f}) = Cardinality(Futures) - 1
    BY FS_RemoveElement
  <2>3. Len(queue) <= Cardinality(Futures \ {f})
    BY <2>1, <2>2, QueueFitsSet
  <2>4. QED
    BY <1>1, <2>2, <2>3, CapacityAssumption, FS_CardinalityType DEF Full
<1>2. ASSUME NEW f \in Futures, Spawn(f)
      PROVE  ~Full(queue)
  BY <1>1, <1>2 DEF Spawn, IInv, QueuedInv
<1>3. Yield /\ Full(queue) => Holds(queue, fut)
  BY <1>1 DEF Yield, Holds, IInv, TypeOK, CallInv
<1>4. QED
  BY <1>2, <1>3 DEF Next, CarefulNext

(* With a slot for every future, no future is ever lost.                   *)
THEOREM AmpleQueueLosesNothing ==
  ASSUME PrivateFds, IsFiniteSet(Futures), Cardinality(Futures) <= MaxQueueSize
  PROVE  Spec => []NoOrphan
<1>1. Spec => CarefulSpec
  BY Invariance, AmpleStep, PTL DEF Spec, CarefulSpec
<1>2. QED
  BY <1>1, CarefulClientsLoseNothing, PTL
=============================================================================
