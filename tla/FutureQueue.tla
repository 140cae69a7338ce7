----------------------------- MODULE FutureQueue -----------------------------
(***************************************************************************)
(* The ring buffer of src/executor.c (struct FutureQueue, queue_create,    *)
(* queue_push, queue_pop) and the search of it in waker_wake().            *)
(*                                                                         *)
(* The buffer is indexed from 0 as in C.  A slot is never cleared by a     *)
(* pop: what it holds stays behind, and only head and size say which slots *)
(* are live.                                                               *)
(***************************************************************************)
EXTENDS FifoOps

CONSTANT Null

ASSUME NullAssumption == Null \notin Futures

VARIABLES
  futures,        \* the buffer
  size,           \* number of live slots
  head,           \* slot of the oldest future
  tail,           \* slot the next push writes
  ret             \* what the last call returned

queueVars == <<futures, size, head, tail, ret>>

Slots == 0 .. MaxQueueSize - 1

(* Mutant of NextSlot: no wrap-around.                                     *)
NextSlotUnwrapped(s) == s + 1

(* The slot after slot s.                                                  *)
NextSlot(s) == (s + 1) % MaxQueueSize

(* queue_create(): every slot is NULL and no slot is live.                 *)
QueueInit ==
  /\ futures = [s \in Slots |-> Null]
  /\ size = 0
  /\ head = 0
  /\ tail = 0
  /\ ret = Null

(* Mutant of QueuePush: the store without the step of tail.                *)
QueuePushInPlace(f) ==
  /\ f # Null
  /\ size # MaxQueueSize
  /\ futures' = [futures EXCEPT ![tail] = f]
  /\ size' = size + 1
  /\ ret' = TRUE
  /\ UNCHANGED <<head, tail>>

(* Mutant of QueuePush: no test for a full queue, as many size as slots.   *)
QueuePushOverwriting(f) ==
  /\ f # Null
  /\ futures' = [futures EXCEPT ![tail] = f]
  /\ tail' = NextSlot(tail)
  /\ size' = IF size = MaxQueueSize THEN size ELSE size + 1
  /\ ret' = TRUE
  /\ UNCHANGED head

(* queue_push(): false for a NULL future or a full queue, else stores.     *)
QueuePush(f) ==
  \/ /\ f = Null \/ size = MaxQueueSize
     /\ ret' = FALSE
     /\ UNCHANGED <<futures, size, head, tail>>
  \/ /\ f # Null
     /\ size # MaxQueueSize
     /\ futures' = [futures EXCEPT ![tail] = f]
     /\ tail' = NextSlot(tail)
     /\ size' = size + 1
     /\ ret' = TRUE
     /\ UNCHANGED head

(* Mutant of QueuePop: head moves on although the queue is empty.          *)
QueuePopBlindly ==
  /\ ret' = futures[head]
  /\ head' = NextSlot(head)
  /\ size' = IF size = 0 THEN 0 ELSE size - 1
  /\ UNCHANGED <<futures, tail>>

(* queue_pop(): NULL when empty; the popped slot keeps its pointer.        *)
QueuePop ==
  \/ /\ size = 0
     /\ ret' = Null
     /\ UNCHANGED <<futures, size, head, tail>>
  \/ /\ size # 0
     /\ ret' = futures[head]
     /\ head' = NextSlot(head)
     /\ size' = size - 1
     /\ UNCHANGED <<futures, tail>>

(* The loop of waker_wake(): it visits size slots, from head onwards.      *)
WakerSearch(f) ==
  /\ ret' = \E i \in 0 .. size - 1 : futures[(head + i) % MaxQueueSize] = f
  /\ UNCHANGED <<futures, size, head, tail>>

QueueNext ==
  \/ \E f \in Futures \union {Null} : QueuePush(f)
  \/ QueuePop
  \/ \E f \in Futures : WakerSearch(f)

QueueSpec == QueueInit /\ [][QueueNext]_queueVars

-----------------------------------------------------------------------------
(***************************************************************************)
(* Properties.                                                             *)
(***************************************************************************)

(* The fields of struct FutureQueue have their C ranges.                   *)
QueueTypeOK ==
  /\ futures \in [Slots -> Futures \union {Null}]
  /\ size \in 0 .. MaxQueueSize
  /\ head \in Nat /\ (MaxQueueSize > 0 => head \in Slots)
  /\ tail \in Nat /\ (MaxQueueSize > 0 => tail \in Slots)
  /\ ret \in BOOLEAN \union Futures \union {Null}

(* The live slots, in the order pops will return them.                     *)
Contents == [i \in 1 .. size |-> futures[(head + i - 1) % MaxQueueSize]]

(* executor_run() dereferences what queue_pop() returns without a test     *)
(* ("fut is not null here", executor.c:216): every live slot holds a real  *)
(* future, whatever wrap-arounds and stale slots came before.              *)
LiveSlotsAreFutures == \A i \in 1 .. size : Contents[i] \in Futures

(* tail is redundant: push and pop must keep it size slots after head, or  *)
(* a push overwrites a live slot or leaves a gap that pops later return.   *)
TailFollowsSize ==
  MaxQueueSize > 0 => tail = (head + size) % MaxQueueSize

(* The ring buffer is the bounded FIFO of BoundedFifo: the same answers to *)
(* the same calls, none lost, none twice, none out of order.               *)
Fifo == INSTANCE BoundedFifo WITH fifo <- Contents
ImplementsFifo == Fifo!FifoSpec
=============================================================================
