------------------------------- MODULE FifoOps -------------------------------
(***************************************************************************)
(* The operations of the executor's run queue on its abstract value: the   *)
(* sequence of the futures it holds, oldest first.  FutureQueue shows that *)
(* the ring buffer of executor.c implements them, and Executor uses them   *)
(* in its place.                                                           *)
(***************************************************************************)
EXTENDS Integers, Sequences, Functions

CONSTANTS
  Futures,        \* the futures of the program, i.e. its Future* pointers
  MaxQueueSize    \* the capacity given to executor_create()

(* A size_t. Zero is legal: such a queue refuses every push.               *)
ASSUME CapacityAssumption == MaxQueueSize \in Nat

(* Mutant of Full: a ring buffer that gives up its last slot.              *)
FullOneEarly(q) == Len(q) + 1 >= MaxQueueSize

Full(q) == Len(q) = MaxQueueSize

Holds(q, f) == f \in Range(q)

(* Mutant of Pushed: last in, first out.                                   *)
PushedInFront(q, f) == IF Full(q) THEN q ELSE <<f>> \o q

(* queue_push() refuses when the queue is full and leaves it as it is.     *)
Pushed(q, f) == IF Full(q) THEN q ELSE Append(q, f)
=============================================================================
