----------------------------- MODULE BoundedFifo -----------------------------
(***************************************************************************)
(* What the run queue promises its callers: a first-in first-out queue of  *)
(* at most MaxQueueSize futures that answers every call.                   *)
(***************************************************************************)
EXTENDS FifoOps

CONSTANT Null     \* the NULL pointer

VARIABLES
  fifo,           \* the futures in the queue, oldest first
  ret             \* what the last call returned

fifoVars == <<fifo, ret>>

FifoTypeOK ==
  /\ fifo \in Seq(Futures)
  /\ Len(fifo) <= MaxQueueSize
  /\ ret \in BOOLEAN \union Futures \union {Null}

FifoInit ==
  /\ fifo = <<>>
  /\ ret = Null

(* Accept a future, unless there is none or there is no room.              *)
FifoPush(f) ==
  /\ ret' = (f # Null /\ ~Full(fifo))
  /\ fifo' = IF f = Null THEN fifo ELSE Pushed(fifo, f)

(* Give back the oldest future, or Null when there is none.                *)
FifoPop ==
  \/ /\ fifo = <<>>
     /\ ret' = Null
     /\ UNCHANGED fifo
  \/ /\ fifo # <<>>
     /\ ret' = Head(fifo)
     /\ fifo' = Tail(fifo)

(* Tell whether a future is queued, without changing the queue.            *)
FifoFind(f) ==
  /\ ret' = Holds(fifo, f)
  /\ UNCHANGED fifo

FifoNext ==
  \/ \E f \in Futures \union {Null} : FifoPush(f)
  \/ FifoPop
  \/ \E f \in Futures : FifoFind(f)

FifoSpec == FifoInit /\ [][FifoNext]_fifoVars
=============================================================================
