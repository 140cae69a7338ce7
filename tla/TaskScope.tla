------------------------------ MODULE TaskScope ------------------------------
(***************************************************************************)
(* What executor.h promises its client, without queue, wakers or epoll:    *)
(* executor_spawn() hands a future over, executor_run() brings every       *)
(* future handed over to its end exactly once, and it returns when there   *)
(* is none left and not before.                                            *)
(***************************************************************************)
CONSTANT Futures

VARIABLES
  spawned,        \* futures handed to the executor so far
  finished,       \* those whose progress function has finished
  running,        \* executor_run() has been entered and has not returned
  gone            \* the executor no longer exists

scopeVars == <<spawned, finished, running, gone>>

ScopeInit ==
  /\ spawned = {}
  /\ finished = {}
  /\ running = FALSE
  /\ gone = FALSE

(* A future is handed over once, before the run or by a running future.    *)
ScopeSpawn(f) ==
  /\ ~gone
  /\ f \notin spawned
  /\ spawned' = spawned \union {f}
  /\ UNCHANGED <<finished, running, gone>>

ScopeRun ==
  /\ ~gone /\ ~running
  /\ spawned # finished
  /\ running' = TRUE
  /\ UNCHANGED <<spawned, finished, gone>>

ScopeFinish(f) ==
  /\ running
  /\ f \in spawned \ finished
  /\ finished' = finished \union {f}
  /\ UNCHANGED <<spawned, running, gone>>

ScopeReturn ==
  /\ running
  /\ spawned = finished
  /\ running' = FALSE
  /\ UNCHANGED <<spawned, finished, gone>>

(* executor_destroy(), or the end of the process.                          *)
ScopeEnd ==
  /\ ~gone
  /\ gone' = TRUE
  /\ running' = FALSE
  /\ UNCHANGED <<spawned, finished>>

ScopeNext ==
  \/ \E f \in Futures : ScopeSpawn(f) \/ ScopeFinish(f)
  \/ ScopeRun
  \/ ScopeReturn
  \/ ScopeEnd

ScopeSafety == ScopeInit /\ [][ScopeNext]_scopeVars

ScopeSpec ==
  /\ ScopeSafety
  /\ \A f \in Futures : WF_scopeVars(ScopeFinish(f))
  /\ WF_scopeVars(ScopeReturn)
=============================================================================
