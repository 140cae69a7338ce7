---------------------------- MODULE FutureContract ----------------------------
(***************************************************************************)
(* The contract of ProgressFn (include/future.h) for one future: its       *)
(* progress() is called again and again, one call at a time, until it      *)
(* completes or fails and never after; when it answers FUTURE_PENDING a    *)
(* waker call is due, and stays due until the next call.                   *)
(***************************************************************************)
VARIABLES
  status,         \* "new", or what the last call of progress() returned
  inCall,         \* progress() has been called and has not returned
  wakeDue         \* something will call the waker

contractVars == <<status, inCall, wakeDue>>

Ended == status \in {"completed", "failed"}

ContractInit ==
  /\ status = "new"
  /\ inCall = FALSE
  /\ wakeDue = FALSE

Called ==
  /\ ~inCall /\ ~Ended
  /\ inCall' = TRUE
  /\ UNCHANGED status

Answered ==
  /\ inCall
  /\ inCall' = FALSE
  /\ status' \in {"pending", "completed", "failed"}
  /\ status' = "pending" => wakeDue'

(* Wakers come and go while progress() runs, or once it is of no interest. *)
WakersChange ==
  /\ UNCHANGED <<status, inCall>>
  /\ ~inCall /\ status = "pending" => wakeDue'

ContractNext == Called \/ Answered \/ WakersChange

Contract == ContractInit /\ [][ContractNext]_contractVars
=============================================================================
