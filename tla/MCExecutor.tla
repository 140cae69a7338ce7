------------------------------ MODULE MCExecutor ------------------------------
(***************************************************************************)
(* Instances of Executor.  Future a waits on two descriptors, as a join of *)
(* two pipe reads does, b on one, and c on none: it can only yield.        *)
(***************************************************************************)
EXTENDS Executor

CONSTANTS a, b, c, p, q, r

PrivateUsers == [fd \in Fds |-> CASE fd \in {p, q} -> {a} [] fd = r -> {b}]

(* One descriptor that a and b both use.                                   *)
SharedUsers == [fd \in Fds |-> {a, b}]
=============================================================================
