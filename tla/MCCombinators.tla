---------------------------- MODULE MCCombinators ----------------------------
(***************************************************************************)
(* Trees for Combinators.                                                  *)
(***************************************************************************)
EXTENDS Combinators

CONSTANTS n1, n2, n3, n4, n5, n6, a, b, c, d, e, f, g

(* A chain of a join and a select; below the join a chain and a select,    *)
(* below the second select a join.                                         *)
DeepNodes == {n1, n2, n3, n4, n5, n6, a, b, c, d, e, f, g}
DeepKind ==
  [n \in DeepNodes |-> CASE n \in {n1, n3} -> "then"
                         [] n \in {n2, n6} -> "join"
                         [] n \in {n4, n5} -> "select"
                         [] OTHER -> "leaf"]
DeepFut1 ==
  [n \in {n1, n2, n3, n4, n5, n6} |->
     CASE n = n1 -> n2 [] n = n2 -> n3 [] n = n3 -> a
       [] n = n4 -> c  [] n = n5 -> n6 [] n = n6 -> e]
DeepFut2 ==
  [n \in {n1, n2, n3, n4, n5, n6} |->
     CASE n = n1 -> n5 [] n = n2 -> n4 [] n = n3 -> b
       [] n = n4 -> d  [] n = n5 -> g  [] n = n6 -> f]

(* A lone combinator of two leaves.                                        *)
LoneJoin == [n \in {n1, a, b} |-> IF n = n1 THEN "join" ELSE "leaf"]
LoneSelect == [n \in {n1, a, b} |-> IF n = n1 THEN "select" ELSE "leaf"]
LoneLeft == [n \in {n1} |-> a]
LoneRight == [n \in {n1} |-> b]
=============================================================================
