------------------------------ MODULE MCRuntime ------------------------------
(***************************************************************************)
(* Instances of Runtime, shaped like the programs of tests/.               *)
(***************************************************************************)
EXTENDS Runtime

CONSTANTS n1, n2, n3, n4, n5, a, b, c, d, e, f, g, p, q, r, u, v, w

(* The chain of then_test.c (read a, apply b, write c) joined with a select *)
(* of a read d and of two writes, e of a byte that the client has given to *)
(* it and g of what e hands on; and a read f of its own.                   *)
MixedNodes == {n1, n2, n3, n4, n5, a, b, c, d, e, f, g}
MixedRoots == {n1, f}
MixedKind == [n \in MixedNodes |-> CASE n = n1 -> "join"
                                     [] n \in {n2, n3, n5} -> "then"
                                     [] n = n4 -> "select"
                                     [] OTHER -> "leaf"]
MixedFut1 == [n \in {n1, n2, n3, n4, n5} |->
                CASE n = n1 -> n2 [] n = n2 -> n3 [] n = n3 -> a
                  [] n = n4 -> d  [] n = n5 -> e]
MixedFut2 == [n \in {n1, n2, n3, n4, n5} |->
                CASE n = n1 -> n4 [] n = n2 -> c [] n = n3 -> b
                  [] n = n4 -> n5 [] n = n5 -> g]
MixedRootOf == [n \in MixedNodes |-> IF n = f THEN f ELSE n1]
MixedOp == [n \in {a, b, c, d, e, f, g} |-> CASE n \in {a, d, f} -> "read"
                                              [] n = b -> "apply"
                                              [] OTHER -> "write"]
MixedFd == [n \in {a, c, d, e, f, g} |-> CASE n = a -> p [] n = c -> w
                                           [] n = d -> q [] n = f -> r
                                           [] n = e -> u [] n = g -> v]
MixedSize == [n \in {a, c, d, e, f, g} |-> IF n \in {a, c} THEN 3 ELSE 1]
MixedSource == [fd \in {p, q, r} |-> IF fd = p THEN <<"x", "0", "y", "y">> ELSE <<"x">>]
MixedCapacity == [fd \in {p, q, r, u, v, w} |-> IF fd = p THEN 2 ELSE 1]
MixedGiven == [n \in {a, b, c, d, e, f, g} |-> IF n = e THEN <<"x">> ELSE <<>>]

(* capitalize() of then_test.c.                                            *)
Capitalize(text) == [i \in DOMAIN text |-> IF text[i] = "x" THEN "X" ELSE text[i]]

(* basic_then_test.c: a read, then a write.                                *)
ChainKind == [n \in {n1, a, c} |-> IF n = n1 THEN "then" ELSE "leaf"]
ChainFut1 == [n \in {n1} |-> a]
ChainFut2 == [n \in {n1} |-> c]
ChainRootOf == [n \in {n1, a, c} |-> n1]
ChainOp == [n \in {a, c} |-> IF n = a THEN "read" ELSE "write"]
ChainFd == [n \in {a, c} |-> IF n = a THEN p ELSE w]
ChainSize == [n \in {a, c} |-> 2]
ChainSource == [fd \in {p} |-> <<"x", "y">>]
ChainCapacity == [fd \in {p, w} |-> 1]
ChainGiven == [n \in {a, c} |-> <<>>]

(* mio_test.c: two reads, each spawned.                                    *)
LoneKind == [n \in {a, d} |-> "leaf"]
LoneFut == <<>>
LoneRootOf == [n \in {a, d} |-> n]
LoneOp == [n \in {a, d} |-> "read"]
LoneFd == [n \in {a, d} |-> IF n = a THEN p ELSE q]
LoneSize == [n \in {a, d} |-> 1]
LoneSource == [fd \in {p, q} |-> <<"x">>]
LoneCapacity == [fd \in {p, q} |-> 1]
LoneGiven == [n \in {a, d} |-> <<>>]
=============================================================================
