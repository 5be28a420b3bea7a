------------------------------ MODULE Selection ------------------------------
(***************************************************************************)
(* What a loop with a test keeps of a sequence: the elements at some of    *)
(* its places, in the order in which they were.                            *)
(***************************************************************************)
EXTENDS Naturals, FiniteSets

InOrder(I) == CHOOSE q \in [1 .. Cardinality(I) -> I] :
                \A i, j \in 1 .. Cardinality(I) : i < j => q[i] < q[j]
Select(s, I) == [i \in 1 .. Cardinality(I) |-> s[InOrder(I)[i]]]
=============================================================================
