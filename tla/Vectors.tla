------------------------------ MODULE Vectors ------------------------------
(***************************************************************************)
(* std::vectors from which elements are taken wherever they stand.  The    *)
(* operator says without recursion what SelectSeq says with it, so that it *)
(* can be reasoned about.                                                  *)
(***************************************************************************)
EXTENDS Naturals, Sequences, FiniteSets

\* The n-th of a set of positions
Position(I, n) == CHOOSE i \in I : Cardinality({j \in I : j <= i}) = n

\* What stands at these positions of the vector, in its order: std::remove_if and erase leave
\* that, and a loop that passes over the other elements sees it.
AtPositions(s, I) == [n \in 1 .. Cardinality(I) |-> s[Position(I, n)]]

=============================================================================
