------------------------------ MODULE Ordering ------------------------------
(***************************************************************************)
(* Finite sets in order.  An order is a set of pairs <<x, y>>, x before y. *)
(***************************************************************************)
EXTENDS Integers, FiniteSets

\* How many elements come before x?
Rank(X, R, x) == Cardinality({y \in X : <<y, x>> \in R})

\* The elements of X, one after the other.
Enumerated(X, R) ==
    [k \in 1..Cardinality(X) |-> CHOOSE x \in X : Rank(X, R, x) = k - 1]

\* Of two different elements one comes first, and this is transitive.
IsStrictOrder(X, R) ==
    /\ \A x \in X : <<x, x>> \notin R
    /\ \A x, y, z \in X : <<x, y>> \in R /\ <<y, z>> \in R => <<x, z>> \in R
    /\ \A x, y \in X : x # y => <<x, y>> \in R \/ <<y, x>> \in R

\* Numbers by size.
Ascending(X) == {ij \in X \X X : ij[1] < ij[2]}
=============================================================================
