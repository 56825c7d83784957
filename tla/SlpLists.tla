------------------------------ MODULE SlpLists ------------------------------
(***************************************************************************)
(* Walks over a linked list that leave some of its members out, in order.  *)
(***************************************************************************)
EXTENDS Integers, FiniteSets, Sequences

\* The members of a finite set of positions, in increasing order.
InOrder(I) ==
    [n \in 1..Cardinality(I) |->
        CHOOSE i \in I : Cardinality({j \in I : j <= i}) = n]

\* What is left of a list without the members to be dropped.
Dropping(list, Drop(_)) ==
    LET I == InOrder({i \in DOMAIN list : ~Drop(list[i])})
    IN  [n \in DOMAIN I |-> list[I[n]]]
=============================================================================
