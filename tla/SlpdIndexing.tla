---------------------------- MODULE SlpdIndexing ----------------------------
(***************************************************************************)
(* The interface of the index tree (slpd_index.h), as the database uses    *)
(* it: SlpdIndex has the tree itself.                                      *)
(***************************************************************************)
EXTENDS Integers, Sequences, SequencesExt, FiniteSets

CONSTANTS
    EmptyTree,                    \* no tree: the null pointer
    add_to_index(_, _, _),        \* the tree with an entry put under a string
    index_tree_delete(_, _, _),   \* the tree without it
    find_and_call(_, _),          \* the entries under a string, in order
    find_leading_and_call(_, _)   \* those under the strings that begin so

\* Where an entry is among those found, and how often under a string.
At(found, e) == {i \in DOMAIN found : found[i] = e}
Times(tree, s, e) == Cardinality(At(find_and_call(tree, s), e))

(***************************************************************************)
(* What the database relies on, for a tree and the strings and entries in  *)
(* use: an addition puts an entry under its string once more, a deletion   *)
(* takes it out once, either leaves all else as it is, and a search by the *)
(* beginning of a string finds what is under the strings that begin so,    *)
(* as often as it is there.                                                *)
(***************************************************************************)
KeepsRecords(tree, Strings, Items) ==
    /\ \A s \in Strings : {find_and_call(tree, s), find_leading_and_call(tree, s)} \subseteq Seq(Items)
    /\ \A s \in Strings, e \in Items :
        LET more == add_to_index(tree, s, e)
            fewer == index_tree_delete(tree, s, e)
        IN  \A q \in Strings, f \in Items :
                LET n == Times(tree, q, f)
                    this == IF q = s /\ f = e THEN 1 ELSE 0
                IN  Times(more, q, f) = n + this /\ Times(fewer, q, f) = (IF n = 0 THEN 0 ELSE n - this)
    /\ \A s \in Strings, e \in Items :
        Cardinality(At(find_leading_and_call(tree, s), e)) =
            Cardinality(UNION {{q} \X At(find_and_call(tree, q), e) : q \in {r \in Strings : IsPrefix(s, r)}})

\* A set of trees that keep their records, closed under what is done to them.
Index(Trees, Strings, Items) ==
    /\ EmptyTree \in Trees
    /\ \A s \in Strings : find_and_call(EmptyTree, s) = <<>>
    /\ \A tree \in Trees :
        /\ KeepsRecords(tree, Strings, Items)
        /\ \A s \in Strings, e \in Items : {add_to_index(tree, s, e), index_tree_delete(tree, s, e)} \subseteq Trees
=============================================================================
