------------------------------ MODULE SlpdIndex ------------------------------
(***************************************************************************)
(* The index tree of slpd (slpd_index.c): a binary search tree whose nodes *)
(* hold the entries registered under one string, the newest first, and the *)
(* depths recorded for their two sub-trees.  SlpdDatabase keeps one for    *)
(* the service types and one for each indexed attribute.                   *)
(*                                                                         *)
(* A string is a sequence of character codes.                              *)
(***************************************************************************)
EXTENDS Integers, Sequences, SequencesExt, FiniteSets

CONSTANTS
    Record,     \* the pairs <<string, entry>> that may be put into the index
    Twice       \* bound: those of them that may be there twice, the others once

Nil == [nil |-> TRUE]

\* A rotation that finds no sub-tree to rotate dereferences a null pointer.
Crash == [nil |-> FALSE]

VARIABLE
    index       \* the root of the tree

-----------------------------------------------------------------------------
\* compare_string and compare_string_leading; negative, zero or positive.
CompareKey(s, t) ==
    LET n == IF Len(s) < Len(t) THEN Len(s) ELSE Len(t)
        at == SelectInSeq([i \in 1..n |-> i], LAMBDA i : s[i] # t[i])
    IN  IF at = 0 THEN Len(s) - Len(t) ELSE s[at] - t[at]

CompareKeyLeading(s, t) ==
    LET n == IF Len(s) < Len(t) THEN Len(s) ELSE Len(t)
        result == CompareKey(SubSeq(s, 1, n), SubSeq(t, 1, n))
    IN  IF result = 0 THEN Len(s) - n ELSE result

CreateIndexTreeNode(s, p) ==
    [key |-> s, vals |-> <<p>>, left |-> Nil, right |-> Nil, ld |-> 0, rd |-> 0]

Greater(a, b) == IF a > b THEN a ELSE b
TreeDepth(t) == IF t = Nil THEN 0 ELSE 1 + Greater(t.ld, t.rd)

WithLeft(t, sub) == [t EXCEPT !.left = sub, !.ld = TreeDepth(sub)]
WithRight(t, sub) == [t EXCEPT !.right = sub, !.rd = TreeDepth(sub)]

(***************************************************************************)
(* rebalance_tree goes by the recorded depths, and only by a difference of *)
(* exactly two.  A sub-tree moves with the depth recorded for it.          *)
(***************************************************************************)
LiftLeft(t) ==      \* the left rotation of a pivot
    LET up == t.right IN WithLeft([up EXCEPT !.left = Nil], [t EXCEPT !.right = up.left, !.rd = up.ld])
LiftRight(t) ==
    LET up == t.left IN WithRight([up EXCEPT !.right = Nil], [t EXCEPT !.left = up.right, !.ld = up.rd])

RebalanceTree(t) ==
    LET l == t.left
        r == t.right
    IN  IF t.ld - t.rd = 2
        THEN IF l = Nil THEN Crash
             ELSE IF TreeDepth(l.right) > TreeDepth(l.left)
             THEN LiftRight([t EXCEPT !.left = LiftLeft(l)]) ELSE LiftRight(t)
        ELSE IF t.rd - t.ld = 2
        THEN IF r = Nil THEN Crash
             ELSE IF TreeDepth(r.left) > TreeDepth(r.right)
             THEN LiftLeft([t EXCEPT !.right = LiftRight(r)]) ELSE LiftLeft(t)
        ELSE t

RECURSIVE IndexTreeInsert(_, _, _)
IndexTreeInsert(t, s, p) ==
    LET cmp == CompareKey(s, t.key)
    IN  RebalanceTree(
            IF cmp < 0 THEN WithLeft(t, IF t.left = Nil THEN CreateIndexTreeNode(s, p)
                                        ELSE IndexTreeInsert(t.left, s, p))
            ELSE IF cmp > 0 THEN WithRight(t, IF t.right = Nil THEN CreateIndexTreeNode(s, p)
                                              ELSE IndexTreeInsert(t.right, s, p))
            ELSE [t EXCEPT !.vals = <<p>> \o @])

AddToIndex(t, s, p) == IF t = Nil THEN CreateIndexTreeNode(s, p) ELSE IndexTreeInsert(t, s, p)

(***************************************************************************)
(* The replacement for a deleted node: the last of its left sub-tree or    *)
(* the first of its right one.  On the way back up a node is rebalanced    *)
(* and hung into its parent, but the depth recorded in the parent is the   *)
(* one of before; only the parent of the extracted node gets its own right.*)
(***************************************************************************)
RECURSIVE ExtractLeftmost(_), ExtractRightmost(_)
\* A bug: the right sub-tree of the extracted node is lost.
ExtractLeftmost_Lose(t) ==
    IF t.left = Nil THEN [rest |-> t.right, node |-> t]
    ELSE IF t.left.left = Nil
    THEN [rest |-> RebalanceTree(WithLeft(t, Nil)), node |-> t.left]
    ELSE LET r == ExtractLeftmost(t.left) IN [rest |-> RebalanceTree([t EXCEPT !.left = r.rest]), node |-> r.node]
ExtractLeftmost(t) ==
    IF t.left = Nil THEN [rest |-> t.right, node |-> t]
    ELSE IF t.left.left = Nil
    THEN [rest |-> RebalanceTree(WithLeft(t, t.left.right)), node |-> t.left]
    ELSE LET r == ExtractLeftmost(t.left) IN [rest |-> RebalanceTree([t EXCEPT !.left = r.rest]), node |-> r.node]
ExtractRightmost(t) ==
    IF t.right = Nil THEN [rest |-> t.left, node |-> t]
    ELSE IF t.right.right = Nil
    THEN [rest |-> RebalanceTree(WithRight(t, t.right.left)), node |-> t.right]
    ELSE LET r == ExtractRightmost(t.right) IN [rest |-> RebalanceTree([t EXCEPT !.right = r.rest]), node |-> r.node]

\* The side it is taken from is measured anew; the other one keeps the depth recorded.
Replace(t) ==
    LET l == ExtractRightmost(t.left)
        r == ExtractLeftmost(t.right)
    IN  IF t.ld > t.rd THEN RebalanceTree([WithLeft(l.node, l.rest) EXCEPT !.right = t.right, !.rd = t.rd])
        ELSE IF t.right # Nil THEN RebalanceTree([WithRight(r.node, r.rest) EXCEPT !.left = t.left, !.ld = t.ld])
        ELSE Nil

RECURSIVE IndexTreeDelete(_, _, _)
IndexTreeDelete(t, s, p) ==
    LET cmp == CompareKey(s, t.key)
        k == SelectInSeq(t.vals, LAMBDA q : q = p)
    IN  IF t = Nil THEN t
        ELSE IF cmp < 0 THEN RebalanceTree(WithLeft(t, IndexTreeDelete(t.left, s, p)))
        ELSE IF cmp > 0 THEN RebalanceTree(WithRight(t, IndexTreeDelete(t.right, s, p)))
        ELSE IF k = 0 THEN t
        ELSE IF Len(t.vals) > 1 THEN [t EXCEPT !.vals = RemoveAt(@, k)]
        ELSE Replace(t)

\* find_in_index and find_and_call: the entries under one string.
RECURSIVE FindAndCall(_, _), FindLeadingAndCall(_, _)
FindAndCall(t, s) ==
    LET cmp == CompareKey(s, t.key)
    IN  IF t = Nil THEN <<>>
        ELSE IF cmp < 0 THEN FindAndCall(t.left, s)
        ELSE IF cmp > 0 THEN FindAndCall(t.right, s)
        ELSE t.vals

\* find_leading_and_call: the entries under every string that s begins.
FindLeadingAndCall(t, s) ==
    LET cmp == CompareKeyLeading(s, t.key)
    IN  IF t = Nil THEN <<>>
        ELSE (IF cmp <= 0 THEN FindLeadingAndCall(t.left, s) ELSE <<>>)
             \o (IF cmp = 0 THEN t.vals ELSE <<>>)
             \o (IF cmp >= 0 THEN FindLeadingAndCall(t.right, s) ELSE <<>>)

-----------------------------------------------------------------------------
(***************************************************************************)
(* The index in use: a registration adds a record for each of its values,  *)
(* the same one again if it has a value twice, and its removal deletes     *)
(* them.                                                                   *)
(***************************************************************************)
Copies(r) ==
    LET found == FindAndCall(index, r[1]) IN Cardinality({i \in DOMAIN found : found[i] = r[2]})

IInit == index = Nil

AddRecord(r) == Copies(r) < (IF r \in Twice THEN 2 ELSE 1) /\ index' = AddToIndex(index, r[1], r[2])
DeleteRecord(r) == Copies(r) > 0 /\ index' = IndexTreeDelete(index, r[1], r[2])

INext == \E r \in Record : AddRecord(r) \/ DeleteRecord(r)

-----------------------------------------------------------------------------
RECURSIVE Height(_)
Height(t) == IF t = Nil THEN 0 ELSE 1 + Greater(Height(t.left), Height(t.right))

RECURSIVE AVL(_)
AVL(t) == t = Nil \/ /\ Height(t.left) - Height(t.right) \in -1..1
                     /\ t.ld = Height(t.left) /\ t.rd = Height(t.right)
                     /\ AVL(t.left) /\ AVL(t.right)

IsPrefixOf(s, t) == Len(s) <= Len(t) /\ SubSeq(t, 1, Len(s)) = s

(* A search by the beginning of a string, which is how slpd answers a      *)
(* predicate with a trailing wildcard, finds each entry stored under such  *)
(* a string once for every one of its strings, whatever registrations and  *)
(* removals came before (slpd_index.c:859).                                *)
LeadingFindsAll ==
    LET copies == [r \in Record |-> Copies(r)]
    IN  \A s \in UNION {{SubSeq(r[1], 1, n) : n \in 0..Len(r[1])} : r \in Record} :
            LET found == FindLeadingAndCall(index, s)
                meant == {r \in Record : copies[r] > 0 /\ IsPrefixOf(s, r[1])}
            IN  Range(found) = {r[2] : r \in meant} /\ Len(found) = MapThenSumSet(LAMBDA r : copies[r], meant)

(* No rotation ever needs a sub-tree that is not there, although the       *)
(* depths it goes by are not always those of the tree (slpd_index.c:362).  *)
RECURSIVE Sound(_)
Sound(t) == t # Crash /\ (t = Nil \/ (Sound(t.left) /\ Sound(t.right)))
RotationsAreSound == Sound(index)

(* Every sub-tree is "already balanced, or empty" and its recorded depth   *)
(* true (slpd_index.c:616).  extract_leftmost and extract_rightmost leave  *)
(* the depths of the nodes above the extracted one as they were.           *)
BalancedOrEmpty == AVL(index)
=============================================================================
