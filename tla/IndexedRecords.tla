---------------------------- MODULE IndexedRecords ----------------------------
(***************************************************************************)
(* What an index promises: for each string the entries put under it and    *)
(* not yet removed, the newest first, whatever happens to other strings.   *)
(***************************************************************************)
EXTENDS Integers, Sequences, SequencesExt

CONSTANTS Record, Key
VARIABLE under      \* the entries under each string

TypeOK == under \in [Key -> Seq({r[2] : r \in Record})]

Init == under = [k \in Key |-> <<>>]

Add(r) == under' = [under EXCEPT ![r[1]] = <<r[2]>> \o @]
Delete(r) == /\ Contains(under[r[1]], r[2])
             /\ under' = [under EXCEPT ![r[1]] = RemoveFirst(@, r[2])]

Next == \E r \in Record : Add(r) \/ Delete(r)
Spec == Init /\ [][Next]_under
===============================================================================
