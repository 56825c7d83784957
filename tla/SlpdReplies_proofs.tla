-------------------------- MODULE SlpdReplies_proofs --------------------------
(***************************************************************************)
(* What slpd answers is right, with or without indexes: proved of every    *)
(* set of registrations and requests, every parser and evaluator of        *)
(* predicates, and every index that keeps what is put into it.             *)
(***************************************************************************)
EXTENDS SlpdReplies, SlpSequences, FunctionTheorems

Strings == Seq(Nat)

-----------------------------------------------------------------------------
(* Positions of a value in a sequence.                                     *)

\* The positions among some of a sequence where a value is.
Places(vs, s, q) == {i \in s : vs[i] = q}

\* Some positions have a finite number of members.
LEMMA PlacesAreCounted ==
    ASSUME NEW n \in Nat, NEW s \in SUBSET (1..n), NEW vs, NEW q
    PROVE  /\ IsFiniteSet(Places(vs, s, q))
           /\ Cardinality(Places(vs, s, q)) \in Nat
           /\ Cardinality(Places(vs, s, q)) = 0 <=> \A i \in s : vs[i] # q
           /\ \A r \in SUBSET s : Cardinality(Places(vs, r, q)) <= Cardinality(Places(vs, s, q))
  <1>0. IsFiniteSet(1..n)
    BY FS_Interval
  <1>1. IsFiniteSet(1..n) /\ Places(vs, s, q) \in SUBSET (1..n)
    BY <1>0 DEF Places
  <1>2. IsFiniteSet(Places(vs, s, q))
    BY <1>1, FS_Subset
  <1>3. \A r \in SUBSET s : Places(vs, r, q) \in SUBSET Places(vs, s, q)
    BY DEF Places
  <1>4. Cardinality(Places(vs, s, q)) = 0 <=> Places(vs, s, q) = {}
    BY <1>2, FS_EmptySet
  <1>5. Places(vs, s, q) = {} <=> \A i \in s : vs[i] # q
    BY DEF Places
  <1> QED
    BY <1>2, <1>3, <1>4, <1>5, FS_Subset, FS_CardinalityType

\* How the number of the places grows with the largest position.
LargestCounts(vs, n, s) ==
    \E m \in s : /\ m = Max(s) /\ m \in 1..n /\ s \ {m} \in SUBSET (1..n)
                 /\ \A q : Cardinality(Places(vs, s, q)) = IF vs[m] = q THEN Cardinality(Places(vs, s \ {m}, q)) + 1
                                                           ELSE Cardinality(Places(vs, s \ {m}, q))

\* The largest position counts if the value is there.
LEMMA PlacesWithout ==
    ASSUME NEW n \in Nat, NEW s \in SUBSET (1..n), s # {}, NEW vs
    PROVE  LargestCounts(vs, n, s)
  <1>1. PICK m \in s : m = Max(s)
    BY LargestPosition
  <1>0. m \in 1..n /\ s \ {m} \in SUBSET (1..n)
    OBVIOUS
  <1> SUFFICES ASSUME NEW q
               PROVE  Cardinality(Places(vs, s, q)) = IF vs[m] = q THEN Cardinality(Places(vs, s \ {m}, q)) + 1
                                                      ELSE Cardinality(Places(vs, s \ {m}, q))
    BY <1>0, <1>1 DEF LargestCounts
  <1>2. IsFiniteSet(Places(vs, s, q)) /\ Cardinality(Places(vs, s, q)) \in Nat
    BY PlacesAreCounted
  <1>3. ASSUME vs[m] = q
        PROVE  Cardinality(Places(vs, s, q)) = Cardinality(Places(vs, s \ {m}, q)) + 1
    <2>1. m \in Places(vs, s, q) /\ Places(vs, s \ {m}, q) = Places(vs, s, q) \ {m}
      BY <1>1, <1>3 DEF Places
    <2>2. Cardinality(Places(vs, s, q) \ {m}) = Cardinality(Places(vs, s, q)) - 1
      BY <2>1, <1>2, FS_RemoveElement
    <2>3. PICK k : k = Cardinality(Places(vs, s, q))
      OBVIOUS
    <2>4. k \in Nat /\ Cardinality(Places(vs, s \ {m}, q)) = k - 1
      BY <1>2, <2>1, <2>2, <2>3
    <2> QED
      BY <2>3, <2>4
  <1>4. ASSUME vs[m] # q
        PROVE  Cardinality(Places(vs, s, q)) = Cardinality(Places(vs, s \ {m}, q))
    <2>1. Places(vs, s \ {m}, q) = Places(vs, s, q)
      BY <1>1, <1>4 DEF Places
    <2> QED
      BY <2>1
  <1> QED
    BY <1>3, <1>4

\* How often a value is in a sequence.
NumberOf(vs, q) == Cardinality(Places(vs, 1..Len(vs), q))

-----------------------------------------------------------------------------
(* The index.                                                              *)

\* What is found under a string is there at least once.
LEMMA FoundTimes ==
    ASSUME NEW Trees, Index(Trees, Strings, Entry), NEW tree \in Trees, NEW q \in Strings
    PROVE  /\ find_and_call(tree, q) \in Seq(Entry)
           /\ \A e \in Entry : /\ Times(tree, q, e) \in Nat
                               /\ e \in ToSet(find_and_call(tree, q)) <=> Times(tree, q, e) # 0
  <1> DEFINE found == find_and_call(tree, q)
  <1>1. found \in Seq(Entry)
    BY DEF Index, KeepsRecords
  <1>2. Len(found) \in Nat /\ DOMAIN found = 1..Len(found)
    BY <1>1, LenProperties
  <1> SUFFICES ASSUME NEW e \in Entry
               PROVE  Times(tree, q, e) \in Nat /\ (e \in ToSet(found) <=> Times(tree, q, e) # 0)
    BY <1>1
  <1>3. Times(tree, q, e) = Cardinality(Places(found, 1..Len(found), e))
    BY <1>2 DEF Times, At, Places
  <1>4. e \in ToSet(found) <=> \E i \in 1..Len(found) : found[i] = e
    BY <1>2 DEF ToSet
  <1> HIDE DEF found
  <1>5. 1..Len(found) \in SUBSET (1..Len(found))
    OBVIOUS
  <1>6. /\ Cardinality(Places(found, 1..Len(found), e)) \in Nat
        /\ Cardinality(Places(found, 1..Len(found), e)) = 0 <=> \A i \in 1..Len(found) : found[i] # e
    BY <1>2, <1>5, PlacesAreCounted
  <1> QED
    BY <1>3, <1>4, <1>6

\* An empty tree holds nothing.
LEMMA NothingIsFound ==
    ASSUME NEW Trees, Index(Trees, Strings, Entry), NEW q \in Strings, NEW e \in Entry
    PROVE  EmptyTree \in Trees /\ Times(EmptyTree, q, e) = 0
  <1>1. EmptyTree \in Trees /\ find_and_call(EmptyTree, q) = <<>>
    BY DEF Index
  <1>2. e \notin ToSet(find_and_call(EmptyTree, q))
    BY <1>1 DEF ToSet
  <1> QED
    BY <1>1, <1>2, FoundTimes

\* What an addition and a deletion do to what is found.
LEMMA IndexSteps ==
    ASSUME NEW Trees, Index(Trees, Strings, Entry), NEW tree \in Trees, NEW s \in Strings, NEW e \in Entry
    PROVE  /\ add_to_index(tree, s, e) \in Trees /\ index_tree_delete(tree, s, e) \in Trees
           /\ \A q \in Strings, f \in Entry :
                /\ Times(add_to_index(tree, s, e), q, f) =
                      Times(tree, q, f) + (IF q = s /\ f = e THEN 1 ELSE 0)
                /\ Times(index_tree_delete(tree, s, e), q, f) =
                      IF Times(tree, q, f) = 0 THEN 0 ELSE Times(tree, q, f) - (IF q = s /\ f = e THEN 1 ELSE 0)
  <1>1. add_to_index(tree, s, e) \in Trees /\ index_tree_delete(tree, s, e) \in Trees
    BY DEF Index
  <1>2. KeepsRecords(tree, Strings, Entry)
    BY DEF Index
  <1> QED
    BY <1>1, <1>2, Zenon DEF KeepsRecords

\* An entry put under each of its values is there once more for each.
LEMMA AddedProperties ==
    ASSUME NEW Trees, Index(Trees, Strings, Entry), NEW tree \in Trees,
           NEW vs \in Seq(Strings), NEW e \in Entry
    PROVE  /\ Added(tree, vs, e) \in Trees
           /\ \A q \in Strings, f \in Entry :
                 Times(Added(tree, vs, e), q, f) = Times(tree, q, f) + (IF f = e THEN NumberOf(vs, q) ELSE 0)
  <1> DEFINE n == Len(vs)
  <1> DEFINE step == [y \in Trees \X (1..n) |-> add_to_index(y[1], vs[y[2]], e)]
  <1>1. n \in Nat /\ DOMAIN vs = 1..n /\ \A i \in 1..n : vs[i] \in Strings
    BY LenProperties
  <1>2. \A t \in Trees, i \in 1..n : add_to_index(t, vs[i], e) \in Trees
    BY <1>1 DEF Index
  <1>3. step \in [Trees \X (1..n) -> Trees]
    BY <1>2
  <1> DEFINE Eq(it) == it = [s \in SUBSET (1..n) |->
                   IF s = {} THEN tree ELSE add_to_index(it[s \ {Max(s)}], vs[Max(s)], e)]
  <1>4. \E it : Eq(it)
    <2>1. PICK it \in [SUBSET (1..n) -> Trees] : FoldsWith(it, n, tree, step)
      <3> HIDE DEF n, step
      <3> QED
        BY <1>1, <1>3, FoldExists
    <2>2. \A s \in SUBSET (1..n) : s # {} => Max(s) \in 1..n /\ s \ {Max(s)} \in SUBSET (1..n)
      BY <1>1, LargestPosition
    <2>3. \A s \in SUBSET (1..n) :
                it[s] = IF s = {} THEN tree ELSE add_to_index(it[s \ {Max(s)}], vs[Max(s)], e)
      <3> HIDE DEF n
      <3> QED
        BY <2>1, <2>2 DEF FoldsWith
    <2> QED
      BY <2>1, <2>3
  <1>5. Added(tree, vs, e) = (CHOOSE it : Eq(it))[1..n]
    BY <1>1 DEF Added, FoldLeft, MapThenFoldSet
  <1>6. Eq(CHOOSE it : Eq(it))
    <2> HIDE DEF Eq
    <2> QED
      BY <1>4, Zenon
  <1>7. PICK it : it = (CHOOSE f : Eq(f))
    OBVIOUS
  <1>8. \A s \in SUBSET (1..n) :
          it[s] = IF s = {} THEN tree ELSE add_to_index(it[s \ {Max(s)}], vs[Max(s)], e)
    BY <1>6, <1>7, Zenon
  <1> DEFINE P == {s \in SUBSET (1..n) :
                     /\ it[s] \in Trees
                     /\ \A q \in Strings, f \in Entry : 
                         Times(it[s], q, f) = Times(tree, q, f) + (IF f = e THEN Cardinality(Places(vs, s, q)) ELSE 0)}
  <1>9. {} \in P
    <2>1. \A q : Cardinality(Places(vs, {}, q)) = 0
      BY <1>1, PlacesAreCounted
    <2>2. \A q \in Strings, f \in Entry : Times(tree, q, f) \in Nat
      BY FoundTimes
    <2>3. it[{}] = tree
      BY <1>8
    <2> QED
      BY <2>1, <2>2, <2>3
  <1>10. ASSUME NEW s \in SUBSET (1..n), s # {}, s \ {Max(s)} \in P PROVE s \in P
    <2>2. PICK m \in s :
            /\ m = Max(s) /\ m \in 1..n /\ s \ {m} \in SUBSET (1..n)
            /\ \A q : Cardinality(Places(vs, s, q)) = IF vs[m] = q THEN Cardinality(Places(vs, s \ {m}, q)) + 1
                                                      ELSE Cardinality(Places(vs, s \ {m}, q))
      <3>1. LargestCounts(vs, n, s)
        <4> HIDE DEF n, P
        <4> QED
          BY <1>1, <1>10, PlacesWithout
      <3> QED
        BY <3>1 DEF LargestCounts
    <2>3. /\ it[s \ {m}] \in Trees
          /\ \A q \in Strings, f \in Entry :
                Times(it[s \ {m}], q, f) = Times(tree, q, f) + (IF f = e THEN Cardinality(Places(vs, s \ {m}, q)) ELSE 0)
      BY <1>10, <2>2
    <2>4. it[s] = add_to_index(it[s \ {m}], vs[m], e)
      BY <1>8, <1>10, <2>2
    <2>5. it[s] \in Trees
      BY <1>2, <2>2, <2>3, <2>4
    <2>6. \A q \in Strings, f \in Entry :
            Times(it[s], q, f) = Times(it[s \ {m}], q, f) + (IF q = vs[m] /\ f = e THEN 1 ELSE 0)
      BY <1>1, <2>2, <2>3, <2>4, IndexSteps
    <2> SUFFICES ASSUME NEW q \in Strings, NEW f \in Entry
                 PROVE  Times(it[s], q, f) = Times(tree, q, f) + (IF f = e THEN Cardinality(Places(vs, s, q)) ELSE 0)
      BY <2>5
    <2>7. /\ Times(tree, q, f) \in Nat /\ Cardinality(Places(vs, s \ {m}, q)) \in Nat
      BY <1>1, <2>2, FoundTimes, PlacesAreCounted
    <2>8. CASE f = e
      <3> DEFINE k == Cardinality(Places(vs, s \ {m}, q))
      <3>1. Times(it[s \ {m}], q, f) = Times(tree, q, f) + k
        BY <2>3, <2>8
      <3>2. Cardinality(Places(vs, s, q)) = IF q = vs[m] THEN k + 1 ELSE k
        BY <2>2, <2>7
      <3>3. Times(it[s], q, f) = Times(it[s \ {m}], q, f) + (IF q = vs[m] THEN 1 ELSE 0)
        BY <2>6, <2>8
      <3>4. k \in Nat
        BY <2>7
      <3> HIDE DEF k
      <3>5. Times(it[s], q, f) = Times(tree, q, f) + Cardinality(Places(vs, s, q))
        BY <2>7, <3>1, <3>2, <3>3, <3>4
      <3> QED
        BY <2>8, <3>5
    <2>9. CASE f # e
      <3>1. Times(it[s \ {m}], q, f) = Times(tree, q, f) + 0
        BY <2>3, <2>9
      <3>2. Times(it[s], q, f) = Times(it[s \ {m}], q, f) + 0
        BY <2>6, <2>9
      <3>3. Times(it[s], q, f) = Times(tree, q, f) + 0
        BY <2>7, <3>1, <3>2
      <3> QED
        BY <2>9, <3>3
    <2> QED
      BY <2>8, <2>9
  <1>11. \A s \in SUBSET (1..n) : s \in P
    <2> HIDE DEF P, n
    <2> QED
      BY <1>1, <1>9, <1>10, PositionsInduction
  <1>12. 1..n \in P
    BY <1>11
  <1> QED
    BY <1>5, <1>7, <1>12 DEF NumberOf

\* An entry taken from under each of its values is there no more.
LEMMA DeletedProperties ==
    ASSUME NEW Trees, Index(Trees, Strings, Entry), NEW tree \in Trees,
           NEW vs \in Seq(Strings), NEW e \in Entry,
           \A q \in Strings : Times(tree, q, e) = NumberOf(vs, q)
    PROVE  /\ Deleted(tree, vs, e) \in Trees
           /\ \A q \in Strings, f \in Entry :
                 Times(Deleted(tree, vs, e), q, f) = IF f = e THEN 0 ELSE Times(tree, q, f)
  <1> DEFINE n == Len(vs)
  <1> DEFINE step == [y \in Trees \X (1..n) |-> index_tree_delete(y[1], vs[y[2]], e)]
  <1>1. n \in Nat /\ DOMAIN vs = 1..n /\ \A i \in 1..n : vs[i] \in Strings
    BY LenProperties
  <1>2. \A t \in Trees, i \in 1..n : index_tree_delete(t, vs[i], e) \in Trees
    BY <1>1 DEF Index
  <1>3. step \in [Trees \X (1..n) -> Trees]
    BY <1>2
  <1> DEFINE Eq(it) == it = [s \in SUBSET (1..n) |->
                   IF s = {} THEN tree ELSE index_tree_delete(it[s \ {Max(s)}], vs[Max(s)], e)]
  <1>4. \E it : Eq(it)
    <2>1. PICK it \in [SUBSET (1..n) -> Trees] : FoldsWith(it, n, tree, step)
      <3> HIDE DEF n, step
      <3> QED
        BY <1>1, <1>3, FoldExists
    <2>2. \A s \in SUBSET (1..n) : s # {} => Max(s) \in 1..n /\ s \ {Max(s)} \in SUBSET (1..n)
      BY <1>1, LargestPosition
    <2>3. \A s \in SUBSET (1..n) :
                it[s] = IF s = {} THEN tree ELSE index_tree_delete(it[s \ {Max(s)}], vs[Max(s)], e)
      <3> HIDE DEF n
      <3> QED
        BY <2>1, <2>2 DEF FoldsWith
    <2> QED
      BY <2>1, <2>3
  <1>5. Deleted(tree, vs, e) = (CHOOSE it : Eq(it))[1..n]
    BY <1>1 DEF Deleted, FoldLeft, MapThenFoldSet
  <1>6. Eq(CHOOSE it : Eq(it))
    <2> HIDE DEF Eq
    <2> QED
      BY <1>4, Zenon
  <1>7. PICK it : it = (CHOOSE f : Eq(f))
    OBVIOUS
  <1>8. \A s \in SUBSET (1..n) :
          it[s] = IF s = {} THEN tree ELSE index_tree_delete(it[s \ {Max(s)}], vs[Max(s)], e)
    BY <1>6, <1>7, Zenon
  <1> DEFINE P == {s \in SUBSET (1..n) :
                     /\ it[s] \in Trees
                     /\ \A q \in Strings, f \in Entry : 
                         Times(it[s], q, f) = Times(tree, q, f) - (IF f = e THEN Cardinality(Places(vs, s, q)) ELSE 0)}
  <1>9. {} \in P
    <2>1. \A q : Cardinality(Places(vs, {}, q)) = 0
      BY <1>1, PlacesAreCounted
    <2>2. \A q \in Strings, f \in Entry : Times(tree, q, f) \in Nat
      BY FoundTimes
    <2>3. it[{}] = tree
      BY <1>8
    <2> QED
      BY <2>1, <2>2, <2>3
  <1>10. ASSUME NEW s \in SUBSET (1..n), s # {}, s \ {Max(s)} \in P PROVE s \in P
    <2>2. PICK m \in s :
            /\ m = Max(s) /\ m \in 1..n /\ s \ {m} \in SUBSET (1..n)
            /\ \A q : Cardinality(Places(vs, s, q)) = IF vs[m] = q THEN Cardinality(Places(vs, s \ {m}, q)) + 1
                                                      ELSE Cardinality(Places(vs, s \ {m}, q))
      <3>1. LargestCounts(vs, n, s)
        <4> HIDE DEF n, P
        <4> QED
          BY <1>1, <1>10, PlacesWithout
      <3> QED
        BY <3>1 DEF LargestCounts
    <2>3. /\ it[s \ {m}] \in Trees
          /\ \A q \in Strings, f \in Entry :
                Times(it[s \ {m}], q, f) = Times(tree, q, f) - (IF f = e THEN Cardinality(Places(vs, s \ {m}, q)) ELSE 0)
      BY <1>10, <2>2
    <2>4. it[s] = index_tree_delete(it[s \ {m}], vs[m], e)
      BY <1>8, <1>10, <2>2
    <2>5. it[s] \in Trees
      BY <1>2, <2>2, <2>3, <2>4
    <2>6. \A q \in Strings, f \in Entry :
            Times(it[s], q, f) = IF Times(it[s \ {m}], q, f) = 0 THEN 0
                                 ELSE Times(it[s \ {m}], q, f) - (IF q = vs[m] /\ f = e THEN 1 ELSE 0)
      BY <1>1, <2>2, <2>3, <2>4, IndexSteps
    <2> SUFFICES ASSUME NEW q \in Strings, NEW f \in Entry
                 PROVE  Times(it[s], q, f) = Times(tree, q, f) - (IF f = e THEN Cardinality(Places(vs, s, q)) ELSE 0)
      BY <2>5
    <2>7. /\ Times(tree, q, f) \in Nat
          /\ Cardinality(Places(vs, s \ {m}, q)) \in Nat /\ Cardinality(Places(vs, s, q)) \in Nat
      BY <1>1, <2>2, FoundTimes, PlacesAreCounted
    <2>8. f = e => Cardinality(Places(vs, s, q)) <= Times(tree, q, f)
      <3>1. s \in SUBSET (1..n) /\ 1..n \in SUBSET (1..n)
        OBVIOUS
      <3>2. Cardinality(Places(vs, s, q)) <= Cardinality(Places(vs, 1..n, q))
        BY <1>1, <3>1, PlacesAreCounted
      <3> QED
        BY <3>2 DEF NumberOf
    <2>9. CASE f = e
      <3> DEFINE k == Cardinality(Places(vs, s \ {m}, q))
      <3>1. Times(it[s \ {m}], q, f) = Times(tree, q, f) - k
        BY <2>3, <2>9
      <3>2. Cardinality(Places(vs, s, q)) = IF q = vs[m] THEN k + 1 ELSE k
        BY <2>2, <2>7
      <3>3. Times(it[s], q, f) = IF Times(it[s \ {m}], q, f) = 0 THEN 0
                                 ELSE Times(it[s \ {m}], q, f) - (IF q = vs[m] THEN 1 ELSE 0)
        BY <2>6, <2>9
      <3> HIDE DEF k
      <3> QED
        BY <2>7, <2>8, <2>9, <3>1, <3>2, <3>3 DEF k
    <2>10. CASE f # e
      <3>1. Times(it[s \ {m}], q, f) = Times(tree, q, f) - 0
        BY <2>3, <2>10
      <3>2. Times(it[s], q, f) = IF Times(it[s \ {m}], q, f) = 0 THEN 0 ELSE Times(it[s \ {m}], q, f) - 0
        BY <2>6, <2>10
      <3> QED
        BY <2>7, <2>10, <3>1, <3>2
    <2> QED
      BY <2>9, <2>10
  <1>11. \A s \in SUBSET (1..n) : s \in P
    <2> HIDE DEF P, n
    <2> QED
      BY <1>1, <1>9, <1>10, PositionsInduction
  <1>12. 1..n \in P
    BY <1>11
  <1>13. \A q \in Strings, f \in Entry : Times(tree, q, f) \in Nat
    BY FoundTimes
  <1>14. Deleted(tree, vs, e) = it[1..n]
    BY <1>5, <1>7
  <1>15. it[1..n] \in Trees
    BY <1>12
  <1> SUFFICES ASSUME NEW q \in Strings, NEW f \in Entry
               PROVE  Times(it[1..n], q, f) = IF f = e THEN 0 ELSE Times(tree, q, f)
    BY <1>14, <1>15
  <1>16. Times(it[1..n], q, f) = Times(tree, q, f) - (IF f = e THEN Cardinality(Places(vs, 1..n, q)) ELSE 0)
    BY <1>12
  <1>17. f = e => Times(tree, q, f) = Cardinality(Places(vs, 1..n, q))
    BY DEF NumberOf
  <1> QED
    BY <1>13, <1>16, <1>17

-----------------------------------------------------------------------------
(* What is found in an index of the registrations.                         *)

\* The index of the types has each registration once, under its type.
TypeIndexKeeps(tree, es) ==
    \A q \in Strings, e \in Entry :
        Times(tree, q, e) = IF e \in ToSet(es) /\ q = NormalisedSrvtype(e.type) THEN 1 ELSE 0

\* The index of a tag has it once for each value it has.
TagIndexKeeps(tree, tag, es) ==
    \A q \in Strings, e \in Entry :
        Times(tree, q, e) = IF e \in ToSet(es) THEN NumberOf(IndexedValues[e][tag], q) ELSE 0

\* Service types are written as strings.
LEMMA NamesAreStrings ==
    ASSUME NEW t \in ServiceType
    PROVE  /\ Name(t) \in Strings /\ String(t) \in Strings /\ NormalisedSrvtype(t) \in Strings
           /\ t.svc # "SERVICE:" => NormalisedSrvtype(t) = Name(t)
  <1>1. t.abs \in Nat /\ t.na \in Nat /\ t.conc \in Nat
    BY DEF ServiceType
  <1> DEFINE a == <<t.abs>>
             b == IF t.na = 0 THEN <<>> ELSE <<46, t.na>>
             c == IF t.conc = 0 THEN <<>> ELSE <<Colon, t.conc>>
             d == IF t.svc = "" THEN <<>> ELSE <<1, Colon>>
  <1>2. a \in Seq(Nat) /\ b \in Seq(Nat) /\ c \in Seq(Nat) /\ d \in Seq(Nat)
    BY <1>1 DEF Colon
  <1>3. Name(t) = a \o b \o c /\ String(t) = d \o Name(t)
    BY DEF Name, String
  <1> HIDE DEF a, b, c, d
  <1>4. a \o b \in Seq(Nat)
    BY <1>2, ConcatProperties
  <1>5. Name(t) \in Seq(Nat)
    BY <1>2, <1>3, <1>4, ConcatProperties
  <1>6. String(t) \in Seq(Nat)
    BY <1>2, <1>3, <1>5, ConcatProperties
  <1> QED
    BY <1>5, <1>6 DEF Strings, NormalisedSrvtype

\* By its type a registration is found under its normalised type.
LEMMA FoundByType ==
    ASSUME NEW Trees, Index(Trees, Strings, Entry), NEW tree \in Trees,
           NEW es \in Seq(Entry), TypeIndexKeeps(tree, es), NEW q \in Strings
    PROVE  /\ find_and_call(tree, q) \in Seq(Entry)
           /\ ToSet(find_and_call(tree, q)) = {e \in ToSet(es) : q = NormalisedSrvtype(e.type)}
  <1> DEFINE found == find_and_call(tree, q)
  <1>1. found \in Seq(Entry) /\ \A e \in Entry : e \in ToSet(found) <=> Times(tree, q, e) # 0
    BY FoundTimes
  <1>2. \A e \in Entry : Times(tree, q, e) # 0 <=> e \in ToSet(es) /\ q = NormalisedSrvtype(e.type)
    BY DEF TypeIndexKeeps
  <1>3. ToSet(found) \subseteq Entry /\ ToSet(es) \subseteq Entry
    BY <1>1, LenProperties DEF ToSet
  <1> QED
    BY <1>1, <1>2, <1>3

\* By a tag, under each of the values it has.
LEMMA FoundByTag ==
    ASSUME NEW Trees, Index(Trees, Strings, Entry), NEW tree \in Trees, NEW tag \in TagIndexes,
           NEW es \in Seq(Entry), TagIndexKeeps(tree, tag, es), NEW q \in Strings
    PROVE  /\ find_and_call(tree, q) \in Seq(Entry)
           /\ ToSet(find_and_call(tree, q)) = {e \in ToSet(es) : q \in ToSet(IndexedValues[e][tag])}
  <1> DEFINE found == find_and_call(tree, q)
  <1>1. found \in Seq(Entry) /\ \A e \in Entry : e \in ToSet(found) <=> Times(tree, q, e) # 0
    BY FoundTimes
  <1>2. ASSUME NEW e \in Entry
        PROVE  Times(tree, q, e) # 0 <=> e \in ToSet(es) /\ q \in ToSet(IndexedValues[e][tag])
    <2> DEFINE vs == IndexedValues[e][tag]
               n == Len(vs)
    <2>1. vs \in Seq(Strings)
      BY EntryAssumption DEF EntryAssumption, Strings
    <2>2. n \in Nat /\ DOMAIN vs = 1..n
      BY <2>1, LenProperties
    <2>3. Times(tree, q, e) = IF e \in ToSet(es) THEN Cardinality(Places(vs, 1..n, q)) ELSE 0
      BY DEF TagIndexKeeps, NumberOf
    <2>4. q \in ToSet(vs) <=> \E i \in 1..n : vs[i] = q
      BY <2>2 DEF ToSet
    <2> HIDE DEF vs, n
    <2>5. \A s \in SUBSET (1..n) : Cardinality(Places(vs, s, q)) = 0 <=> \A i \in s : vs[i] # q
      BY <2>2, PlacesAreCounted, Zenon
    <2>6. Cardinality(Places(vs, 1..n, q)) = 0 <=> \A i \in 1..n : vs[i] # q
      BY <2>5
    <2> QED
      BY <2>3, <2>4, <2>6 DEF vs
  <1>3. ToSet(found) \subseteq Entry /\ ToSet(es) \subseteq Entry
    BY <1>1, LenProperties DEF ToSet
  <1> QED
    BY <1>1, <1>2, <1>3

\* Where a value is found is counted.
LEMMA AtIsCounted ==
    ASSUME NEW found \in Seq(Entry), NEW e
    PROVE  /\ IsFiniteSet(At(found, e)) /\ Cardinality(At(found, e)) \in Nat
           /\ Cardinality(At(found, e)) = 0 <=> At(found, e) = {}
           /\ e \in ToSet(found) <=> At(found, e) # {}
  <1>1. Len(found) \in Nat /\ DOMAIN found = 1..Len(found)
    BY LenProperties
  <1>2. IsFiniteSet(1..Len(found)) /\ At(found, e) \in SUBSET (1..Len(found))
    BY <1>1, FS_Interval DEF At
  <1>3. IsFiniteSet(At(found, e))
    BY <1>2, FS_Subset
  <1>4. e \in ToSet(found) <=> At(found, e) # {}
    BY <1>1 DEF ToSet, At
  <1> QED
    BY <1>3, <1>4, FS_EmptySet, FS_CardinalityType

\* Where an entry is under the strings that begin with another.
Beginning(tree, q, e) == UNION {{r} \X At(find_and_call(tree, r), e) : r \in {s \in Strings : IsPrefix(q, s)}}

\* It is there once for each of its values that begin so.
LEMMA BeginningIsCounted ==
    ASSUME NEW Trees, Index(Trees, Strings, Entry), NEW tree \in Trees, NEW tag \in TagIndexes,
           NEW es \in Seq(Entry), TagIndexKeeps(tree, tag, es), NEW q \in Strings, NEW e \in Entry
    PROVE  /\ IsFiniteSet(Beginning(tree, q, e))
           /\ Cardinality(Beginning(tree, q, e)) <= Len(IndexedValues[e][tag])
           /\ Beginning(tree, q, e) # {} <=>
                 e \in ToSet(es) /\ \E v \in ToSet(IndexedValues[e][tag]) : IsPrefix(q, v)
  <1> DEFINE vs == IndexedValues[e][tag]
             n == Len(vs)
             P == Beginning(tree, q, e)
             Q == {s \in Strings : IsPrefix(q, s)}
             A(r) == At(find_and_call(tree, r), e)
  <1>1. vs \in Seq(Strings)
    BY EntryAssumption DEF EntryAssumption, Strings
  <1>2. n \in Nat /\ DOMAIN vs = 1..n /\ IsFiniteSet(1..n) /\ Cardinality(1..n) = n
    <2>1. n \in Nat /\ DOMAIN vs = 1..n
      BY <1>1, LenProperties
    <2> HIDE DEF n
    <2> QED
      BY <2>1, FS_Interval
  <1>3. ASSUME NEW r \in Strings
        PROVE  /\ IsFiniteSet(A(r))
               /\ A(r) # {} <=> e \in ToSet(es) /\ r \in ToSet(vs)
               /\ e \in ToSet(es) => Cardinality(A(r)) = Cardinality(Places(vs, 1..n, r))
    <2>1. find_and_call(tree, r) \in Seq(Entry)
      BY FoundByTag
    <2>2. e \in ToSet(find_and_call(tree, r)) <=> e \in ToSet(es) /\ r \in ToSet(vs)
      BY FoundByTag
    <2>3. Cardinality(A(r)) = Times(tree, r, e)
      BY DEF Times
    <2>4. e \in ToSet(es) => Times(tree, r, e) = Cardinality(Places(vs, 1..n, r))
      BY DEF TagIndexKeeps, NumberOf
    <2> QED
      BY <2>1, <2>2, <2>3, <2>4, AtIsCounted
  <1>4. \A p : p \in P <=> \E r \in Q : \E i \in A(r) : p = <<r, i>>
    BY DEF Beginning
  <1>5. P # {} <=> e \in ToSet(es) /\ \E v \in ToSet(vs) : IsPrefix(q, v)
    <2>1. P # {} <=> \E r \in Q : A(r) # {}
      <3> HIDE DEF P, A
      <3> QED
        BY <1>4
    <2>2. \A v \in ToSet(vs) : v \in Strings
      BY <1>1, LenProperties DEF ToSet
    <2> HIDE DEF P, A, vs
    <2> QED
      BY <1>3, <2>1, <2>2
  <1>6. \E f : f \in Injection(P, 1..n)
    <2>1. CASE e \notin ToSet(es)
      <3>1. P = {}
        BY <1>5, <2>1
      <3>2. [p \in {} |-> p] \in Injection({}, 1..n)
        BY Fun_IsInj
      <3> QED
        BY <3>1, <3>2
    <2>2. CASE e \in ToSet(es)
      <3> DEFINE B(r) == Places(vs, 1..n, r)
      <3>1. ASSUME NEW r \in Strings PROVE \E g : g \in Injection(A(r), B(r))
        <4>1. IsFiniteSet(A(r)) /\ Cardinality(A(r)) = Cardinality(B(r))
          BY <1>3, <2>2
        <4>2. IsFiniteSet(B(r))
          <5>1. 1..n \in SUBSET (1..n)
            OBVIOUS
          <5> HIDE DEF n, vs
          <5> QED
            BY <1>2, <5>1, PlacesAreCounted
        <4> HIDE DEF A, B
        <4>3. PICK g : g \in Bijection(A(r), B(r))
          BY <4>1, <4>2, FS_SameCardinalityBij, Fun_ExistsBij
        <4> QED
          BY <4>3, Fun_BijectionProperties
      <3> DEFINE F == [r \in Strings |-> CHOOSE g : g \in Injection(A(r), B(r))]
                 f == [p \in P |-> F[p[1]][p[2]]]
      <3>2. \A r \in Strings : /\ F[r] \in [A(r) -> B(r)]
                                /\ \A i, j \in A(r) : F[r][i] = F[r][j] => i = j
        <4> SUFFICES ASSUME NEW r \in Strings
                     PROVE  /\ F[r] \in [A(r) -> B(r)]
                            /\ \A i, j \in A(r) : F[r][i] = F[r][j] => i = j
          OBVIOUS
        <4>1. F[r] = CHOOSE g : g \in Injection(A(r), B(r))
          OBVIOUS
        <4> HIDE DEF F, A, B
        <4>2. F[r] \in Injection(A(r), B(r))
          BY <3>1, <4>1, Zenon
        <4> QED
          BY <4>2, Fun_InjectionProperties
      <3>3. \A r, i : i \in B(r) => i \in 1..n /\ vs[i] = r
        BY DEF Places
      <3>4. \A p \in P : p[1] \in Strings /\ p[2] \in A(p[1]) /\ p = <<p[1], p[2]>>
        <4> HIDE DEF P, A
        <4> QED
          BY <1>4
      <3> HIDE DEF F, A, B, P, vs, n
      <3>5. f \in [P -> 1..n]
        BY <3>2, <3>3, <3>4
      <3>6. ASSUME NEW p \in P, NEW p1 \in P, f[p] = f[p1] PROVE p = p1
        <4>1. F[p[1]][p[2]] = F[p1[1]][p1[2]]
          BY <3>6
        <4>2. F[p[1]][p[2]] \in B(p[1]) /\ F[p1[1]][p1[2]] \in B(p1[1])
          BY <3>2, <3>4
        <4>3. p[1] = p1[1]
          BY <3>3, <4>1, <4>2
        <4>4. p[2] = p1[2]
          BY <3>2, <3>4, <4>1, <4>3
        <4> QED
          BY <3>4, <4>3, <4>4
      <3> QED
        BY <3>5, <3>6, Fun_IsInj
    <2> QED
      BY <2>1, <2>2
  <1> HIDE DEF P, n, vs
  <1>7. IsFiniteSet(P) /\ Cardinality(P) <= Cardinality(1..n)
    BY <1>2, <1>6, FS_Injection
  <1>8. Cardinality(P) <= n
    BY <1>2, <1>7
  <1> QED
    BY <1>5, <1>7, <1>8 DEF P, n, vs

\* By the beginning of a value, if it has one that begins so, once for each.
LEMMA FoundByLeading ==
    ASSUME NEW Trees, Index(Trees, Strings, Entry), NEW tree \in Trees, NEW tag \in TagIndexes,
           NEW es \in Seq(Entry), TagIndexKeeps(tree, tag, es), NEW q \in Strings
    PROVE  /\ find_leading_and_call(tree, q) \in Seq(Entry)
           /\ ToSet(find_leading_and_call(tree, q)) =
                 {e \in ToSet(es) : \E v \in ToSet(IndexedValues[e][tag]) : IsPrefix(q, v)}
           /\ \A e \in Entry : Cardinality(At(find_leading_and_call(tree, q), e)) <= Len(IndexedValues[e][tag])
  <1> DEFINE found == find_leading_and_call(tree, q)
  <1>1. KeepsRecords(tree, Strings, Entry)
    BY DEF Index
  <1>2. found \in Seq(Entry) /\ \A e \in Entry : Cardinality(At(found, e)) = Cardinality(Beginning(tree, q, e))
    BY <1>1 DEF KeepsRecords, Beginning
  <1>3. \A e \in Entry : Cardinality(At(found, e)) <= Len(IndexedValues[e][tag])
    BY <1>2, BeginningIsCounted
  <1>4. ASSUME NEW e \in Entry
        PROVE  e \in ToSet(found) <=> e \in ToSet(es) /\ \E v \in ToSet(IndexedValues[e][tag]) : IsPrefix(q, v)
    <2> HIDE DEF found
    <2>1. e \in ToSet(found) <=> Cardinality(At(found, e)) # 0
      BY <1>2, AtIsCounted
    <2>2. Cardinality(Beginning(tree, q, e)) # 0 <=> Beginning(tree, q, e) # {}
      BY BeginningIsCounted, FS_EmptySet
    <2> QED
      BY <1>2, <2>1, <2>2, BeginningIsCounted
  <1>5. ToSet(found) \subseteq Entry /\ ToSet(es) \subseteq Entry
    BY <1>2, LenProperties DEF ToSet
  <1> QED
    BY <1>2, <1>3, <1>4, <1>5

-----------------------------------------------------------------------------
(* The text of a predicate.                                                *)

\* What SelectInSeq finds of a wildcard.
LEMMA FirstWildcard ==
    ASSUME NEW rhs \in Seq(Unit)
    PROVE  LET wild == SelectInSeq(rhs, LAMBDA u : u = Wildcard)
           IN  /\ wild = 0 <=> Wildcard \notin ToSet(rhs)
               /\ wild \in 0..Len(rhs)
  <1>1. Len(rhs) \in Nat /\ DOMAIN rhs = 1..Len(rhs)
    BY LenProperties
  <1> DEFINE I == {i \in 1..Len(rhs) : rhs[i] = Wildcard}
             at == IF I # {} THEN Min(I) ELSE 0
  <1>2. SelectInSeq(rhs, LAMBDA u : u = Wildcard) = at
    BY DEF SelectInSeq
  <1>3. (at = 0 <=> I = {}) /\ (at # 0 => at \in I)
    <2>1. I \in SUBSET (1..Len(rhs))
      OBVIOUS
    <2> HIDE DEF I
    <2> QED
      BY <2>1, FirstPosition
  <1>4. I = {} <=> Wildcard \notin ToSet(rhs)
    BY <1>1 DEF ToSet
  <1>5. at \in 0..Len(rhs)
    <2> HIDE DEF at
    <2> QED
      BY <1>1, <1>3
  <1> HIDE DEF at
  <1> QED
    BY <1>2, <1>3, <1>4, <1>5

\* The text before the wildcard, and the whole of it without one.
LEMMA TextBeforeProperties ==
    ASSUME NEW rhs \in Seq(Unit)
    PROVE  /\ TextBefore(rhs) \in Seq(Unit)
           /\ Wildcard \notin ToSet(rhs) => TextBefore(rhs) = rhs
  <1> DEFINE wild == SelectInSeq(rhs, LAMBDA u : u = Wildcard)
  <1>1. (wild = 0 <=> Wildcard \notin ToSet(rhs)) /\ wild \in 0..Len(rhs)
    BY FirstWildcard
  <1>2. TextBefore(rhs) = IF wild = 0 THEN rhs ELSE SubSeq(rhs, 1, wild - 1)
    BY DEF TextBefore
  <1> HIDE DEF wild
  <1>3. Len(rhs) \in Nat /\ \A i \in 1..Len(rhs) : rhs[i] \in Unit
    BY LenProperties
  <1>4. wild # 0 => SubSeq(rhs, 1, wild - 1) \in Seq(Unit)
    BY <1>1, <1>3, SubSeqProperties
  <1> QED
    BY <1>1, <1>2, <1>4

\* Escapes that are well formed stand for characters.
LEMMA TextIsString ==
    ASSUME NEW text \in Seq(Unit), WellEscaped(text)
    PROVE  UnescapeInto(text) \in Strings
  <1>1. Len(text) \in Nat /\ DOMAIN text = 1..Len(text) /\ \A i \in 1..Len(text) : text[i] \in Unit
    BY LenProperties
  <1>2. ASSUME NEW i \in 1..Len(text) PROVE Unescape(text[i]) \in Nat
    <2> DEFINE u == text[i]
    <2>1. u \in Seq(Nat) /\ Len(u) \in {1, 2}
      BY <1>1 DEF Unit
    <2>2. CASE Len(u) = 1
      <3>1. u[1] \in Nat
        BY <2>1, <2>2, ElementOfSeq
      <3> QED
        BY <2>2, <3>1 DEF Unescape
    <2>3. CASE Len(u) = 2
      <3>1. IsHex(u[1]) /\ IsHex(u[2])
        BY <1>1, <2>3 DEF WellEscaped
      <3>2. ASSUME NEW c \in Nat, IsHex(c) PROVE HexValue(c) \in Nat
        <4>1. CASE c \in 48..57
          BY <4>1 DEF HexValue
        <4>2. CASE c \in 65..70
          BY <4>2 DEF HexValue
        <4>3. CASE c \in 97..102
          BY <4>3 DEF HexValue
        <4> QED
          BY <3>2, <4>1, <4>2, <4>3 DEF IsHex, IsDigit
      <3>3. u[1] \in Nat /\ u[2] \in Nat
        BY <2>1, <2>3, ElementOfSeq
      <3> QED
        BY <2>3, <3>1, <3>2, <3>3 DEF Unescape
    <2> QED
      BY <2>1, <2>2, <2>3
  <1> QED
    BY <1>1, <1>2 DEF UnescapeInto, Strings

\* A comparison that succeeds has compared every character, all of the string if strict.
LEMMA ComparedEqual ==
    ASSUME NEW text \in Seq(Unit), NEW s \in Strings, NEW strict \in BOOLEAN,
           UnescapeCmp(text, s, strict) = "FR_EVAL_TRUE"
    PROVE  /\ \A i \in 1..Len(text) : i <= Len(s) /\ Lower(UnescapeCheck(text[i])) = Lower(s[i])
           /\ strict => Len(s) = Len(text)
  <1> DEFINE ill(i) == i <= Len(s) /\ ~WellEscaped(<<text[i]>>)
             differs(i) == i > Len(s) \/ Lower(UnescapeCheck(text[i])) # Lower(s[i])
             places == [i \in DOMAIN text |-> i]
             I == {i \in 1..Len(places) : ill(places[i]) \/ differs(places[i])}
             at == IF I # {} THEN Min(I) ELSE 0
  <1>1. Len(text) \in Nat /\ DOMAIN text = 1..Len(text)
    BY LenProperties
  <1>2. places \in Seq(Nat) /\ Len(places) = Len(text) /\ \A i \in 1..Len(text) : places[i] = i
    BY <1>1
  <1>3. UnescapeCmp(text, s, strict) =
          IF at # 0 THEN IF ill(at) THEN "FR_PARSE_ERROR" ELSE "FR_EVAL_FALSE"
          ELSE IF strict /\ Len(s) # Len(text) THEN "FR_EVAL_FALSE" ELSE "FR_EVAL_TRUE"
    BY DEF UnescapeCmp, SelectInSeq
  <1>4. at = 0 <=> I = {}
    <2>1. I \in SUBSET (1..Len(places))
      OBVIOUS
    <2> HIDE DEF I
    <2> QED
      BY <2>1, FirstPosition
  <1>5. at = 0 /\ (strict => Len(s) = Len(text))
    <2> HIDE DEF at, ill
    <2> QED
      BY <1>3
  <1>6. \A i \in 1..Len(text) : ~differs(i)
    BY <1>2, <1>4, <1>5
  <1>7. Len(s) \in Nat
    BY LenProperties DEF Strings
  <1> QED
    BY <1>1, <1>5, <1>6, <1>7

\* A text in lower case that compares equal to a string in lower case is its beginning.
LEMMA PlainTextIsPrefix ==
    ASSUME NEW text \in Seq(Unit), WellEscaped(text), PlainlyWritten(text),
           NEW v \in Strings, InLowerCase(v),
           NEW strict \in BOOLEAN, UnescapeCmp(text, v, strict) = "FR_EVAL_TRUE"
    PROVE  /\ IsPrefix(UnescapeInto(text), v)
           /\ strict => UnescapeInto(text) = v
  <1> DEFINE s == UnescapeInto(text)
  <1>1. Len(text) \in Nat /\ DOMAIN text = 1..Len(text)
    BY LenProperties
  <1>2. v \in Seq(Nat) /\ Len(v) \in Nat /\ DOMAIN v = 1..Len(v)
    BY LenProperties DEF Strings
  <1>3. s \in Seq(Nat) /\ DOMAIN s = 1..Len(text) /\ \A i \in 1..Len(text) : s[i] = Unescape(text[i])
    BY <1>1, TextIsString DEF Strings, UnescapeInto
  <1>4. Len(s) = Len(text)
    BY <1>1, <1>3, LenProperties
  <1>5. /\ \A i \in 1..Len(text) : i <= Len(v) /\ Lower(UnescapeCheck(text[i])) = Lower(v[i])
        /\ strict => Len(v) = Len(text)
    BY ComparedEqual
  <1>6. ASSUME NEW i \in 1..Len(text) PROVE i \in 1..Len(v) /\ s[i] = v[i]
    <2>0. i \in Nat /\ 1 <= i /\ i <= Len(v)
      BY <1>1, <1>5
    <2>1. i \in 1..Len(v) /\ v[i] \notin 65..90
      BY <1>2, <2>0 DEF InLowerCase
    <2>2. s[i] = UnescapeCheck(text[i]) /\ s[i] \notin 65..90
      BY <1>1, <1>3 DEF PlainlyWritten, InLowerCase
    <2> QED
      BY <1>5, <2>1, <2>2 DEF Lower
  <1> HIDE DEF s
  <1>7. Len(s) <= Len(v)
    <2>1. CASE Len(text) = 0
      BY <1>2, <1>4, <2>1
    <2>2. CASE Len(text) # 0
      BY <1>1, <1>2, <1>4, <1>6, <2>2
    <2> QED
      BY <2>1, <2>2
  <1>8. SubSeq(s, 1, Len(s)) = SubSeq(v, 1, Len(s))
    <2>1. \A i \in 1..Len(s) : s[i] \in Nat /\ v[i] \in Nat
      BY <1>2, <1>3, <1>4, <1>6, ElementOfSeq
    <2>2. /\ SubSeq(s, 1, Len(s)) \in Seq(Nat) /\ SubSeq(v, 1, Len(s)) \in Seq(Nat)
          /\ Len(SubSeq(s, 1, Len(s))) = Len(s) /\ Len(SubSeq(v, 1, Len(s))) = Len(s)
          /\ \A i \in 1..Len(s) : SubSeq(s, 1, Len(s))[i] = s[i] /\ SubSeq(v, 1, Len(s))[i] = v[i]
      BY <1>1, <1>2, <1>3, <1>4, <1>7, <2>1, SubSeqProperties
    <2> QED
      BY <1>4, <1>6, <2>2, SeqEqual
  <1>9. strict => s = v
    BY <1>2, <1>3, <1>4, <1>5, <1>6, SeqEqual
  <1> QED
    BY <1>7, <1>8, <1>9 DEF s, IsPrefix

\* So much is known of a value that a pattern matches.
LEMMA MatchedText ==
    ASSUME NEW rhs \in Seq(Unit), WellEscaped(TextBefore(rhs)), PlainlyWritten(TextBefore(rhs)),
           NEW v \in Strings, InLowerCase(v), WildcardMatch(rhs, v) = "FR_EVAL_TRUE"
    PROVE  IF Wildcard \in ToSet(rhs) THEN IsPrefix(UnescapeInto(TextBefore(rhs)), v)
                                      ELSE UnescapeInto(TextBefore(rhs)) = v
  <1> DEFINE wild == SelectInSeq(rhs, LAMBDA u : u = Wildcard)
             text == TextBefore(rhs)
  <1>1. (wild = 0 <=> Wildcard \notin ToSet(rhs)) /\ text \in Seq(Unit)
    BY FirstWildcard, TextBeforeProperties
  <1>2. text = IF wild = 0 THEN rhs ELSE SubSeq(rhs, 1, wild - 1)
    BY DEF TextBefore
  <1>3. WildcardMatch(rhs, v) =
          IF wild = 0 THEN UnescapeCmp(rhs, v, TRUE)
          ELSE IF UnescapeCmp(SubSeq(rhs, 1, wild - 1), v, FALSE) # "FR_EVAL_TRUE"
               THEN UnescapeCmp(SubSeq(rhs, 1, wild - 1), v, FALSE)
               ELSE WildcardWcStr(SubSeq(rhs, wild, Len(rhs)), SubSeq(v, wild, Len(v)))
    BY DEF WildcardMatch
  <1> HIDE DEF wild, text
  <1>4. CASE Wildcard \in ToSet(rhs)
    <2>1. UnescapeCmp(text, v, FALSE) = "FR_EVAL_TRUE"
      BY <1>1, <1>2, <1>3, <1>4
    <2>2. IsPrefix(UnescapeInto(text), v)
      BY <1>1, <2>1, PlainTextIsPrefix DEF text
    <2> QED
      BY <1>4, <2>2 DEF text
  <1>5. CASE Wildcard \notin ToSet(rhs)
    <2>1. UnescapeCmp(text, v, TRUE) = "FR_EVAL_TRUE"
      BY <1>1, <1>2, <1>3, <1>5
    <2>2. UnescapeInto(text) = v
      BY <1>1, <2>1, PlainTextIsPrefix DEF text
    <2> QED
      BY <1>5, <2>2 DEF text
  <1> QED
    BY <1>4, <1>5

-----------------------------------------------------------------------------
(* Service requests.                                                       *)

\* The indexes hold what the database does.
Indexes(Trees) ==
    /\ typeIndex \in Trees
    /\ srvtypeIsIndexed => TypeIndexKeeps(typeIndex, entries)
    /\ tagIndex \in [TagIndexes -> Trees]
    /\ \A tag \in TagIndexes : TagIndexKeeps(tagIndex[tag], tag, entries)

\* The registrations, each once, and the room for results.
Kinds ==
    /\ entries \in Seq(Entry) /\ IsInjective(entries)
    /\ urlcount \in Nat

\* The members of a list at some positions.
Members(list, I) == [n \in DOMAIN InOrder(I) |-> list[InOrder(I)[n]]]

\* They are there, in order, each position once.
LEMMA MembersProperties ==
    ASSUME NEW S, NEW list \in Seq(S), NEW I \in SUBSET DOMAIN list
    PROVE  /\ Members(list, I) \in Seq(S)
           /\ ToSet(Members(list, I)) = {list[i] : i \in I}
           /\ IsInjective(list) => IsInjective(Members(list, I))
  <1> DEFINE J == InOrder(I)
             kept == [n \in DOMAIN J |-> list[J[n]]]
  <1>1. /\ kept \in Seq(S) /\ ToSet(kept) = {list[i] : i \in I}
        /\ \A k \in DOMAIN kept : J[k] \in I /\ kept[k] = list[J[k]]
        /\ \A k, l \in DOMAIN kept : J[k] = J[l] => k = l
    BY KeptProperties
  <1>2. Members(list, I) = kept
    BY DEF Members
  <1> HIDE DEF kept, J
  <1>3. ASSUME IsInjective(list) PROVE IsInjective(kept)
    BY <1>1, <1>3 DEF IsInjective
  <1> QED
    BY <1>1, <1>2, <1>3

\* A result that is no error has what is found and passes the test.
LEMMA CallbackProperties ==
    ASSUME urlcount \in Nat, NEW rq, NEW found \in Seq(Entry), ~StartIndexCallback(rq, found).err
    PROVE  /\ StartIndexCallback(rq, found).urls \in Seq(Entry)
           /\ ToSet(StartIndexCallback(rq, found).urls) = {e \in ToSet(found) : SrvRqstTestEntry(rq, e)}
  <1> DEFINE I == {i \in DOMAIN found : ~~SrvRqstTestEntry(rq, found[i])}
             kept == Members(found, I)
  <1>1. Dropping(found, LAMBDA e : ~SrvRqstTestEntry(rq, e)) = kept
    BY DEF Dropping, Members
  <1>2. kept \in Seq(Entry) /\ ToSet(kept) = {found[i] : i \in I}
    BY MembersProperties
  <1>3. ToSet(kept) = {e \in ToSet(found) : SrvRqstTestEntry(rq, e)}
    BY <1>2 DEF ToSet
  <1> HIDE DEF kept
  <1>4. StartIndexCallback(rq, found) = Result(kept)
    BY <1>1 DEF StartIndexCallback
  <1>5. Len(kept) \in Nat /\ \A i \in 1..Len(kept) : kept[i] \in Entry
    BY <1>2, LenProperties
  <1>6. Len(kept) <= urlcount
    <2>1. Result(kept).err <=> Len(kept) > urlcount
      BY DEF Result
    <2>2. ~(Len(kept) > urlcount)
      BY <1>4, <2>1, Zenon
    <2> QED
      BY <1>5, <2>2
  <1>7. Result(kept).urls = SubSeq(kept, 1, Len(kept))
    BY <1>5, <1>6 DEF Result
  <1>8. SubSeq(kept, 1, Len(kept)) = kept
    BY <1>2, <1>5, SubSeqProperties, SeqEqual
  <1> QED
    BY <1>2, <1>3, <1>4, <1>7, <1>8

\* The node an index is used for is a comparison with a tag that has one.
LEMMA UsableNode ==
    ASSUME NEW rq \in SrvRqst, TagNode(ParseOf[rq].kids) # <<>>
    PROVE  /\ FindTagIndex(TagNode(ParseOf[rq].kids)[1].tag) \in TagIndexes
           /\ TagNode(ParseOf[rq].kids)[1].rhs \in Seq(Unit)
  <1> DEFINE trees == ParseOf[rq].kids
             usable(n) == n.type = "EQUAL" /\ FindTagIndex(n.tag) \in TagIndexes
                          /\ (n.rhs # <<>> => n.rhs[1] # Wildcard)
             kids == trees[1].kids
             I == {i \in 1..Len(kids) : usable(kids[i])}
             at == IF I # {} THEN Min(I) ELSE 0
  <1>1. TagNode(trees) =
          IF trees = <<>> THEN <<>>
          ELSE IF trees[1].type = "NODE_AND" THEN IF at = 0 THEN <<>> ELSE <<kids[at]>>
          ELSE IF usable(trees[1]) THEN trees ELSE <<>>
    BY DEF TagNode, SelectInSeq
  <1>2. at # 0 => usable(kids[at])
    <2>1. at # 0 => at \in I
      <3>1. I \in SUBSET (1..Len(kids))
        OBVIOUS
      <3> HIDE DEF I
      <3> QED
        BY <3>1, FirstPosition
    <2> HIDE DEF at, usable
    <2> QED
      BY <2>1
  <1>3. TagNode(trees)[1].rhs \in Seq(Unit)
    BY SrvRqstAssumption DEF SrvRqstAssumption
  <1>4. FindTagIndex(TagNode(trees)[1].tag) \in TagIndexes
    <2> HIDE DEF at, kids, trees
    <2> QED
      BY <1>1, <1>2 DEF trees
  <1> QED
    BY <1>3, <1>4

\* What is found is registered, with every match that the index can serve among it.
Covers(rq, found) ==
    /\ found \in Seq(Entry) /\ ToSet(found) \subseteq ToSet(entries)
    /\ \A e \in Matching(rq) : Servable(rq, e) => e \in ToSet(found)

\* Only what matches is sent, and every match that the index can serve.
RightFor(rq, urls) ==
    /\ ToSet(urls) \subseteq Matching(rq)
    /\ \A e \in Matching(rq) : Servable(rq, e) => Contains(urls, e)

\* The test of each entry makes the one of the other.
LEMMA RightResult ==
    ASSUME urlcount \in Nat, NEW rq, ParseOf[rq].err = "PREDICATE_PARSE_OK",
           NEW found, Covers(rq, found), ~StartIndexCallback(rq, found).err
    PROVE  RightFor(rq, StartIndexCallback(rq, found).urls)
  <1> DEFINE urls == StartIndexCallback(rq, found).urls
  <1>0. found \in Seq(Entry)
    BY DEF Covers
  <1>1. urls \in Seq(Entry) /\ ToSet(urls) = {e \in ToSet(found) : SrvRqstTestEntry(rq, e)}
    BY <1>0, CallbackProperties
  <1>2. Matching(rq) = {e \in ToSet(entries) : SrvRqstTestEntry(rq, e)}
    BY DEF Matching
  <1>3. \A e : e \in ToSet(urls) => Contains(urls, e)
    BY <1>1, LenProperties DEF ToSet, Contains
  <1> HIDE DEF urls
  <1> QED
    BY <1>1, <1>2, <1>3 DEF Covers, RightFor, urls

\* A search finds only what matches, and all of it that the index used can serve.
LEMMA SearchIsRight ==
    ASSUME NEW Trees, Index(Trees, Strings, Entry), Indexes(Trees), Kinds,
           NEW rq \in SrvRqst, ~SrvRqstSearch(rq).err
    PROVE  RightFor(rq, SrvRqstSearch(rq).urls)
  <1> DEFINE r == SrvRqstSearch(rq)
             nodes == TagNode(ParseOf[rq].kids)
             byType == srvtypeIsIndexed /\ Contains(Name(rq.type), Colon)
  <1>1. /\ entries \in Seq(Entry) /\ urlcount \in Nat
        /\ \A e \in ToSet(entries) : e \in Entry
    BY LenProperties DEF Kinds, ToSet
  <1>2. CASE ParseOf[rq].err # "PREDICATE_PARSE_OK"
    <2>1. r.urls = <<>> /\ Matching(rq) = {}
      BY <1>2 DEF SrvRqstSearch, Matching
    <2> QED
      BY <2>1 DEF ToSet, RightFor
  <1>4. CASE ParseOf[rq].err = "PREDICATE_PARSE_OK" /\ byType
    <2> DEFINE q == Name(rq.type)
               found == find_and_call(typeIndex, q)
    <2>1. r = StartIndexCallback(rq, found)
      BY <1>4 DEF SrvRqstSearch, SrvRqstStartIndexType
    <2>2. q \in Strings
      BY NamesAreStrings, SrvRqstAssumption DEF SrvRqstAssumption
    <2>3. typeIndex \in Trees /\ TypeIndexKeeps(typeIndex, entries)
      BY <1>4 DEF Indexes
    <2>4. found \in Seq(Entry) /\ ToSet(found) = {e \in ToSet(entries) : q = NormalisedSrvtype(e.type)}
      BY <1>1, <2>2, <2>3, FoundByType
    <2>5. ASSUME NEW e \in Matching(rq), Servable(rq, e) PROVE e \in ToSet(found)
      <3>1. e \in ToSet(entries) /\ CompareSrvType(rq.type, e.type) /\ e.type.svc # "SERVICE:"
        BY <2>5 DEF Matching, SrvRqstTestEntry, Servable
      <3>2. q = Name(e.type)
        BY <1>4, <3>1 DEF CompareSrvType
      <3>3. Name(e.type) = NormalisedSrvtype(e.type)
        BY <3>1 DEF NormalisedSrvtype
      <3> QED
        BY <2>4, <3>1, <3>2, <3>3
    <2> HIDE DEF found
    <2>6. Covers(rq, found)
      BY <2>4, <2>5 DEF Covers
    <2> HIDE DEF r
    <2>7. ~StartIndexCallback(rq, found).err
      BY <2>1 DEF r
    <2> QED
      BY <1>1, <1>4, <2>1, <2>6, <2>7, RightResult DEF r
  <1>5. CASE ParseOf[rq].err = "PREDICATE_PARSE_OK" /\ ~byType /\ nodes # <<>>
    <2> DEFINE node == nodes[1]
               tag == FindTagIndex(node.tag)
               tree == tagIndex[tag]
               text == TextBefore(node.rhs)
               q == UnescapeInto(text)
               found == IF Wildcard \in ToSet(node.rhs) THEN find_leading_and_call(tree, q) ELSE find_and_call(tree, q)
    <2>1. tag \in TagIndexes /\ node.rhs \in Seq(Unit)
      BY <1>5, UsableNode
    <2>2. r = SrvRqstStartIndexAttribute(rq, node)
      BY <1>5 DEF SrvRqstSearch
    <2>3. WellEscaped(text)
      BY <2>2 DEF SrvRqstStartIndexAttribute
    <2>4. r = StartIndexCallback(rq, found)
      BY <2>2, <2>3 DEF SrvRqstStartIndexAttribute
    <2>5. q \in Strings
      BY <2>1, <2>3, TextBeforeProperties, TextIsString
    <2>6. tree \in Trees /\ TagIndexKeeps(tree, tag, entries)
      BY <2>1 DEF Indexes
    <2>7. \A e : Servable(rq, e) =>
            /\ PlainlyWritten(text)
            /\ \E v \in ToSet(IndexedValues[e][tag]) : InLowerCase(v) /\ WildcardMatch(node.rhs, v) = "FR_EVAL_TRUE"
      BY <1>5 DEF Servable
    <2>8. \A e \in ToSet(entries) : ToSet(IndexedValues[e][tag]) \subseteq Strings
      <3> SUFFICES ASSUME NEW e \in ToSet(entries) PROVE ToSet(IndexedValues[e][tag]) \subseteq Strings
        OBVIOUS
      <3>1. IndexedValues[e][tag] \in Seq(Strings)
        BY <1>1, <2>1, EntryAssumption DEF EntryAssumption, Strings
      <3> QED
        BY <3>1, LenProperties DEF ToSet
    <2>9. \A e \in Matching(rq) : e \in ToSet(entries)
      BY DEF Matching
    <2> HIDE DEF nodes, tag, tree, text, q
    <2>10. ASSUME Wildcard \in ToSet(node.rhs) PROVE Covers(rq, found)
      <3>1. /\ found \in Seq(Entry)
            /\ ToSet(found) = {e \in ToSet(entries) : \E v \in ToSet(IndexedValues[e][tag]) : IsPrefix(q, v)}
        BY <1>1, <2>1, <2>5, <2>6, <2>10, FoundByLeading
      <3>2. ASSUME NEW e \in Matching(rq), Servable(rq, e) PROVE e \in ToSet(found)
        <4>1. PICK v \in ToSet(IndexedValues[e][tag]) : InLowerCase(v) /\ WildcardMatch(node.rhs, v) = "FR_EVAL_TRUE"
          BY <2>7, <3>2
        <4>2. v \in Strings /\ PlainlyWritten(text)
          BY <2>7, <2>8, <2>9, <3>2
        <4>3. IsPrefix(q, v)
          BY <2>1, <2>3, <2>10, <4>1, <4>2, MatchedText DEF q, text
        <4> HIDE DEF found
        <4> QED
          BY <2>9, <3>1, <4>1, <4>3
      <3> HIDE DEF found
      <3> QED
        BY <3>1, <3>2 DEF Covers
    <2>11. ASSUME Wildcard \notin ToSet(node.rhs) PROVE Covers(rq, found)
      <3>1. /\ found \in Seq(Entry)
            /\ ToSet(found) = {e \in ToSet(entries) : q \in ToSet(IndexedValues[e][tag])}
        BY <1>1, <2>1, <2>5, <2>6, <2>11, FoundByTag
      <3>2. ASSUME NEW e \in Matching(rq), Servable(rq, e) PROVE e \in ToSet(found)
        <4>1. PICK v \in ToSet(IndexedValues[e][tag]) : InLowerCase(v) /\ WildcardMatch(node.rhs, v) = "FR_EVAL_TRUE"
          BY <2>7, <3>2
        <4>2. v \in Strings /\ PlainlyWritten(text)
          BY <2>7, <2>8, <2>9, <3>2
        <4>3. q = v
          BY <2>1, <2>3, <2>11, <4>1, <4>2, MatchedText DEF q, text
        <4> HIDE DEF found
        <4> QED
          BY <2>9, <3>1, <4>1, <4>3
      <3> HIDE DEF found
      <3> QED
        BY <3>1, <3>2 DEF Covers
    <2>12. Covers(rq, found)
      BY <2>10, <2>11
    <2> HIDE DEF found, r
    <2>13. ~StartIndexCallback(rq, found).err
      BY <2>4 DEF r
    <2> QED
      BY <1>1, <1>5, <2>4, <2>12, <2>13, RightResult DEF r
  <1>6. CASE ParseOf[rq].err = "PREDICATE_PARSE_OK" /\ ~byType /\ nodes = <<>>
    <2>1. r = StartIndexCallback(rq, entries)
      BY <1>6 DEF SrvRqstSearch, SrvRqstStartScan
    <2>2. \A e \in Matching(rq) : e \in ToSet(entries)
      BY DEF Matching
    <2>3. Covers(rq, entries)
      BY <1>1, <2>2 DEF Covers
    <2> HIDE DEF r
    <2>4. ~StartIndexCallback(rq, entries).err
      BY <2>1 DEF r
    <2> QED
      BY <1>1, <1>6, <2>1, <2>3, <2>4, RightResult DEF r
  <1> QED
    BY <1>2, <1>4, <1>5, <1>6
-----------------------------------------------------------------------------
(* Service type requests.                                                  *)

\* Types that are all different.
AllDifferent(types) == \A i, j \in DOMAIN types : i # j => String(types[i]) # String(types[j])

\* A registration the request is about.
Wanted(rq, e) == CompareNamingAuth(e.type, rq.na) /\ e.scopes \cap rq.scopes # {}

\* What the scan has got.
Listed == [err : BOOLEAN, types : Seq(ServiceType), len : Nat]

\* A turn without an error keeps the types apart, loses none, has that of its entry
\* and makes the list longer by no more than that and a separator.
LEMMA ListTypeProperties ==
    ASSUME NEW rq, NEW r \in Listed, NEW e \in Entry
    PROVE  /\ ListType(rq, r, e) \in Listed /\ Len(String(e.type)) \in Nat
           /\ ~ListType(rq, r, e).err =>
                /\ ~r.err
                /\ AllDifferent(r.types) => AllDifferent(ListType(rq, r, e).types)
                /\ \A t : InTypeList(r.types, t) => InTypeList(ListType(rq, r, e).types, t)
                /\ Wanted(rq, e) => InTypeList(ListType(rq, r, e).types, e.type)
                /\ ListType(rq, r, e).len <= r.len + Len(String(e.type)) + 1
           /\ ListType(rq, r, e).err /\ ~r.err => r.len + Len(String(e.type)) + 1 > typelistlen
  <1> DEFINE done == ListType(rq, r, e)
             len == Len(String(e.type))
             skip == r.err \/ ~CompareNamingAuth(e.type, rq.na) \/ rq.scopes \cap e.scopes = {} \/ InTypeList(r.types, e.type)
             full == r.len + len + 1 > typelistlen
             more == IF r.len = 0 THEN len ELSE r.len + 1 + len
  <1>1. done = IF skip THEN r ELSE IF full THEN [r EXCEPT !.err = TRUE]
               ELSE [r EXCEPT !.types = Append(r.types, e.type), !.len = more]
    BY DEF ListType
  <1>2. r.err \in BOOLEAN /\ r.types \in Seq(ServiceType) /\ r.len \in Nat /\ e.type \in ServiceType
    BY EntryAssumption DEF Listed, EntryAssumption
  <1>6. len \in Nat
    BY <1>2, NamesAreStrings, LenProperties DEF Strings
  <1>3. CASE skip
    <2> HIDE DEF len
    <2>1. done = r
      BY <1>1, <1>3
    <2> HIDE DEF done, skip
    <2>2. Wanted(rq, e) /\ ~r.err => InTypeList(r.types, e.type)
      BY <1>3 DEF Wanted, skip
    <2> QED
      BY <1>2, <1>6, <2>1, <2>2 DEF done, len
  <1>4. CASE ~skip /\ full
    <2>1. done \in Listed /\ done.err = TRUE
      BY <1>1, <1>4 DEF Listed
    <2> HIDE DEF done
    <2> QED
      BY <1>4, <1>6, <2>1 DEF done
  <1>5. CASE ~skip /\ ~full
    <2> DEFINE types == Append(r.types, e.type)
    <2>1. done = [r EXCEPT !.types = types, !.len = more]
      BY <1>1, <1>5
    <2>2. /\ types \in Seq(ServiceType) /\ Len(types) = Len(r.types) + 1 /\ Len(r.types) \in Nat
          /\ DOMAIN types = 1..Len(types) /\ DOMAIN r.types = 1..Len(r.types)
          /\ types[Len(types)] = e.type /\ \A i \in 1..Len(r.types) : types[i] = r.types[i]
      BY <1>2, AppendProperties, LenProperties
    <2> HIDE DEF types, len
    <2>3. more \in Nat /\ more <= r.len + len + 1
      BY <1>2, <1>6
    <2> HIDE DEF more
    <2>4. done \in Listed /\ done.err = r.err /\ done.types = types /\ done.len = more
      BY <2>1, <2>2, <2>3 DEF Listed
    <2>5. ~r.err /\ ~InTypeList(r.types, e.type)
      BY <1>5
    <2>6. AllDifferent(r.types) => AllDifferent(types)
      BY <2>2, <2>5 DEF AllDifferent, InTypeList
    <2>7. /\ \A t : InTypeList(r.types, t) => InTypeList(types, t)
          /\ InTypeList(types, e.type)
      BY <2>2 DEF InTypeList
    <2> HIDE DEF done
    <2> QED
      BY <1>6, <2>3, <2>4, <2>5, <2>6, <2>7 DEF done, len
  <1> QED
    BY <1>3, <1>4, <1>5

\* The scan is a fold over the positions of the registrations.
TypeFold(rq, it) ==
    \A s \in SUBSET (1..Len(entries)) :
        it[s] = IF s = {} THEN NoTypes ELSE ListType(rq, it[s \ {Max(s)}], entries[Max(s)])

\* It has such a fold.
LEMMA TypeSearchFolds ==
    ASSUME Kinds, NEW rq
    PROVE  \E it : TypeFold(rq, it) /\ SrvTypeRqstSearch(rq) = it[1..Len(entries)]
  <1> DEFINE n == Len(entries)
             none == NoTypes
             step == [y \in Listed \X (1..n) |-> ListType(rq, y[1], entries[y[2]])]
  <1>1. n \in Nat /\ DOMAIN entries = 1..n /\ \A i \in 1..n : entries[i] \in Entry
    BY LenProperties DEF Kinds
  <1>2. \A r \in Listed, i \in 1..n : ListType(rq, r, entries[i]) \in Listed
    BY <1>1, ListTypeProperties
  <1>3. step \in [Listed \X (1..n) -> Listed] /\ none \in Listed
    BY <1>2 DEF Listed, NoTypes
  <1> DEFINE Eq(it) == it = [s \in SUBSET (1..n) |->
                   IF s = {} THEN none ELSE ListType(rq, it[s \ {Max(s)}], entries[Max(s)])]
  <1>4. \E it : Eq(it)
    <2>1. PICK it \in [SUBSET (1..n) -> Listed] : FoldsWith(it, n, none, step)
      <3> HIDE DEF n, step, none
      <3> QED
        BY <1>1, <1>3, FoldExists
    <2>2. \A s \in SUBSET (1..n) : s # {} => Max(s) \in 1..n /\ s \ {Max(s)} \in SUBSET (1..n)
      BY <1>1, LargestPosition
    <2>3. \A s \in SUBSET (1..n) :
                it[s] = IF s = {} THEN none ELSE ListType(rq, it[s \ {Max(s)}], entries[Max(s)])
      <3> HIDE DEF n, none
      <3> QED
        BY <2>1, <2>2 DEF FoldsWith
    <2> QED
      BY <2>1, <2>3
  <1>5. SrvTypeRqstSearch(rq) = (CHOOSE it : Eq(it))[1..n]
    BY <1>1 DEF SrvTypeRqstSearch, FoldLeft, MapThenFoldSet
  <1>6. Eq(CHOOSE it : Eq(it))
    <2> HIDE DEF Eq
    <2> QED
      BY <1>4, Zenon
  <1>7. PICK it : it = (CHOOSE f : Eq(f))
    OBVIOUS
  <1>8. \A s \in SUBSET (1..n) :
          it[s] = IF s = {} THEN none ELSE ListType(rq, it[s \ {Max(s)}], entries[Max(s)])
    BY <1>6, <1>7, Zenon
  <1>9. SrvTypeRqstSearch(rq) = it[1..n]
    BY <1>5, <1>7
  <1> QED
    BY <1>8, <1>9 DEF TypeFold

\* What a list of service types has to be.
TypesFor(rq, types) ==
    /\ AllDifferent(types)
    /\ \A e \in ToSet(entries) : Wanted(rq, e) => InTypeList(types, e.type)

\* A scan without an error lists every type once.
LEMMA TypeSearchIsRight ==
    ASSUME Kinds, NEW rq, ~SrvTypeRqstSearch(rq).err
    PROVE  TypesFor(rq, SrvTypeRqstSearch(rq).types)
  <1> DEFINE n == Len(entries)
  <1>1. n \in Nat /\ DOMAIN entries = 1..n /\ \A i \in 1..n : entries[i] \in Entry
    BY LenProperties DEF Kinds
  <1>2. NoTypes \in Listed /\ NoTypes.types = <<>>
    BY DEF Listed, NoTypes
  <1>3. PICK it : TypeFold(rq, it) /\ SrvTypeRqstSearch(rq) = it[1..n]
    BY TypeSearchFolds
  <1>8. \A s \in SUBSET (1..n) :
          it[s] = IF s = {} THEN NoTypes ELSE ListType(rq, it[s \ {Max(s)}], entries[Max(s)])
    BY <1>3 DEF TypeFold
  <1> DEFINE P == {s \in SUBSET (1..n) :
                     /\ it[s] \in Listed
                     /\ ~it[s].err =>
                          /\ AllDifferent(it[s].types)
                          /\ \A i \in s : Wanted(rq, entries[i]) => InTypeList(it[s].types, entries[i].type)}
  <1>9. {} \in P
    <2>1. it[{}] = NoTypes
      BY <1>8
    <2>2. AllDifferent(NoTypes.types)
      BY <1>2 DEF AllDifferent
    <2> QED
      BY <1>2, <2>1, <2>2
  <1>10. ASSUME NEW s \in SUBSET (1..n), s # {}, s \ {Max(s)} \in P PROVE s \in P
    <2>1. PICK m \in s : m = Max(s)
      BY <1>1, <1>10, LargestPosition
    <2>2. PICK r \in Listed : r = it[s \ {m}]
      BY <1>10, <2>1
    <2>3. ~r.err => /\ AllDifferent(r.types)
                    /\ \A i \in s \ {m} : Wanted(rq, entries[i]) => InTypeList(r.types, entries[i].type)
      BY <1>10, <2>1, <2>2
    <2>4. it[s] = ListType(rq, r, entries[m]) /\ entries[m] \in Entry
      BY <1>1, <1>8, <1>10, <2>1, <2>2
    <2>5. /\ it[s] \in Listed
          /\ ~it[s].err =>
                /\ ~r.err
                /\ AllDifferent(r.types) => AllDifferent(it[s].types)
                /\ \A t : InTypeList(r.types, t) => InTypeList(it[s].types, t)
                /\ Wanted(rq, entries[m]) => InTypeList(it[s].types, entries[m].type)
      BY <2>4, ListTypeProperties
    <2> QED
      BY <2>3, <2>5
  <1>11. 1..n \in P
    <2> HIDE DEF P, n
    <2> QED
      BY <1>1, <1>9, <1>10, PositionsInduction
  <1>12. \A e \in ToSet(entries) : \E i \in 1..n : e = entries[i]
    BY <1>1 DEF ToSet
  <1> HIDE DEF n
  <1> QED
    BY <1>3, <1>11, <1>12 DEF TypesFor

-----------------------------------------------------------------------------
(* Attribute requests.                                                     *)

\* What a result with attributes has to be.
AttributesFor(rq, result) ==
    /\ \A i \in DOMAIN result : result[i].of.scopes \cap rq.scopes # {}
    /\ (\E e \in ToSet(entries) : e.type = rq.url.type /\ Has(rq, e)) => result # <<>>

\* What an entry has to say is said in its scopes.
LEMMA EntryIsInScope ==
    ASSUME NEW rq, NEW e
    PROVE  \A i \in DOMAIN AttrRqstProcessEntry(rq, e) : AttrRqstProcessEntry(rq, e)[i].of.scopes \cap rq.scopes # {}
  <1> DEFINE result == AttrRqstProcessEntry(rq, e)
             about == /\ SameUrl(rq.url, e.url) \/ (rq.url.host = 0 /\ CompareSrvType(rq.url.type, e.type))
                      /\ rq.scopes \cap e.scopes # {}
  <1>1. result = IF about THEN IF rq.tags = <<>> THEN <<[of |-> e, part |-> FALSE]>>
                               ELSE IF Partial[e][rq.tags] = 0 THEN <<>> ELSE <<[of |-> e, part |-> TRUE]>>
                 ELSE <<>>
    BY DEF AttrRqstProcessEntry
  <1>2. about => e.scopes \cap rq.scopes # {}
    OBVIOUS
  <1>3. result = <<>> \/ result = <<[of |-> e, part |-> FALSE]>> \/ result = <<[of |-> e, part |-> TRUE]>>
    BY <1>1
  <1>4. result # <<>> => about
    BY <1>1
  <1> HIDE DEF result, about
  <1> QED
    BY <1>2, <1>3, <1>4 DEF result

\* A scan and a search by the index send attributes of a service in scope.
LEMMA AttributeSearchIsRight ==
    ASSUME NEW Trees, Index(Trees, Strings, Entry), Indexes(Trees), Kinds, NEW rq \in AttrRqst
    PROVE  /\ AttributesFor(rq, AttrRqstStartScan(rq))
           /\ srvtypeIsIndexed => AttributesFor(rq, AttrRqstStartIndexType(rq))
  <1>0. entries \in Seq(Entry) /\ Len(entries) \in Nat /\ DOMAIN entries = 1..Len(entries)
    BY LenProperties DEF Kinds
  <1>1. AttributesFor(rq, AttrRqstStartScan(rq))
    <2> DEFINE I == {i \in 1..Len(entries) : Has(rq, entries[i])}
               at == IF I # {} THEN Min(I) ELSE 0
    <2>1. AttrRqstStartScan(rq) = IF at = 0 THEN <<>> ELSE AttrRqstProcessEntry(rq, entries[at])
      BY DEF AttrRqstStartScan, SelectInSeq
    <2>2. (at = 0 <=> I = {}) /\ (at # 0 => at \in I)
      <3>1. I \in SUBSET (1..Len(entries))
        OBVIOUS
      <3> HIDE DEF I
      <3> QED
        BY <3>1, FirstPosition
    <2> HIDE DEF at
    <2>3. CASE at = 0
      <3>1. \A e \in ToSet(entries) : ~Has(rq, e)
        BY <1>0, <2>2, <2>3 DEF ToSet
      <3>2. AttrRqstStartScan(rq) = <<>>
        BY <2>1, <2>3
      <3> QED
        BY <3>1, <3>2 DEF AttributesFor
    <2>4. CASE at # 0
      <3>1. Has(rq, entries[at]) /\ AttrRqstStartScan(rq) = AttrRqstProcessEntry(rq, entries[at])
        BY <2>1, <2>2, <2>4
      <3> QED
        BY <3>1, EntryIsInScope DEF AttributesFor, Has
    <2> QED
      BY <2>3, <2>4
  <1>2. ASSUME srvtypeIsIndexed PROVE AttributesFor(rq, AttrRqstStartIndexType(rq))
    <2> DEFINE q == NormalisedSrvtype(rq.url.type)
               found == find_and_call(typeIndex, q)
               I == {i \in 1..Len(found) : Has(rq, found[i])}
               at == IF I # {} THEN Max(I) ELSE 0
    <2>1. AttrRqstStartIndexType(rq) = IF at = 0 THEN <<>> ELSE AttrRqstProcessEntry(rq, found[at])
      BY DEF AttrRqstStartIndexType, SelectLastInSeq
    <2>2. q \in Strings
      BY NamesAreStrings, OtherRqstAssumption DEF OtherRqstAssumption
    <2>3. typeIndex \in Trees /\ TypeIndexKeeps(typeIndex, entries)
      BY <1>2 DEF Indexes
    <2>4. found \in Seq(Entry) /\ ToSet(found) = {e \in ToSet(entries) : q = NormalisedSrvtype(e.type)}
      BY <1>0, <2>2, <2>3, FoundByType
    <2>5. Len(found) \in Nat /\ DOMAIN found = 1..Len(found)
      BY <2>4, LenProperties
    <2>6. (at = 0 <=> I = {}) /\ (at # 0 => at \in I)
      <3>1. I \in SUBSET (1..Len(found))
        OBVIOUS
      <3> HIDE DEF I, found
      <3>2. I # {} => Max(I) \in I
        BY <2>5, <3>1, LargestPosition
      <3>3. 0 \notin I
        BY <2>5, <3>1
      <3> QED
        BY <3>2, <3>3
    <2> HIDE DEF at, found
    <2>7. CASE at = 0
      <3>1. \A e \in ToSet(found) : ~Has(rq, e)
        BY <2>5, <2>6, <2>7 DEF ToSet
      <3>2. AttrRqstStartIndexType(rq) = <<>>
        BY <2>1, <2>7
      <3>3. \A e \in ToSet(entries) : e.type = rq.url.type => e \in ToSet(found)
        BY <2>4
      <3> QED
        BY <3>1, <3>2, <3>3 DEF AttributesFor
    <2>8. CASE at # 0
      <3>1. Has(rq, found[at]) /\ AttrRqstStartIndexType(rq) = AttrRqstProcessEntry(rq, found[at])
        BY <2>1, <2>6, <2>8
      <3> QED
        BY <3>1, EntryIsInScope DEF AttributesFor, Has
    <2> QED
      BY <2>7, <2>8
  <1> QED
    BY <1>1, <1>2
-----------------------------------------------------------------------------
(* What a registration and a deregistration do to the indexes.             *)

\* The index of the types is kept up with a registration that joins or leaves.
LEMMA TypeIndexIsKept ==
    ASSUME NEW Trees, Index(Trees, Strings, Entry), NEW tree \in Trees, NEW es,
           TypeIndexKeeps(tree, es), NEW e \in Entry, NEW fs
    PROVE  /\ e \notin ToSet(es) /\ ToSet(fs) = ToSet(es) \cup {e} =>
                TypeIndexKeeps(add_to_index(tree, NormalisedSrvtype(e.type), e), fs)
           /\ ToSet(fs) = ToSet(es) \ {e} =>
                TypeIndexKeeps(index_tree_delete(tree, NormalisedSrvtype(e.type), e), fs)
  <1> DEFINE s == NormalisedSrvtype(e.type)
  <1>1. s \in Strings
    BY NamesAreStrings, EntryAssumption DEF EntryAssumption
  <1>2. \A q \in Strings, f \in Entry :
          /\ Times(add_to_index(tree, s, e), q, f) = Times(tree, q, f) + (IF q = s /\ f = e THEN 1 ELSE 0)
          /\ Times(index_tree_delete(tree, s, e), q, f) =
                IF Times(tree, q, f) = 0 THEN 0 ELSE Times(tree, q, f) - (IF q = s /\ f = e THEN 1 ELSE 0)
    BY <1>1, IndexSteps
  <1>3. \A q \in Strings, f \in Entry :
          Times(tree, q, f) = IF f \in ToSet(es) /\ q = NormalisedSrvtype(f.type) THEN 1 ELSE 0
    BY DEF TypeIndexKeeps
  <1>4. ASSUME e \notin ToSet(es), ToSet(fs) = ToSet(es) \cup {e}
        PROVE  TypeIndexKeeps(add_to_index(tree, s, e), fs)
    <2> SUFFICES ASSUME NEW q \in Strings, NEW f \in Entry
                 PROVE  Times(add_to_index(tree, s, e), q, f) =
                            IF f \in ToSet(fs) /\ q = NormalisedSrvtype(f.type) THEN 1 ELSE 0
      BY DEF TypeIndexKeeps
    <2>1. CASE f = e
      BY <1>2, <1>3, <1>4, <2>1
    <2>2. CASE f # e
      BY <1>2, <1>3, <1>4, <2>2
    <2> QED
      BY <2>1, <2>2
  <1>5. ASSUME ToSet(fs) = ToSet(es) \ {e}
        PROVE  TypeIndexKeeps(index_tree_delete(tree, s, e), fs)
    <2> SUFFICES ASSUME NEW q \in Strings, NEW f \in Entry
                 PROVE  Times(index_tree_delete(tree, s, e), q, f) =
                            IF f \in ToSet(fs) /\ q = NormalisedSrvtype(f.type) THEN 1 ELSE 0
      BY DEF TypeIndexKeeps
    <2>1. CASE f = e
      BY <1>2, <1>3, <1>5, <2>1
    <2>2. CASE f # e
      BY <1>2, <1>3, <1>5, <2>2
    <2> QED
      BY <2>1, <2>2
  <1> QED
    BY <1>4, <1>5

\* So is the index of a tag, with every value.
LEMMA TagIndexIsKept ==
    ASSUME NEW Trees, Index(Trees, Strings, Entry), NEW tree \in Trees, NEW es, NEW tag \in TagIndexes,
           TagIndexKeeps(tree, tag, es), NEW e \in Entry, NEW fs
    PROVE  /\ Added(tree, IndexedValues[e][tag], e) \in Trees
           /\ e \notin ToSet(es) /\ ToSet(fs) = ToSet(es) \cup {e} =>
                TagIndexKeeps(Added(tree, IndexedValues[e][tag], e), tag, fs)
           /\ e \in ToSet(es) /\ ToSet(fs) = ToSet(es) \ {e} =>
                /\ Deleted(tree, IndexedValues[e][tag], e) \in Trees
                /\ TagIndexKeeps(Deleted(tree, IndexedValues[e][tag], e), tag, fs)
  <1> DEFINE vs == IndexedValues[e][tag]
  <1>1. vs \in Seq(Strings)
    BY EntryAssumption DEF EntryAssumption, Strings
  <1>2. \A q \in Strings : NumberOf(vs, q) \in Nat
    <2> HIDE DEF vs
    <2>1. Len(vs) \in Nat /\ 1..Len(vs) \in SUBSET (1..Len(vs))
      BY <1>1, LenProperties
    <2> QED
      BY <2>1, PlacesAreCounted DEF NumberOf
  <1>3. \A q \in Strings, f \in Entry :
          Times(tree, q, f) = IF f \in ToSet(es) THEN NumberOf(IndexedValues[f][tag], q) ELSE 0
    BY DEF TagIndexKeeps
  <1>4. \A q \in Strings, f \in Entry : Times(tree, q, f) \in Nat
    BY FoundTimes
  <1>5. /\ Added(tree, vs, e) \in Trees
        /\ \A q \in Strings, f \in Entry :
              Times(Added(tree, vs, e), q, f) = Times(tree, q, f) + (IF f = e THEN NumberOf(vs, q) ELSE 0)
    <2> HIDE DEF vs
    <2> QED
      BY <1>1, AddedProperties
  <1>6. ASSUME e \notin ToSet(es), ToSet(fs) = ToSet(es) \cup {e}
        PROVE  TagIndexKeeps(Added(tree, vs, e), tag, fs)
    <2> SUFFICES ASSUME NEW q \in Strings, NEW f \in Entry
                 PROVE  Times(Added(tree, vs, e), q, f) =
                            IF f \in ToSet(fs) THEN NumberOf(IndexedValues[f][tag], q) ELSE 0
      BY DEF TagIndexKeeps
    <2>1. CASE f = e
      <3>1. Times(tree, q, f) = 0 /\ Times(Added(tree, vs, e), q, f) = Times(tree, q, f) + NumberOf(vs, q)
        BY <1>3, <1>5, <1>6, <2>1
      <3> QED
        BY <1>2, <1>6, <2>1, <3>1
    <2>2. CASE f # e
      <3>1. Times(Added(tree, vs, e), q, f) = Times(tree, q, f) + 0
        BY <1>5, <2>2
      <3>2. Times(Added(tree, vs, e), q, f) = Times(tree, q, f)
        BY <1>4, <3>1
      <3> QED
        BY <1>3, <1>6, <2>2, <3>2
    <2> QED
      BY <2>1, <2>2
  <1>7. ASSUME e \in ToSet(es), ToSet(fs) = ToSet(es) \ {e}
        PROVE  Deleted(tree, vs, e) \in Trees /\ TagIndexKeeps(Deleted(tree, vs, e), tag, fs)
    <2>1. \A q \in Strings : Times(tree, q, e) = NumberOf(vs, q)
      BY <1>3, <1>7
    <2>2. /\ Deleted(tree, vs, e) \in Trees
          /\ \A q \in Strings, f \in Entry :
                Times(Deleted(tree, vs, e), q, f) = IF f = e THEN 0 ELSE Times(tree, q, f)
      <3> HIDE DEF vs
      <3> QED
        BY <1>1, <2>1, DeletedProperties
    <2> SUFFICES ASSUME NEW q \in Strings, NEW f \in Entry
                 PROVE  Times(Deleted(tree, vs, e), q, f) =
                            IF f \in ToSet(fs) THEN NumberOf(IndexedValues[f][tag], q) ELSE 0
      BY <2>2 DEF TagIndexKeeps
    <2> QED
      BY <1>3, <1>7, <2>2
  <1> QED
    BY <1>5, <1>6, <1>7

\* What becomes of the list of the registrations.
LEMMA ListSteps ==
    ASSUME NEW es \in Seq(Entry), IsInjective(es), NEW e \in Entry
    PROVE  /\ ~Contains(es, e) =>
                /\ e \notin ToSet(es)
                /\ <<e>> \o es \in Seq(Entry) /\ IsInjective(<<e>> \o es)
                /\ ToSet(<<e>> \o es) = ToSet(es) \cup {e}
           /\ Contains(es, e) => e \in ToSet(es)
           /\ Dropping(es, LAMBDA f : f = e) \in Seq(Entry)
           /\ IsInjective(Dropping(es, LAMBDA f : f = e))
           /\ ToSet(Dropping(es, LAMBDA f : f = e)) = ToSet(es) \ {e}
  <1>1. Len(es) \in Nat /\ DOMAIN es = 1..Len(es) /\ \A i \in 1..Len(es) : es[i] \in Entry
    BY LenProperties
  <1>2. Contains(es, e) <=> e \in ToSet(es)
    BY <1>1 DEF Contains, ToSet
  <1>3. ASSUME e \notin ToSet(es)
        PROVE  /\ <<e>> \o es \in Seq(Entry) /\ IsInjective(<<e>> \o es)
               /\ ToSet(<<e>> \o es) = ToSet(es) \cup {e}
    <2> DEFINE longer == <<e>> \o es
    <2>1. /\ longer \in Seq(Entry) /\ Len(longer) = Len(es) + 1 /\ DOMAIN longer = 1..Len(longer)
          /\ longer[1] = e /\ \A i \in 1..Len(es) : longer[i + 1] = es[i]
      BY <1>1, ConcatProperties, LenProperties
    <2> HIDE DEF longer
    <2>2. \A i \in DOMAIN longer : i # 1 => i - 1 \in 1..Len(es) /\ longer[i] = es[i - 1]
      BY <1>1, <2>1
    <2>3. \A i \in DOMAIN longer : longer[i] = e => i = 1
      BY <1>1, <1>3, <2>2 DEF ToSet
    <2>4. IsInjective(longer)
      <3> SUFFICES ASSUME NEW i \in DOMAIN longer, NEW j \in DOMAIN longer, longer[i] = longer[j]
                   PROVE  i = j
        BY DEF IsInjective
      <3>1. CASE i = 1 \/ j = 1
        BY <2>1, <2>3, <3>1
      <3>2. CASE i # 1 /\ j # 1
        <4>1. /\ i - 1 \in 1..Len(es) /\ j - 1 \in 1..Len(es)
              /\ es[i - 1] = es[j - 1]
          BY <2>2, <3>2
        <4>2. i - 1 = j - 1
          BY <1>1, <4>1 DEF IsInjective
        <4> QED
          BY <2>1, <4>2
      <3> QED
        BY <3>1, <3>2
    <2>5. ToSet(longer) = ToSet(es) \cup {e}
      BY <1>1, <2>1, <2>2 DEF ToSet
    <2> QED
      BY <2>1, <2>4, <2>5 DEF longer
  <1>4. /\ Dropping(es, LAMBDA f : f = e) \in Seq(Entry)
        /\ IsInjective(Dropping(es, LAMBDA f : f = e))
        /\ ToSet(Dropping(es, LAMBDA f : f = e)) = ToSet(es) \ {e}
    <2> DEFINE I == {i \in DOMAIN es : ~(es[i] = e)}
    <2>1. Dropping(es, LAMBDA f : f = e) = Members(es, I)
      BY DEF Dropping, Members
    <2>2. Members(es, I) \in Seq(Entry) /\ IsInjective(Members(es, I)) /\ ToSet(Members(es, I)) = {es[i] : i \in I}
      BY MembersProperties
    <2>3. {es[i] : i \in I} = ToSet(es) \ {e}
      BY DEF ToSet
    <2> QED
      BY <2>1, <2>2, <2>3
  <1> QED
    BY <1>2, <1>3, <1>4

\* A registration that joins or leaves is in its indexes or out of them.
LEMMA UpkeepKeepsIndexes ==
    ASSUME NEW Trees, Index(Trees, Strings, Entry), Kinds, Indexes(Trees), NEW e \in Entry, Reg(e) \/ Unreg(e)
    PROVE  Kinds' /\ Indexes(Trees)'
  <1>1. /\ entries \in Seq(Entry) /\ IsInjective(entries) /\ urlcount \in Nat
        /\ typeIndex \in Trees /\ (srvtypeIsIndexed => TypeIndexKeeps(typeIndex, entries))
        /\ tagIndex \in [TagIndexes -> Trees]
        /\ \A tag \in TagIndexes : TagIndexKeeps(tagIndex[tag], tag, entries)
    BY DEF Kinds, Indexes
  <1>2. NormalisedSrvtype(e.type) \in Strings
    BY NamesAreStrings, EntryAssumption DEF EntryAssumption
  <1> DEFINE typeKept == /\ typeIndex' \in Trees
                         /\ srvtypeIsIndexed => TypeIndexKeeps(typeIndex', entries')
             tagsKept == /\ tagIndex' \in [TagIndexes -> Trees]
                         /\ \A tag \in TagIndexes : TagIndexKeeps(tagIndex'[tag], tag, entries')
  <1>3. ASSUME Reg(e)
        PROVE  entries' \in Seq(Entry) /\ IsInjective(entries') /\ typeKept /\ tagsKept
    <2>1. entries' = <<e>> \o entries /\ ~Contains(entries, e)
      BY <1>3 DEF Reg
    <2>2. entries' \in Seq(Entry) /\ IsInjective(entries') /\ e \notin ToSet(entries) /\ ToSet(entries') = ToSet(entries) \cup {e}
      BY <1>1, <2>1, ListSteps
    <2>3. /\ typeIndex' = IF srvtypeIsIndexed THEN add_to_index(typeIndex, NormalisedSrvtype(e.type), e) ELSE typeIndex
          /\ tagIndex' = [tag \in TagIndexes |-> Added(tagIndex[tag], IndexedValues[e][tag], e)]
      BY <1>3 DEF Reg, Indexed
    <2>4. typeKept
      <3>1. typeIndex' \in Trees
        BY <1>1, <1>2, <2>3, IndexSteps
      <3>2. srvtypeIsIndexed => TypeIndexKeeps(typeIndex', entries')
        BY <1>1, <2>2, <2>3, TypeIndexIsKept
      <3> QED
        BY <3>1, <3>2
    <2>5. ASSUME NEW tag \in TagIndexes
          PROVE  /\ Added(tagIndex[tag], IndexedValues[e][tag], e) \in Trees
                 /\ TagIndexKeeps(Added(tagIndex[tag], IndexedValues[e][tag], e), tag, entries')
      <3>1. tagIndex[tag] \in Trees /\ TagIndexKeeps(tagIndex[tag], tag, entries)
        BY <1>1
      <3> QED
        BY <2>2, <3>1, TagIndexIsKept
    <2>6. tagsKept
      BY <2>3, <2>5
    <2> QED
      BY <2>2, <2>4, <2>6
  <1>4. ASSUME Unreg(e)
        PROVE  entries' \in Seq(Entry) /\ IsInjective(entries') /\ typeKept /\ tagsKept
    <2>1. entries' = Dropping(entries, LAMBDA f : f = e) /\ Contains(entries, e)
      BY <1>4 DEF Unreg
    <2>2. entries' \in Seq(Entry) /\ IsInjective(entries') /\ e \in ToSet(entries) /\ ToSet(entries') = ToSet(entries) \ {e}
      BY <1>1, <2>1, ListSteps
    <2>3. /\ typeIndex' = IF srvtypeIsIndexed THEN index_tree_delete(typeIndex, NormalisedSrvtype(e.type), e) ELSE typeIndex
          /\ tagIndex' = [tag \in TagIndexes |-> Deleted(tagIndex[tag], IndexedValues[e][tag], e)]
      BY <1>4 DEF Unreg, Unindexed
    <2>4. typeKept
      <3>1. typeIndex' \in Trees
        BY <1>1, <1>2, <2>3, IndexSteps
      <3>2. srvtypeIsIndexed => TypeIndexKeeps(typeIndex', entries')
        BY <1>1, <2>2, <2>3, TypeIndexIsKept
      <3> QED
        BY <3>1, <3>2
    <2>5. ASSUME NEW tag \in TagIndexes
          PROVE  /\ Deleted(tagIndex[tag], IndexedValues[e][tag], e) \in Trees
                 /\ TagIndexKeeps(Deleted(tagIndex[tag], IndexedValues[e][tag], e), tag, entries')
      <3>1. tagIndex[tag] \in Trees /\ TagIndexKeeps(tagIndex[tag], tag, entries)
        BY <1>1
      <3> QED
        BY <2>2, <3>1, TagIndexIsKept
    <2>6. tagsKept
      BY <2>3, <2>5
    <2> QED
      BY <2>2, <2>4, <2>6
  <1>5. UNCHANGED <<srvtypeIsIndexed, urlcount>>
    BY DEF Reg, Unreg, Quiet
  <1> QED
    BY <1>1, <1>3, <1>4, <1>5 DEF Kinds, Indexes
-----------------------------------------------------------------------------
(* The inductive invariant.                                                *)

\* What a request is refused with, or an agent tells of itself.
Refused ==
    IF Refusal(request) # "OK" THEN [err |-> Refusal(request), adverts |-> <<>>] ELSE AgentReply(request)

\* A request has an answer of the database or one without it, never both.
Exchange ==
    /\ request \in {NoRequest} \cup SrvRqst \cup SrvTypeRqst \cup AttrRqst
    /\ request = NoRequest => answer = <<>> /\ reply = <<>>
    /\ answer # <<>> => reply = <<>> /\ Refusal(request) = "OK" /\ ~Asks(request)
    /\ reply # <<>> => reply = <<Refused>> /\ (Refusal(request) # "OK" \/ Asks(request))

\* The answer is that of a search that was not cut short.
Answers ==
    answer # <<>> =>
        \/ request \in SrvRqst /\ RightFor(request, answer[1])
        \/ request \in SrvTypeRqst /\ TypesFor(request, answer[1])
        \/ request \in AttrRqst /\ AttributesFor(request, answer[1])

IInv(Trees) == Kinds /\ Indexes(Trees) /\ Exchange /\ Answers

\* Requests are told apart by their kinds.
LEMMA RequestKinds ==
    /\ \A rq \in SrvRqst : rq.kind = "SrvRqst"
    /\ \A rq \in SrvTypeRqst : rq.kind = "SrvTypeRqst"
    /\ \A rq \in AttrRqst : rq.kind = "AttrRqst"
    /\ NoRequest.kind = "none"
  BY SrvRqstAssumption, OtherRqstAssumption DEF SrvRqstAssumption, OtherRqstAssumption, NoRequest

\* It holds of an empty database.
LEMMA InitiallyIInv ==
    ASSUME NEW Trees, Index(Trees, Strings, Entry), RInit
    PROVE  IInv(Trees)
  <1>1. entries = <<>> /\ typeIndex = EmptyTree /\ tagIndex = [tag \in TagIndexes |-> EmptyTree]
    BY DEF RInit, QInit
  <1>2. ToSet(entries) = {}
    BY <1>1 DEF ToSet
  <1>3. EmptyTree \in Trees /\ \A q \in Strings, e \in Entry : Times(EmptyTree, q, e) = 0
    BY NothingIsFound DEF Index
  <1>4. TypeIndexKeeps(EmptyTree, entries) /\ \A tag \in TagIndexes : TagIndexKeeps(EmptyTree, tag, entries)
    BY <1>2, <1>3 DEF TypeIndexKeeps, TagIndexKeeps
  <1>5. Indexes(Trees)
    BY <1>1, <1>3, <1>4 DEF Indexes
  <1>6. Kinds
    <2>1. entries \in Seq(Entry) /\ IsInjective(entries)
      BY <1>1 DEF IsInjective
    <2>2. urlcount \in Nat
      BY LimitsAssumption DEF LimitsAssumption, RInit, QInit
    <2> QED
      BY <2>1, <2>2 DEF Kinds
  <1>7. Exchange /\ Answers
    BY DEF Exchange, Answers, RInit, QInit
  <1> QED
    BY <1>5, <1>6, <1>7 DEF IInv

\* A search of the database leaves it alone; with an answer, it is right.
LEMMA SearchStep ==
    ASSUME NEW Trees, Index(Trees, Strings, Entry), IInv(Trees), Search
    PROVE  IInv(Trees)'
  <1>1. /\ Kinds /\ Indexes(Trees) /\ Exchange /\ Answers
        /\ request # NoRequest /\ Refusal(request) = "OK" /\ ~Asks(request)
        /\ UNCHANGED <<srvtypeIsIndexed, entries, typeIndex, tagIndex, request, isDA, reply>>
        /\ answer = <<>> /\ reply = <<>>
    BY DEF IInv, Search, SrvRqstStart, SrvTypeRqstStart, AttrRqstStart, db, Exchange
  <1>2. request \in SrvRqst \cup SrvTypeRqst \cup AttrRqst
    BY <1>1 DEF Exchange
  <1>3. /\ urlcount' \in Nat
        /\ answer' # <<>> =>
              \/ request \in SrvRqst /\ RightFor(request, answer'[1])
              \/ request \in SrvTypeRqst /\ TypesFor(request, answer'[1])
              \/ request \in AttrRqst /\ AttributesFor(request, answer'[1])
    <2>1. CASE SrvRqstStart
      <3>1. request \in SrvRqst
        BY <1>2, <2>1, RequestKinds DEF SrvRqstStart
      <3>2. PICK r : /\ r = SrvRqstSearch(request)
                     /\ IF r.err THEN urlcount' = Doubled(urlcount, MaxUrlcount) /\ UNCHANGED answer
                                 ELSE answer' = <<r.urls>> /\ UNCHANGED urlcount
        BY <2>1 DEF SrvRqstStart
      <3>3. CASE r.err
        <4>1. urlcount \in Nat /\ MaxUrlcount \in Nat
          BY <1>1, LimitsAssumption DEF Kinds, LimitsAssumption
        <4>2. Doubled(urlcount, MaxUrlcount) \in Nat
          BY <4>1 DEF Doubled
        <4> QED
          BY <1>1, <3>2, <3>3, <4>2
      <3>4. CASE ~r.err
        <4>1. RightFor(request, r.urls)
          BY <1>1, <3>1, <3>2, <3>4, SearchIsRight
        <4>2. answer' = <<r.urls>> /\ urlcount' = urlcount
          BY <3>2, <3>4
        <4> QED
          BY <1>1, <3>1, <4>1, <4>2 DEF Kinds
      <3> QED
        BY <3>3, <3>4
    <2>2. CASE SrvTypeRqstStart
      <3>1. request \in SrvTypeRqst /\ urlcount' = urlcount
        BY <1>2, <2>2, RequestKinds DEF SrvTypeRqstStart
      <3>2. PICK r : /\ r = SrvTypeRqstSearch(request)
                     /\ IF r.err THEN UNCHANGED answer ELSE answer' = <<r.types>>
        BY <2>2 DEF SrvTypeRqstStart
      <3>3. CASE r.err
        BY <1>1, <3>1, <3>2, <3>3 DEF Kinds
      <3>4. CASE ~r.err
        <4>1. TypesFor(request, r.types)
          BY <1>1, <3>2, <3>4, TypeSearchIsRight
        <4>2. answer' = <<r.types>>
          BY <3>2, <3>4
        <4> QED
          BY <1>1, <3>1, <4>1, <4>2 DEF Kinds
      <3> QED
        BY <3>3, <3>4
    <2>3. CASE AttrRqstStart
      <3>1. request \in AttrRqst /\ urlcount' = urlcount
        BY <1>2, <2>3, RequestKinds DEF AttrRqstStart
      <3>2. AttributesFor(request, AttrRqstStartScan(request))
            /\ (srvtypeIsIndexed => AttributesFor(request, AttrRqstStartIndexType(request)))
        BY <1>1, <3>1, AttributeSearchIsRight
      <3>3. PICK result : /\ result = IF srvtypeIsIndexed THEN AttrRqstStartIndexType(request) ELSE AttrRqstStartScan(request)
                          /\ answer' = <<result>>
        BY <2>3 DEF AttrRqstStart
      <3>4. AttributesFor(request, result)
        BY <3>2, <3>3
      <3> QED
        BY <1>1, <3>1, <3>3, <3>4 DEF Kinds
    <2> QED
      BY <2>1, <2>2, <2>3 DEF Search
  <1>4. Kinds' /\ Indexes(Trees)'
    BY <1>1, <1>3 DEF Kinds, Indexes
  <1>5. Exchange'
    BY <1>1 DEF Exchange, Refusal, Asks, AsksFor, InScope
  <1>6. Answers'
    BY <1>1, <1>3 DEF Answers, RightFor, TypesFor, AttributesFor, Matching
  <1> QED
    BY <1>4, <1>5, <1>6 DEF IInv

\* Every step keeps the invariant.
LEMMA EveryStepKeepsIInv ==
    ASSUME NEW Trees, Index(Trees, Strings, Entry), IInv(Trees), [RNext]_rvars
    PROVE  IInv(Trees)'
  <1>0. Kinds /\ Indexes(Trees) /\ Exchange /\ Answers
    BY DEF IInv
  <1>1. ASSUME request = NoRequest, NEW e \in Entry, Reg(e) \/ Unreg(e), UNCHANGED <<isDA, reply>>
        PROVE  IInv(Trees)'
    <2>1. Kinds' /\ Indexes(Trees)'
      BY <1>0, <1>1, UpkeepKeepsIndexes
    <2>2. answer = <<>> /\ reply = <<>>
      BY <1>0, <1>1 DEF Exchange
    <2>3. answer' = <<>> /\ reply' = <<>> /\ request' = request
      BY <1>1, <2>2 DEF Reg, Unreg, Quiet
    <2> QED
      BY <1>0, <2>1, <2>3 DEF IInv, Exchange, Answers
  <1>2. ASSUME request = NoRequest, NEW rq \in SrvRqst \cup SrvTypeRqst \cup AttrRqst, Receive(rq)
        PROVE  IInv(Trees)'
    <2>1. UNCHANGED <<srvtypeIsIndexed, entries, typeIndex, tagIndex, urlcount, answer, reply>> /\ request' = rq
      BY <1>2 DEF Receive, Ask, db
    <2>2. answer' = <<>> /\ reply' = <<>>
      BY <1>0, <1>2, <2>1 DEF Exchange
    <2>3. Kinds' /\ Indexes(Trees)'
      BY <1>0, <2>1 DEF Kinds, Indexes
    <2>4. request' \in {NoRequest} \cup SrvRqst \cup SrvTypeRqst \cup AttrRqst
      BY <1>2, <2>1
    <2> QED
      BY <2>2, <2>3, <2>4 DEF IInv, Exchange, Answers
  <1>3. ASSUME Refuse PROVE IInv(Trees)'
    <2>1. /\ UNCHANGED <<srvtypeIsIndexed, entries, typeIndex, tagIndex, urlcount, request, answer, isDA>>
          /\ reply' = <<Refused>> /\ request # NoRequest /\ (Refusal(request) # "OK" \/ Asks(request))
      BY <1>3 DEF Refuse, Refused, db
    <2>2. answer = <<>>
      BY <1>0, <2>1 DEF Exchange
    <2>3. Kinds' /\ Indexes(Trees)'
      BY <1>0, <2>1 DEF Kinds, Indexes
    <2>4. Refused' = Refused /\ Refusal(request)' = Refusal(request) /\ Asks(request)' = Asks(request)
      BY <2>1 DEF Refused, Refusal, Asks, AsksFor, InScope, AgentReply, DirectoryList
    <2>5. Exchange'
      BY <1>0, <2>1, <2>2, <2>4 DEF Exchange
    <2>6. Answers'
      BY <2>1, <2>2 DEF Answers
    <2> QED
      BY <2>3, <2>5, <2>6 DEF IInv
  <1>4. ASSUME Search PROVE IInv(Trees)'
    BY <1>4, SearchStep
  <1>5. ASSUME Respond PROVE IInv(Trees)'
    <2>1. /\ UNCHANGED <<srvtypeIsIndexed, entries, typeIndex, tagIndex, urlcount>>
          /\ request' = NoRequest /\ answer' = <<>> /\ reply' = <<>>
      BY <1>5 DEF Respond, RqstEnd, db
    <2>2. Kinds' /\ Indexes(Trees)'
      BY <1>0, <2>1 DEF Kinds, Indexes
    <2> QED
      BY <2>1, <2>2 DEF IInv, Exchange, Answers
  <1>6. ASSUME UNCHANGED rvars PROVE IInv(Trees)'
    <2>1. UNCHANGED <<srvtypeIsIndexed, entries, typeIndex, tagIndex, urlcount, request, answer, isDA, reply>>
      BY <1>6 DEF rvars, qvars
    <2>2. Kinds' /\ Indexes(Trees)'
      BY <1>0, <2>1 DEF Kinds, Indexes
    <2>3. Refused' = Refused /\ Refusal(request)' = Refusal(request) /\ Asks(request)' = Asks(request)
      BY <2>1 DEF Refused, Refusal, Asks, AsksFor, InScope, AgentReply, DirectoryList
    <2>4. Exchange'
      BY <1>0, <2>1, <2>3 DEF Exchange
    <2>5. Answers'
      BY <1>0, <2>1 DEF Answers, RightFor, TypesFor, AttributesFor, Matching
    <2> QED
      BY <2>2, <2>4, <2>5 DEF IInv
  <1> QED
    BY <1>1, <1>2, <1>3, <1>4, <1>5, <1>6 DEF RNext
-----------------------------------------------------------------------------
(* What follows from it.                                                   *)

\* An answer of the invariant is one that says what is registered.
LEMMA IInvIsRight ==
    ASSUME NEW Trees, IInv(Trees)
    PROVE  AnswersAreRight /\ IndexIsTransparent
  <1>1. Answers /\ Exchange
    BY DEF IInv
  <1>2. CASE answer = <<>>
    BY <1>2 DEF AnswersAreRight, AnswersAreCurrent, ListsEachTypeOnce, AttributesAreInScope, IndexIsTransparent
  <1>3. CASE answer # <<>> /\ request \in SrvRqst /\ RightFor(request, answer[1])
    <2>1. request.kind = "SrvRqst"
      BY <1>3, RequestKinds
    <2> QED
      BY <1>3, <2>1 DEF AnswersAreRight, AnswersAreCurrent, ListsEachTypeOnce, AttributesAreInScope,
                        IndexIsTransparent, RightFor
  <1>4. CASE answer # <<>> /\ request \in SrvTypeRqst /\ TypesFor(request, answer[1])
    <2>1. request.kind = "SrvTypeRqst"
      BY <1>4, RequestKinds
    <2> QED
      BY <1>4, <2>1 DEF AnswersAreRight, AnswersAreCurrent, ListsEachTypeOnce, AttributesAreInScope,
                        IndexIsTransparent, TypesFor, AllDifferent, Wanted
  <1>5. CASE answer # <<>> /\ request \in AttrRqst /\ AttributesFor(request, answer[1])
    <2>1. request.kind = "AttrRqst"
      BY <1>5, RequestKinds
    <2> QED
      BY <1>5, <2>1 DEF AnswersAreRight, AnswersAreCurrent, ListsEachTypeOnce, AttributesAreInScope,
                        IndexIsTransparent, AttributesFor
  <1> QED
    BY <1>1, <1>2, <1>3, <1>4, <1>5 DEF Answers

\* Whether a request is answered.
LEMMA IInvAnswers ==
    ASSUME NEW Trees, IInv(Trees)
    PROVE  RequestsAreAnswered
  <1>1. Exchange /\ IndexIsTransparent
    BY IInvIsRight DEF IInv
  <1>2. ASSUME Answered
        PROVE  /\ request \in SrvRqst \cup SrvTypeRqst \cup AttrRqst
               /\ \/ answer # <<>> /\ reply = <<>> /\ Refusal(request) = "OK" /\ ~Asks(request)
                  \/ answer = <<>> /\ reply = <<Refused>> /\ (Refusal(request) # "OK" \/ Asks(request))
    BY <1>1, <1>2 DEF Answered, Exchange
  <1>3. MulticastHearsResults
    <2> SUFFICES ASSUME Answered, ByMulticast
                 PROVE  /\ Sent => ErrorCode = "OK" /\ Results # <<>>
                        /\ request.kind = "SrvRqst" /\ Refusal(request) = "OK" /\ ~Asks(request) =>
                             \A e \in Matching(request) : Servable(request, e) => Sent
      BY DEF MulticastHearsResults
    <2>1. request.version = 2
      BY DEF ByMulticast
    <2>2. ASSUME Sent PROVE ErrorCode = "OK" /\ Results # <<>>
      BY <2>2 DEF Sent, Kept
    <2>3. ASSUME request.kind = "SrvRqst", Refusal(request) = "OK", ~Asks(request),
                 NEW e \in Matching(request), Servable(request, e)
          PROVE  Sent
      <3>1. answer # <<>> /\ reply = <<>>
        BY <1>2, <2>3
      <3>2. Contains(answer[1], e)
        BY <1>1, <2>3, <3>1 DEF IndexIsTransparent
      <3>3. answer[1] # <<>>
        BY <3>2 DEF Contains
      <3>4. ErrorCode = "OK" /\ Results = answer[1]
        BY <3>1 DEF ErrorCode, Results
      <3>5. Kept
        BY <3>3, <3>4 DEF Kept
      <3> QED
        BY <3>4, <3>5 DEF Sent
    <2> QED
      BY <2>2, <2>3
  <1>4. UnicastIsAnswered
    <2> SUFFICES ASSUME Answered, request.version = 2, ~request.mcast
                 PROVE  Sent <=> ~request.prlist /\ ErrorCode # "MESSAGE_NOT_SUPPORTED"
      BY DEF UnicastIsAnswered
    <2>1. ~ByMulticast
      BY DEF ByMulticast
    <2>2. request.prlist \in BOOLEAN
      BY <1>2, RqstAssumption DEF RqstAssumption
    <2>3. Kept <=> ErrorCode \notin {"VER_NOT_SUPPORTED", "PREVIOUS_RESPONDER"}
      BY <2>1 DEF Kept
    <2>4. Sent <=> ErrorCode \notin {"VER_NOT_SUPPORTED", "MESSAGE_NOT_SUPPORTED", "PREVIOUS_RESPONDER"}
      BY <2>3 DEF Sent
    <2>5. Refusal(request) =
            IF request.prlist THEN "PREVIOUS_RESPONDER"
            ELSE IF request.spi /\ request.kind = "SrvRqst" THEN "AUTHENTICATION_UNKNOWN"
            ELSE IF Asks(request) THEN "OK"
            ELSE IF ~InScope(request) THEN "SCOPE_NOT_SUPPORTED"
            ELSE IF request.spi /\ request.kind = "AttrRqst" THEN "AUTHENTICATION_UNKNOWN"
            ELSE "OK"
      BY <2>2 DEF Refusal
    <2>6. CASE answer # <<>> /\ reply = <<>> /\ Refusal(request) = "OK"
      <3>1. ErrorCode = "OK" /\ ~request.prlist
        BY <2>2, <2>5, <2>6 DEF ErrorCode
      <3> QED
        BY <2>4, <3>1
    <2>7. CASE answer = <<>> /\ reply = <<Refused>>
      <3>1. ErrorCode = Refused.err
        BY <2>7 DEF ErrorCode
      <3>2. AgentReply(request).err \in {"OK", "SCOPE_NOT_SUPPORTED", "MESSAGE_NOT_SUPPORTED"}
        BY DEF AgentReply
      <3>3. Refused.err = IF Refusal(request) # "OK" THEN Refusal(request) ELSE AgentReply(request).err
        BY DEF Refused
      <3>4. request.prlist => Refusal(request) = "PREVIOUS_RESPONDER"
        BY <2>5
      <3>5. ~request.prlist => Refusal(request) \in {"AUTHENTICATION_UNKNOWN", "OK", "SCOPE_NOT_SUPPORTED"}
        BY <2>5
      <3> QED
        BY <2>2, <2>4, <3>1, <3>2, <3>3, <3>4, <3>5
    <2> QED
      BY <1>2, <2>6, <2>7
  <1> QED
    BY <1>3, <1>4 DEF RequestsAreAnswered

\* How the list of the directory agents ends.
LEMMA IInvEndsTheList ==
    ASSUME NEW Trees, IInv(Trees)
    PROVE  DirectoryListEnds
  <1> SUFFICES ASSUME Answered, AsksFor(request, DirectoryAgent), request.version = 2, request.loopback, ErrorCode = "OK"
               PROVE  \A i \in DOMAIN Results : Results[i] = Terminator <=> i = Len(Results)
    BY DEF DirectoryListEnds
  <1>1. Exchange /\ Asks(request)
    BY DEF IInv, Asks
  <1>2. reply = <<Refused>>
    BY <1>1 DEF Answered, Exchange
  <1>3. ErrorCode = Refused.err /\ Results = Refused.adverts
    BY <1>2 DEF ErrorCode, Results
  <1>4. Refused = AgentReply(request)
    BY <1>3 DEF Refused
  <1>5. ~AsksFor(request, ServiceAgent)
    <2>1. DirectoryAgent # ServiceAgent
      BY DEF DirectoryAgent, ServiceAgent
    <2> QED
      BY <2>1, Zenon DEF AsksFor
  <1>6. Results = DirectoryList
    BY <1>3, <1>4, <1>5 DEF AgentReply
  <1> DEFINE Names == {Me, Terminator} \cup ToSet(KnownDAs)
  <1>0. Me \in Names /\ Terminator \in Names /\ Me # Terminator /\ KnownDAs \in Seq(Names)
    <2>1. Me # Terminator
      BY DEF Me, Terminator
    <2>2. Len(KnownDAs) \in Nat /\ KnownDAs = [i \in 1..Len(KnownDAs) |-> KnownDAs[i]]
      BY KnownDAsAssumption, LenProperties DEF KnownDAsAssumption
    <2>3. \A i \in 1..Len(KnownDAs) : KnownDAs[i] \in Names
      BY <2>2 DEF ToSet
    <2> HIDE DEF Names
    <2>4. KnownDAs \in Seq(Names)
      BY <2>2, <2>3
    <2> QED
      BY <2>1, <2>4 DEF Names
  <1> HIDE DEF Names
  <1> DEFINE agents == (IF isDA THEN <<Me>> ELSE <<>>) \o KnownDAs
  <1>7. agents \in Seq(Names) /\ Len(agents) \in Nat /\ \A i \in 1..Len(agents) : agents[i] # Terminator
    <2> DEFINE self == IF isDA THEN <<Me>> ELSE <<>>
    <2>1. Len(KnownDAs) \in Nat /\ \A i \in 1..Len(KnownDAs) : KnownDAs[i] # Terminator
      BY KnownDAsAssumption, LenProperties DEF KnownDAsAssumption, ToSet
    <2>2. self \in Seq(Names) /\ Len(self) \in Nat /\ \A i \in 1..Len(self) : self[i] # Terminator
      <3>1. self = <<Me>> \/ self = <<>>
        OBVIOUS
      <3> HIDE DEF self
      <3>2. CASE self = <<>>
        BY <3>2
      <3>3. CASE self = <<Me>>
        <4>1. self \in Seq(Names) /\ Len(self) = 1 /\ self[1] = Me
          BY <1>0, <3>3
        <4> QED
          BY <1>0, <4>1
      <3> QED
        BY <3>1, <3>2, <3>3
    <2> HIDE DEF self
    <2>3. /\ self \o KnownDAs \in Seq(Names) /\ Len(self \o KnownDAs) = Len(self) + Len(KnownDAs)
          /\ \A i \in 1..Len(self) + Len(KnownDAs) :
                (self \o KnownDAs)[i] = IF i <= Len(self) THEN self[i] ELSE KnownDAs[i - Len(self)]
      BY <1>0, <2>1, <2>2, ConcatProperties
    <2>4. \A i \in 1..Len(self) + Len(KnownDAs) : (self \o KnownDAs)[i] # Terminator
      BY <2>1, <2>2, <2>3
    <2> QED
      BY <2>1, <2>2, <2>3, <2>4 DEF self
  <1>8. DirectoryList = agents \o <<Terminator>>
    BY DEF DirectoryList
  <1> HIDE DEF agents
  <1>9. /\ Len(DirectoryList) = Len(agents) + 1 /\ DOMAIN DirectoryList = 1..Len(agents) + 1
        /\ DirectoryList[Len(agents) + 1] = Terminator
        /\ \A i \in 1..Len(agents) : DirectoryList[i] = agents[i]
    <2>1. <<Terminator>> \in Seq(Names) /\ Len(<<Terminator>>) = 1 /\ <<Terminator>>[1] = Terminator
      BY <1>0
    <2> QED
      BY <1>7, <1>8, <2>1, ConcatProperties, LenProperties
  <1> QED
    BY <1>6, <1>7, <1>9

-----------------------------------------------------------------------------
(* Why a search is repeated.                                               *)

\* A finite set fits into a larger one.
LEMMA FitsInto ==
    ASSUME NEW S, NEW T, IsFiniteSet(S), IsFiniteSet(T), Cardinality(S) <= Cardinality(T)
    PROVE  \E f : f \in Injection(S, T)
  <1>1. PICK m : m = Cardinality(S)
    OBVIOUS
  <1>2. PICK n : n = Cardinality(T)
    OBVIOUS
  <1>3. m \in Nat /\ n \in Nat /\ m <= n
    BY <1>1, <1>2, FS_CardinalityType
  <1>4. /\ IsFiniteSet(1..m) /\ Cardinality(1..m) = m
        /\ IsFiniteSet(1..n) /\ Cardinality(1..n) = n
    BY <1>3, FS_Interval
  <1>5. PICK f : f \in Bijection(S, 1..m)
    BY <1>1, <1>4, FS_SameCardinalityBij, Fun_ExistsBij
  <1>6. PICK g : g \in Bijection(1..n, T)
    BY <1>2, <1>4, FS_SameCardinalityBij, Fun_ExistsBij
  <1>7. f \in [S -> 1..m] /\ \A a, b \in S : f[a] = f[b] => a = b
    <2>1. f \in Injection(S, 1..m)
      BY <1>5, Fun_BijectionProperties
    <2> QED
      BY <2>1, Fun_InjectionProperties
  <1>8. g \in [1..n -> T] /\ \A a, b \in 1..n : g[a] = g[b] => a = b
    <2>1. g \in Injection(1..n, T)
      BY <1>6, Fun_BijectionProperties
    <2> QED
      BY <2>1, Fun_InjectionProperties
  <1>9. \A a \in S : f[a] \in 1..n
    BY <1>3, <1>7
  <1> DEFINE h == [a \in S |-> g[f[a]]]
  <1>10. h \in [S -> T] /\ \A a, b \in S : h[a] = h[b] => a = b
    BY <1>7, <1>8, <1>9
  <1> HIDE DEF h
  <1> QED
    BY <1>10, Fun_IsInj

\* What may be found of an entry: it, and with the index of a tag each of its values.
LEMMA FindsAreCounted ==
    ASSUME NEW rq \in SrvRqst, NEW e \in Entry
    PROVE  /\ IsFiniteSet(Finds(rq, e)) /\ Cardinality(Finds(rq, e)) \in Nat /\ 1 <= Cardinality(Finds(rq, e))
           /\ TagNode(ParseOf[rq].kids) # <<>> =>
                 /\ Len(IndexedValues[e][FindTagIndex(TagNode(ParseOf[rq].kids)[1].tag)]) \in Nat
                 /\ Len(IndexedValues[e][FindTagIndex(TagNode(ParseOf[rq].kids)[1].tag)]) <= Cardinality(Finds(rq, e))
  <1> DEFINE nodes == TagNode(ParseOf[rq].kids)
             vs == IndexedValues[e][FindTagIndex(nodes[1].tag)]
             F == Finds(rq, e)
  <1>1. F = {1} \cup (IF nodes = <<>> THEN {} ELSE DOMAIN vs)
    BY DEF Finds
  <1>2. nodes # <<>> => Len(vs) \in Nat /\ DOMAIN vs = 1..Len(vs)
    <2> SUFFICES ASSUME nodes # <<>> PROVE Len(vs) \in Nat /\ DOMAIN vs = 1..Len(vs)
      OBVIOUS
    <2>1. FindTagIndex(nodes[1].tag) \in TagIndexes
      BY UsableNode
    <2>2. vs \in Seq(Strings)
      BY <2>1, EntryAssumption DEF EntryAssumption, Strings
    <2> HIDE DEF vs
    <2> QED
      BY <2>2, LenProperties
  <1> HIDE DEF nodes, vs, F
  <1>3. IsFiniteSet({1}) /\ Cardinality({1}) = 1
    BY FS_Singleton
  <1>4. nodes # <<>> => IsFiniteSet(1..Len(vs)) /\ Cardinality(1..Len(vs)) = Len(vs)
    BY <1>2, FS_Interval
  <1>5. IsFiniteSet(F)
    <2>1. CASE nodes = <<>>
      BY <1>1, <1>3, <2>1
    <2>2. CASE nodes # <<>>
      <3>1. F = {1} \cup (1..Len(vs))
        BY <1>1, <1>2, <2>2
      <3> QED
        BY <1>3, <1>4, <2>2, <3>1, FS_Union
    <2> QED
      BY <2>1, <2>2
  <1>6. {1} \in SUBSET F /\ (nodes # <<>> => 1..Len(vs) \in SUBSET F)
    BY <1>1, <1>2
  <1>7. 1 <= Cardinality(F)
    BY <1>3, <1>5, <1>6, FS_Subset
  <1>8. nodes # <<>> => Len(vs) <= Cardinality(F)
    BY <1>4, <1>5, <1>6, FS_Subset
  <1>9. Cardinality(F) \in Nat
    BY <1>5, FS_CardinalityType
  <1> QED
    BY <1>2, <1>5, <1>7, <1>8, <1>9 DEF F, nodes, vs

\* The registrations are a finite number.
LEMMA EntriesAreFinite ==
    ASSUME Kinds
    PROVE  IsFiniteSet(ToSet(entries)) /\ \A e \in ToSet(entries) : e \in Entry
  <1> DEFINE n == Len(entries)
  <1>1. n \in Nat /\ DOMAIN entries = 1..n /\ \A i \in 1..n : entries[i] \in Entry
    BY LenProperties DEF Kinds
  <1>2. ToSet(entries) = {entries[i] : i \in 1..n}
    BY <1>1 DEF ToSet
  <1>3. entries = [i \in 1..n |-> entries[i]]
    BY <1>1 DEF Kinds
  <1> HIDE DEF n
  <1>4. entries \in [1..n -> ToSet(entries)]
    BY <1>2, <1>3
  <1>5. entries \in Surjection(1..n, ToSet(entries))
    BY <1>2, <1>4, Fun_IsSurj
  <1>6. IsFiniteSet(1..n)
    BY <1>1, FS_Interval
  <1> QED
    BY <1>1, <1>2, <1>5, <1>6, FS_Surjection

\* A finite number of things each for a finite number of others.
LEMMA PairsAreFinite ==
    ASSUME NEW S, IsFiniteSet(S), NEW F, \A a \in S : IsFiniteSet(F[a])
    PROVE  IsFiniteSet(UNION {{a} \X F[a] : a \in S})
  <1> DEFINE T == {{a} \X F[a] : a \in S}
             f == [a \in S |-> {a} \X F[a]]
  <1>1. f \in [S -> T] /\ \A t \in T : \E a \in S : f[a] = t
    OBVIOUS
  <1>2. \A t \in T : IsFiniteSet(t)
    <2> SUFFICES ASSUME NEW a \in S PROVE IsFiniteSet({a} \X F[a])
      OBVIOUS
    <2>1. IsFiniteSet({a}) /\ IsFiniteSet(F[a])
      BY FS_Singleton
    <2> QED
      BY <2>1, FS_Product
  <1> HIDE DEF f, T
  <1>3. f \in Surjection(S, T)
    BY <1>1, Fun_IsSurj
  <1>4. IsFiniteSet(T)
    BY <1>3, FS_Surjection
  <1>5. IsFiniteSet(UNION T)
    BY <1>2, <1>4, FS_UNION
  <1> QED
    BY <1>5 DEF T

\* What may be found is finite.
LEMMA MayBeFoundIsFinite ==
    ASSUME Kinds, NEW rq \in SrvRqst
    PROVE  IsFiniteSet(MayBeFound(rq))
  <1> DEFINE F == [e \in Entry |-> Finds(rq, e)]
  <1>1. IsFiniteSet(ToSet(entries)) /\ \A e \in ToSet(entries) : e \in Entry
    BY EntriesAreFinite
  <1>2. Matching(rq) \in SUBSET ToSet(entries)
    BY DEF Matching
  <1>3. IsFiniteSet(Matching(rq))
    BY <1>1, <1>2, FS_Subset
  <1>4. \A e \in Matching(rq) : F[e] = Finds(rq, e) /\ IsFiniteSet(F[e])
    BY <1>1, <1>2, FindsAreCounted
  <1>5. MayBeFound(rq) = UNION {{e} \X F[e] : e \in Matching(rq)}
    BY <1>4 DEF MayBeFound
  <1> HIDE DEF F
  <1> QED
    BY <1>3, <1>4, <1>5, PairsAreFinite

\* What is found is registered, and each entry no more often than it may be found.
Fits(rq, found) ==
    /\ found \in Seq(Entry) /\ ToSet(found) \subseteq ToSet(entries)
    /\ \A e \in Entry : Cardinality(At(found, e)) <= Cardinality(Finds(rq, e))

\* So a result that it is too much for has less room than what may be found.
LEMMA TooMuchForTheRoom ==
    ASSUME Kinds, NEW rq \in SrvRqst, ParseOf[rq].err = "PREDICATE_PARSE_OK",
           NEW found, Fits(rq, found), StartIndexCallback(rq, found).err
    PROVE  urlcount < Cardinality(MayBeFound(rq))
  <1> DEFINE I == {i \in DOMAIN found : ~~SrvRqstTestEntry(rq, found[i])}
             kept == Members(found, I)
             M == MayBeFound(rq)
             A(e) == At(found, e)
             B(e) == Finds(rq, e)
             G == [e \in Entry |-> CHOOSE g : g \in Injection(A(e), B(e))]
             f == [i \in I |-> <<found[i], G[found[i]][i]>>]
  <1>1. found \in Seq(Entry) /\ ToSet(found) \subseteq ToSet(entries)
    BY DEF Fits
  <1>2. Len(found) \in Nat /\ DOMAIN found = 1..Len(found) /\ \A i \in DOMAIN found : found[i] \in Entry
    BY <1>1, LenProperties
  <1>3. IsFiniteSet(I) /\ Cardinality(I) \in Nat /\ DOMAIN InOrder(I) = 1..Cardinality(I)
    <2>1. I \in SUBSET (1..Len(found))
      BY <1>2
    <2> HIDE DEF I
    <2> QED
      BY <1>2, <2>1, InOrderProperties
  <1>4. Len(kept) = Cardinality(I)
    <2>1. kept = [k \in 1..Cardinality(I) |-> found[InOrder(I)[k]]]
      BY <1>3 DEF Members
    <2>2. kept \in Seq(Entry)
      BY <1>1, MembersProperties
    <2> HIDE DEF kept, I
    <2>3. DOMAIN kept = 1..Cardinality(I) /\ DOMAIN kept = 1..Len(kept) /\ Len(kept) \in Nat
      BY <2>1, <2>2, LenProperties
    <2> QED
      BY <1>3, <2>3
  <1>5. Cardinality(I) > urlcount
    <2>1. Dropping(found, LAMBDA e : ~SrvRqstTestEntry(rq, e)) = kept
      BY DEF Dropping, Members
    <2> HIDE DEF kept, I
    <2>2. StartIndexCallback(rq, found) = Result(kept)
      BY <2>1 DEF StartIndexCallback
    <2>3. Result(kept).err <=> Len(kept) > urlcount
      BY DEF Result
    <2>4. Len(kept) > urlcount
      BY <2>2, <2>3, Zenon
    <2> QED
      BY <1>4, <2>4
  <1>6. \A e \in Entry : /\ G[e] \in [A(e) -> B(e)]
                         /\ \A i, j \in A(e) : G[e][i] = G[e][j] => i = j
    <2> SUFFICES ASSUME NEW e \in Entry
                 PROVE  G[e] \in [A(e) -> B(e)] /\ \A i, j \in A(e) : G[e][i] = G[e][j] => i = j
      OBVIOUS
    <2>1. G[e] = CHOOSE g : g \in Injection(A(e), B(e))
      OBVIOUS
    <2>2. IsFiniteSet(A(e)) /\ IsFiniteSet(B(e)) /\ Cardinality(A(e)) <= Cardinality(B(e))
      BY <1>1, AtIsCounted, FindsAreCounted DEF Fits
    <2> HIDE DEF G, A, B
    <2>3. G[e] \in Injection(A(e), B(e))
      BY <2>1, <2>2, FitsInto, Zenon
    <2> QED
      BY <2>3, Fun_InjectionProperties
  <1>7. \A i \in I : i \in A(found[i]) /\ found[i] \in Matching(rq) /\ found[i] \in Entry
    <2> SUFFICES ASSUME NEW i \in I PROVE i \in A(found[i]) /\ found[i] \in Matching(rq) /\ found[i] \in Entry
      OBVIOUS
    <2>1. i \in DOMAIN found /\ SrvRqstTestEntry(rq, found[i])
      OBVIOUS
    <2>2. found[i] \in ToSet(entries)
      BY <1>1, <2>1 DEF ToSet
    <2>3. i \in A(found[i]) /\ found[i] \in Entry
      BY <1>2, <2>1 DEF At
    <2>4. found[i] \in Matching(rq)
      BY <2>1, <2>2 DEF Matching
    <2> QED
      BY <2>3, <2>4
  <1>8. \A e \in Matching(rq) : \A k \in B(e) : <<e, k>> \in M
    BY DEF MayBeFound
  <1> HIDE DEF G, A, B, I, M, kept
  <1>9. f \in [I -> M]
    BY <1>6, <1>7, <1>8
  <1>10. ASSUME NEW i \in I, NEW j \in I, f[i] = f[j] PROVE i = j
    <2>1. found[i] = found[j] /\ G[found[i]][i] = G[found[j]][j]
      BY <1>10
    <2> QED
      BY <1>6, <1>7, <2>1
  <1>11. f \in Injection(I, M)
    <2> HIDE DEF f
    <2> QED
      BY <1>9, <1>10, Fun_IsInj
  <1>12. IsFiniteSet(M)
    BY MayBeFoundIsFinite DEF M
  <1>13. Cardinality(I) <= Cardinality(M)
    <2> HIDE DEF f
    <2> QED
      BY <1>11, <1>12, FS_Injection
  <1>14. Cardinality(M) \in Nat /\ urlcount \in Nat
    BY <1>12, FS_CardinalityType DEF Kinds
  <1>15. urlcount < Cardinality(M)
    BY <1>3, <1>5, <1>13, <1>14
  <1> QED
    BY <1>15 DEF M

\* An entry that is found once at the most fits.
LEMMA OnceFits ==
    ASSUME NEW rq \in SrvRqst, NEW e \in Entry, NEW c \in Nat, c <= 1
    PROVE  c <= Cardinality(Finds(rq, e))
  <1>1. PICK n : n = Cardinality(Finds(rq, e))
    OBVIOUS
  <1>2. n \in Nat /\ 1 <= n
    BY <1>1, FindsAreCounted
  <1> QED
    BY <1>1, <1>2

\* What a scan goes through fits.
LEMMA ScanFits ==
    ASSUME Kinds, NEW rq \in SrvRqst
    PROVE  Fits(rq, entries)
  <1>1. entries \in Seq(Entry) /\ IsInjective(entries)
    BY DEF Kinds
  <1>2. ASSUME NEW e \in Entry PROVE Cardinality(At(entries, e)) \in Nat /\ Cardinality(At(entries, e)) <= 1
    <2>1. IsFiniteSet(At(entries, e)) /\ Cardinality(At(entries, e)) \in Nat
      BY <1>1, AtIsCounted
    <2>2. \A i, j \in At(entries, e) : i = j
      BY <1>1 DEF At, IsInjective
    <2>3. At(entries, e) = {} \/ \E i : At(entries, e) = {i}
      BY <2>2
    <2> QED
      BY <2>1, <2>3, FS_EmptySet, FS_Singleton
  <1>3. \A e \in Entry : Cardinality(At(entries, e)) <= Cardinality(Finds(rq, e))
    BY <1>2, OnceFits
  <1> QED
    BY <1>1, <1>3 DEF Fits

\* The values of attributes that a node looks for are well formed.
WellWritten(rq) ==
    LET node == TagNode(ParseOf[rq].kids) IN node # <<>> => WellEscaped(TextBefore(node[1].rhs))

\* A search without an ill-formed escape is repeated only for the room it needs.
LEMMA SearchNeedsRoom ==
    ASSUME NEW Trees, Index(Trees, Strings, Entry), Indexes(Trees), Kinds,
           NEW rq \in SrvRqst, WellWritten(rq), SrvRqstSearch(rq).err
    PROVE  urlcount < Cardinality(MayBeFound(rq))
  <1> DEFINE r == SrvRqstSearch(rq)
             nodes == TagNode(ParseOf[rq].kids)
             byType == srvtypeIsIndexed /\ Contains(Name(rq.type), Colon)
  <1>1. entries \in Seq(Entry)
    BY DEF Kinds
  <1>2. CASE ParseOf[rq].err # "PREDICATE_PARSE_OK"
    <2>1. r.err = FALSE
      BY <1>2 DEF SrvRqstSearch
    <2> QED
      BY <2>1
  <1>3. \A found : Fits(rq, found) /\ r = StartIndexCallback(rq, found) /\ ParseOf[rq].err = "PREDICATE_PARSE_OK" =>
            urlcount < Cardinality(MayBeFound(rq))
    <2> SUFFICES ASSUME NEW found, Fits(rq, found), r = StartIndexCallback(rq, found), ParseOf[rq].err = "PREDICATE_PARSE_OK"
                 PROVE  urlcount < Cardinality(MayBeFound(rq))
      OBVIOUS
    <2>1. StartIndexCallback(rq, found).err
      <3>1. r.err
        OBVIOUS
      <3> HIDE DEF r
      <3> QED
        BY <3>1
    <2> QED
      BY <2>1, TooMuchForTheRoom
  <1>4. CASE ParseOf[rq].err = "PREDICATE_PARSE_OK" /\ byType
    <2> DEFINE q == Name(rq.type)
               found == find_and_call(typeIndex, q)
    <2>1. r = StartIndexCallback(rq, found)
      BY <1>4 DEF SrvRqstSearch, SrvRqstStartIndexType
    <2>2. q \in Strings
      BY NamesAreStrings, SrvRqstAssumption DEF SrvRqstAssumption
    <2>3. typeIndex \in Trees /\ TypeIndexKeeps(typeIndex, entries)
      BY <1>4 DEF Indexes
    <2>4. found \in Seq(Entry) /\ ToSet(found) \subseteq ToSet(entries)
      BY <1>1, <2>2, <2>3, FoundByType
    <2>5. \A e \in Entry : Cardinality(At(found, e)) \in Nat /\ Cardinality(At(found, e)) <= 1
      BY <2>2, <2>3 DEF TypeIndexKeeps, Times
    <2> HIDE DEF found
    <2>6. \A e \in Entry : Cardinality(At(found, e)) <= Cardinality(Finds(rq, e))
      BY <2>5, OnceFits
    <2>7. Fits(rq, found)
      BY <2>4, <2>6 DEF Fits
    <2> HIDE DEF r
    <2> QED
      BY <1>3, <1>4, <2>1, <2>7
  <1>5. CASE ParseOf[rq].err = "PREDICATE_PARSE_OK" /\ ~byType /\ nodes # <<>>
    <2> DEFINE node == nodes[1]
               tag == FindTagIndex(node.tag)
               tree == tagIndex[tag]
               text == TextBefore(node.rhs)
               q == UnescapeInto(text)
               found == IF Wildcard \in ToSet(node.rhs) THEN find_leading_and_call(tree, q) ELSE find_and_call(tree, q)
    <2>1. tag \in TagIndexes /\ node.rhs \in Seq(Unit)
      BY <1>5, UsableNode
    <2>2. WellEscaped(text)
      BY <1>5 DEF WellWritten
    <2>3. r = StartIndexCallback(rq, found)
      <3>1. r = SrvRqstStartIndexAttribute(rq, node)
        BY <1>5 DEF SrvRqstSearch
      <3> QED
        BY <2>2, <3>1 DEF SrvRqstStartIndexAttribute
    <2>4. q \in Strings
      BY <2>1, <2>2, TextBeforeProperties, TextIsString
    <2>5. tree \in Trees /\ TagIndexKeeps(tree, tag, entries)
      BY <2>1 DEF Indexes
    <2>6. \A e \in Entry : /\ Len(IndexedValues[e][tag]) \in Nat
                           /\ Len(IndexedValues[e][tag]) <= Cardinality(Finds(rq, e))
                           /\ Cardinality(Finds(rq, e)) \in Nat
      BY <1>5, FindsAreCounted
    <2> HIDE DEF nodes, tag, tree, text, q
    <2>7. ASSUME Wildcard \in ToSet(node.rhs) PROVE Fits(rq, found)
      <3>1. found = find_leading_and_call(tree, q)
        BY <2>7
      <3>2. /\ found \in Seq(Entry) /\ ToSet(found) \subseteq ToSet(entries)
            /\ \A e \in Entry : Cardinality(At(found, e)) <= Len(IndexedValues[e][tag])
        BY <1>1, <2>1, <2>4, <2>5, <3>1, FoundByLeading
      <3> HIDE DEF found
      <3>3. ASSUME NEW e \in Entry PROVE Cardinality(At(found, e)) <= Cardinality(Finds(rq, e))
        <4>1. Cardinality(At(found, e)) \in Nat
          BY <3>2, AtIsCounted
        <4> QED
          BY <2>6, <3>2, <4>1
      <3> QED
        BY <3>2, <3>3 DEF Fits
    <2>8. ASSUME Wildcard \notin ToSet(node.rhs) PROVE Fits(rq, found)
      <3>1. found = find_and_call(tree, q)
        BY <2>8
      <3>2. found \in Seq(Entry) /\ ToSet(found) \subseteq ToSet(entries)
        BY <1>1, <2>1, <2>4, <2>5, <3>1, FoundByTag
      <3> HIDE DEF found
      <3>3. ASSUME NEW e \in Entry PROVE Cardinality(At(found, e)) <= Cardinality(Finds(rq, e))
        <4> DEFINE vs == IndexedValues[e][tag]
                   n == Len(vs)
        <4>1. Cardinality(At(found, e)) = Times(tree, q, e)
          BY <3>1 DEF Times
        <4>2. Times(tree, q, e) = IF e \in ToSet(entries) THEN Cardinality(Places(vs, 1..n, q)) ELSE 0
          BY <2>4, <2>5 DEF TagIndexKeeps, NumberOf
        <4>3. n \in Nat
          BY <2>6
        <4> HIDE DEF n, vs
        <4>4. Cardinality(Places(vs, 1..n, q)) \in Nat /\ Cardinality(Places(vs, 1..n, q)) <= n
          <5>1. IsFiniteSet(1..n) /\ Cardinality(1..n) = n /\ 1..n \in SUBSET (1..n)
            BY <4>3, FS_Interval
          <5>2. Places(vs, 1..n, q) \in SUBSET (1..n)
            BY DEF Places
          <5>3. Cardinality(Places(vs, 1..n, q)) \in Nat
            BY <4>3, <5>1, PlacesAreCounted
          <5> QED
            BY <5>1, <5>2, <5>3, FS_Subset
        <4>5. n <= Cardinality(Finds(rq, e)) /\ Cardinality(Finds(rq, e)) \in Nat
          BY <2>6 DEF n, vs
        <4> QED
          BY <4>1, <4>2, <4>3, <4>4, <4>5
      <3> QED
        BY <3>2, <3>3 DEF Fits
    <2>9. Fits(rq, found)
      BY <2>7, <2>8
    <2> HIDE DEF found, r
    <2> QED
      BY <1>3, <1>5, <2>3, <2>9
  <1>6. CASE ParseOf[rq].err = "PREDICATE_PARSE_OK" /\ ~byType /\ nodes = <<>>
    <2>1. r = StartIndexCallback(rq, entries)
      BY <1>6 DEF SrvRqstSearch, SrvRqstStartScan
    <2>2. Fits(rq, entries)
      BY ScanFits
    <2> HIDE DEF r
    <2> QED
      BY <1>3, <1>6, <2>1, <2>2
  <1> QED
    BY <1>2, <1>4, <1>5, <1>6

\* What may be listed of the registrations at some positions.
ListedAt(s) == UNION {{entries[i]} \X (0..Len(String(entries[i].type))) : i \in s}

\* One more registration may make the list longer by its type and a separator.
LEMMA ListedWith ==
    ASSUME Kinds, NEW s \in SUBSET (1..Len(entries)), NEW m \in s, NEW c \in Nat,
           IsFiniteSet(ListedAt(s \ {m})), c <= Cardinality(ListedAt(s \ {m})),
           Len(String(entries[m].type)) \in Nat
    PROVE  /\ IsFiniteSet(ListedAt(s))
           /\ Cardinality(ListedAt(s)) \in Nat
           /\ c + Len(String(entries[m].type)) + 1 <= Cardinality(ListedAt(s))
  <1> DEFINE L == Len(String(entries[m].type))
             X == ListedAt(s \ {m})
             Y == {entries[m]} \X (0..L)
  <1>1. DOMAIN entries = 1..Len(entries)
    BY LenProperties DEF Kinds
  <1>2. ListedAt(s) = X \cup Y
    BY DEF ListedAt
  <1>3. X \cap Y = {}
    <2> SUFFICES ASSUME NEW p \in X, p \in Y PROVE FALSE
      OBVIOUS
    <2>1. p[1] = entries[m]
      OBVIOUS
    <2>2. PICK i \in s \ {m} : p \in {entries[i]} \X (0..Len(String(entries[i].type)))
      BY DEF ListedAt
    <2>3. p[1] = entries[i]
      BY <2>2
    <2> QED
      BY <1>1, <2>1, <2>2, <2>3 DEF Kinds, IsInjective
  <1>4. L \in Nat
    OBVIOUS
  <1> HIDE DEF L
  <1>5. IsFiniteSet(0..L) /\ Cardinality(0..L) = L + 1
    <2>1. 0 \in Int /\ L \in Int
      BY <1>4
    <2>2. IsFiniteSet(0..L) /\ Cardinality(0..L) = IF 0 > L THEN 0 ELSE L - 0 + 1
      BY <2>1, FS_Interval
    <2> QED
      BY <1>4, <2>2
  <1>6. IsFiniteSet({entries[m]}) /\ Cardinality({entries[m]}) = 1
    BY FS_Singleton
  <1>7. IsFiniteSet(Y) /\ Cardinality(Y) = 1 * (L + 1)
    BY <1>5, <1>6, FS_Product
  <1> HIDE DEF X, Y
  <1>8. Cardinality({}) = 0
    BY FS_EmptySet
  <1>9. IsFiniteSet(X) /\ Cardinality(X) \in Nat /\ c <= Cardinality(X)
    BY FS_CardinalityType DEF X
  <1>10. IsFiniteSet(X \cup Y) /\ Cardinality(X \cup Y) = Cardinality(X) + Cardinality(Y) - Cardinality(X \cap Y)
    BY <1>7, <1>9, FS_Union
  <1>11. Cardinality(X \cup Y) = Cardinality(X) + L + 1
    <2>1. Cardinality(X \cap Y) = 0
      BY <1>3, <1>8
    <2>2. PICK k : k = Cardinality(Y)
      OBVIOUS
    <2>3. k = L + 1
      BY <1>4, <1>7, <2>2
    <2> QED
      BY <1>4, <1>9, <1>10, <2>1, <2>2, <2>3
  <1>12. Cardinality(X \cup Y) \in Nat /\ c + L + 1 <= Cardinality(X \cup Y)
    BY <1>4, <1>9, <1>11
  <1> QED
    BY <1>2, <1>10, <1>12 DEF L

\* The scan for the types is repeated only for the room it needs.
LEMMA TypeSearchNeedsRoom ==
    ASSUME Kinds, typelistlen \in Nat, NEW rq, SrvTypeRqstSearch(rq).err
    PROVE  typelistlen < Cardinality(MayBeListed)
  <1> DEFINE n == Len(entries)
  <1>1. n \in Nat /\ DOMAIN entries = 1..n /\ \A i \in 1..n : entries[i] \in Entry
    BY LenProperties DEF Kinds
  <1>2. NoTypes \in Listed /\ NoTypes.err = FALSE /\ NoTypes.len = 0
    BY DEF Listed, NoTypes
  <1>3. PICK it : TypeFold(rq, it) /\ SrvTypeRqstSearch(rq) = it[1..n]
    BY TypeSearchFolds
  <1>4. \A s \in SUBSET (1..n) :
          it[s] = IF s = {} THEN NoTypes ELSE ListType(rq, it[s \ {Max(s)}], entries[Max(s)])
    BY <1>3 DEF TypeFold
  <1> DEFINE P == {s \in SUBSET (1..n) :
                     /\ it[s] \in Listed
                     /\ IsFiniteSet(ListedAt(s)) /\ Cardinality(ListedAt(s)) \in Nat
                     /\ IF it[s].err THEN typelistlen < Cardinality(ListedAt(s))
                        ELSE it[s].len <= Cardinality(ListedAt(s))}
  <1>5. {} \in P
    <2>1. it[{}] = NoTypes
      BY <1>4
    <2>2. ListedAt({}) = {}
      BY DEF ListedAt
    <2>3. IsFiniteSet({}) /\ Cardinality({}) = 0
      BY FS_EmptySet
    <2> QED
      BY <1>2, <2>1, <2>2, <2>3
  <1>6. ASSUME NEW s \in SUBSET (1..n), s # {}, s \ {Max(s)} \in P PROVE s \in P
    <2>1. PICK m \in s : m = Max(s)
      BY <1>1, <1>6, LargestPosition
    <2>2. PICK r \in Listed : r = it[s \ {m}]
      BY <1>6, <2>1
    <2>3. PICK c : c = Cardinality(ListedAt(s \ {m}))
      OBVIOUS
    <2>4. /\ IsFiniteSet(ListedAt(s \ {m})) /\ c \in Nat
          /\ IF r.err THEN typelistlen < c ELSE r.len <= c
      BY <1>6, <2>1, <2>2, <2>3
    <2>5. it[s] = ListType(rq, r, entries[m]) /\ entries[m] \in Entry
      BY <1>1, <1>4, <1>6, <2>1, <2>2
    <2>6. PICK l : l = Len(String(entries[m].type))
      OBVIOUS
    <2>7. /\ it[s] \in Listed /\ l \in Nat
          /\ ~it[s].err => ~r.err /\ it[s].len <= r.len + l + 1
          /\ it[s].err /\ ~r.err => r.len + l + 1 > typelistlen
      <3>1. PICK e \in Entry : e = entries[m]
        BY <2>5
      <3>2. it[s] = ListType(rq, r, e) /\ l = Len(String(e.type))
        BY <2>5, <2>6, <3>1
      <3>3. PICK x : x = ListType(rq, r, e)
        OBVIOUS
      <3>4. /\ x \in Listed /\ l \in Nat
            /\ ~x.err => ~r.err /\ x.len <= r.len + l + 1
            /\ x.err /\ ~r.err => r.len + l + 1 > typelistlen
        BY <3>2, <3>3, ListTypeProperties
      <3> QED
        BY <3>2, <3>3, <3>4
    <2>8. PICK d : d = Cardinality(ListedAt(s))
      OBVIOUS
    <2>9. IsFiniteSet(ListedAt(s)) /\ d \in Nat /\ c + l + 1 <= d
      BY <2>3, <2>4, <2>6, <2>7, <2>8, ListedWith
    <2>10. r.len \in Nat /\ it[s].len \in Nat
      BY <2>7 DEF Listed
    <2>11. IF it[s].err THEN typelistlen < d ELSE it[s].len <= d
      BY <2>4, <2>7, <2>9, <2>10
    <2> QED
      BY <2>7, <2>8, <2>9, <2>11
  <1>7. 1..n \in P
    <2> HIDE DEF P, n
    <2> QED
      BY <1>1, <1>5, <1>6, PositionsInduction
  <1>8. ListedAt(1..n) = MayBeListed
    BY <1>1 DEF ListedAt, MayBeListed, ToSet
  <1> HIDE DEF n
  <1> QED
    BY <1>3, <1>7, <1>8

\* The room for results, within its bounds.
Limits ==
    /\ urlcount \in Nat /\ urlcount <= MaxUrlcount
    /\ typelistlen \in Nat /\ typelistlen <= MaxTypelistlen

\* Twice the room is more, or the same where it stops growing.
LEMMA DoubledIsMore ==
    ASSUME NEW n \in Nat, NEW max \in Nat, n <= max
    PROVE  Doubled(n, max) \in Nat /\ n <= Doubled(n, max) /\ Doubled(n, max) <= max
  BY DEF Doubled

\* A step that changes the room is a turn of the loop for a request of its kind.
LEMMA RoomChanges ==
    ASSUME [RNext]_rvars
    PROVE  /\ urlcount' # urlcount =>
                /\ request.kind = "SrvRqst" /\ SrvRqstSearch(request).err
                /\ urlcount' = Doubled(urlcount, MaxUrlcount)
                /\ Search
           /\ typelistlen' # typelistlen =>
                /\ request.kind = "SrvTypeRqst" /\ SrvTypeRqstSearch(request).err
                /\ typelistlen' = Doubled(typelistlen, MaxTypelistlen)
                /\ Search
  <1>1. ASSUME NEW e \in Entry, Reg(e) \/ Unreg(e) PROVE UNCHANGED <<urlcount, typelistlen>>
    BY <1>1 DEF Reg, Unreg, Quiet
  <1>2. ASSUME NEW rq, Receive(rq) PROVE UNCHANGED <<urlcount, typelistlen>>
    BY <1>2 DEF Receive, Ask
  <1>3. ASSUME Refuse PROVE UNCHANGED <<urlcount, typelistlen>>
    BY <1>3 DEF Refuse
  <1>4. ASSUME Respond PROVE UNCHANGED <<urlcount, typelistlen>>
    BY <1>4 DEF Respond, RqstEnd
  <1>5. ASSUME UNCHANGED rvars PROVE UNCHANGED <<urlcount, typelistlen>>
    BY <1>5 DEF rvars, qvars
  <1>6. ASSUME Search
        PROVE  /\ urlcount' # urlcount =>
                    /\ request.kind = "SrvRqst" /\ SrvRqstSearch(request).err
                    /\ urlcount' = Doubled(urlcount, MaxUrlcount)
               /\ typelistlen' # typelistlen =>
                    /\ request.kind = "SrvTypeRqst" /\ SrvTypeRqstSearch(request).err
                    /\ typelistlen' = Doubled(typelistlen, MaxTypelistlen)
    <2>1. CASE SrvRqstStart
      BY <2>1 DEF SrvRqstStart
    <2>2. CASE SrvTypeRqstStart
      BY <2>2 DEF SrvTypeRqstStart
    <2>3. CASE AttrRqstStart
      BY <2>3 DEF AttrRqstStart
    <2> QED
      BY <1>6, <2>1, <2>2, <2>3 DEF Search
  <1> QED
    BY <1>1, <1>2, <1>3, <1>4, <1>5, <1>6 DEF RNext

\* The bounds are kept.
LEMMA StepKeepsLimits ==
    ASSUME Limits, [RNext]_rvars
    PROVE  Limits'
  <1>1. MaxUrlcount \in Nat /\ MaxTypelistlen \in Nat
    BY LimitsAssumption DEF LimitsAssumption
  <1>2. urlcount' \in Nat /\ urlcount' <= MaxUrlcount
    <2>1. CASE urlcount' = urlcount
      BY <2>1 DEF Limits
    <2>2. CASE urlcount' # urlcount
      BY <1>1, <2>2, RoomChanges, DoubledIsMore DEF Limits
    <2> QED
      BY <2>1, <2>2
  <1>3. typelistlen' \in Nat /\ typelistlen' <= MaxTypelistlen
    <2>1. CASE typelistlen' = typelistlen
      BY <2>1 DEF Limits
    <2>2. CASE typelistlen' # typelistlen
      BY <1>1, <2>2, RoomChanges, DoubledIsMore DEF Limits
    <2> QED
      BY <2>1, <2>2
  <1> QED
    BY <1>2, <1>3 DEF Limits

\* What a step of the loop has to be.
MakesRoom ==
    /\ urlcount' # urlcount =>
         /\ request.kind = "SrvRqst" /\ urlcount' > urlcount
         /\ urlcount < Cardinality(MayBeFound(request))
    /\ typelistlen' # typelistlen =>
         /\ request.kind = "SrvTypeRqst" /\ typelistlen' > typelistlen
         /\ typelistlen < Cardinality(MayBeListed)

\* Every step is that.
LEMMA StepMakesRoom ==
    ASSUME NEW Trees, Index(Trees, Strings, Entry), \A rq \in SrvRqst : WellWritten(rq),
           IInv(Trees), Limits, [RNext]_rvars
    PROVE  MakesRoom
  <1>1. MaxUrlcount \in Nat /\ MaxTypelistlen \in Nat
    BY LimitsAssumption DEF LimitsAssumption
  <1>2. Kinds /\ Indexes(Trees) /\ Exchange
    BY DEF IInv
  <1>3. ASSUME urlcount' # urlcount
        PROVE  /\ request.kind = "SrvRqst" /\ urlcount' > urlcount
               /\ urlcount < Cardinality(MayBeFound(request))
    <2>1. request.kind = "SrvRqst" /\ SrvRqstSearch(request).err /\ urlcount' = Doubled(urlcount, MaxUrlcount)
      BY <1>3, RoomChanges
    <2>2. request \in SrvRqst
      BY <1>2, <2>1, RequestKinds DEF Exchange
    <2>3. urlcount < Cardinality(MayBeFound(request))
      BY <1>2, <2>1, <2>2, SearchNeedsRoom
    <2>4. urlcount' > urlcount
      <3>1. urlcount \in Nat /\ urlcount <= MaxUrlcount
        BY DEF Limits
      <3>2. urlcount' \in Nat /\ urlcount <= urlcount'
        BY <1>1, <2>1, <3>1, DoubledIsMore
      <3> QED
        BY <1>3, <3>1, <3>2
    <2> QED
      BY <2>1, <2>3, <2>4
  <1>4. ASSUME typelistlen' # typelistlen
        PROVE  /\ request.kind = "SrvTypeRqst" /\ typelistlen' > typelistlen
               /\ typelistlen < Cardinality(MayBeListed)
    <2>1. request.kind = "SrvTypeRqst" /\ SrvTypeRqstSearch(request).err /\ typelistlen' = Doubled(typelistlen, MaxTypelistlen)
      BY <1>4, RoomChanges
    <2>2. typelistlen \in Nat /\ typelistlen <= MaxTypelistlen
      BY DEF Limits
    <2>3. typelistlen < Cardinality(MayBeListed)
      BY <1>2, <2>1, <2>2, TypeSearchNeedsRoom
    <2>4. typelistlen' > typelistlen
      <3>1. typelistlen' \in Nat /\ typelistlen <= typelistlen'
        BY <1>1, <2>1, <2>2, DoubledIsMore
      <3> QED
        BY <1>4, <2>2, <3>1
    <2> QED
      BY <2>1, <2>3, <2>4
  <1> QED
    BY <1>3, <1>4 DEF MakesRoom

-----------------------------------------------------------------------------
(* The theorems.                                                           *)

\* The invariant holds throughout.
LEMMA AlwaysIInv ==
    ASSUME NEW CONSTANT Trees, Index(Trees, Strings, Entry)
    PROVE  RSpec => []IInv(Trees)
  <1>1. RInit => IInv(Trees)
    BY InitiallyIInv
  <1>2. IInv(Trees) /\ [RNext]_rvars => IInv(Trees)'
    BY EveryStepKeepsIInv
  <1> QED
    BY <1>1, <1>2, PTL DEF RSpec

(* Whatever the registrations, the requests and the predicates are, and    *)
(* however an index keeps what is put into it: a reply says of a service   *)
(* only what is registered and matches, of the types all and each once, of *)
(* the attributes none out of scope (slpd_database.c:1101, 1309, 1618).    *)
THEOREM Spec_AnswersAreRight ==
    ASSUME NEW CONSTANT Trees, Index(Trees, Strings, Entry)
    PROVE  RSpec => []AnswersAreRight
  <1>1. IInv(Trees) => AnswersAreRight
    BY IInvIsRight
  <1> QED
    BY <1>1, AlwaysIInv, PTL

(* An index finds every registration that matches and that it can serve,   *)
(* also after others with the same strings have left it, be it asked for a *)
(* service type, for a value or for the text before a wildcard             *)
(* (slpd_database.c:1143, slpd_predicate.c:1690).                          *)
THEOREM Spec_IndexIsTransparent ==
    ASSUME NEW CONSTANT Trees, Index(Trees, Strings, Entry)
    PROVE  RSpec => []IndexIsTransparent
  <1>1. IInv(Trees) => IndexIsTransparent
    BY IInvIsRight
  <1> QED
    BY <1>1, AlwaysIInv, PTL

(* A request of SLPv2 by unicast is replied to, one by multicast exactly   *)
(* when there is something to say (slpd_process.c:495, 504).               *)
THEOREM Spec_RequestsAreAnswered ==
    ASSUME NEW CONSTANT Trees, Index(Trees, Strings, Entry)
    PROVE  RSpec => []RequestsAreAnswered
  <1>1. IInv(Trees) => RequestsAreAnswered
    BY IInvAnswers
  <1> QED
    BY <1>1, AlwaysIInv, PTL

(* However many directory agents are known, the list of them that libslp   *)
(* reads ends with the advert that is none, and nowhere before             *)
(* (slpd_process.c:312).                                                   *)
THEOREM Spec_DirectoryListEnds ==
    ASSUME NEW CONSTANT Trees, Index(Trees, Strings, Entry)
    PROVE  RSpec => []DirectoryListEnds
  <1>1. IInv(Trees) => DirectoryListEnds
    BY IInvEndsTheList
  <1> QED
    BY <1>1, AlwaysIInv, PTL
(* A loop that answers a request turns again only for results that did not *)
(* fit, and with more room, of every request whose predicate has no        *)
(* ill-formed escape where an index is asked (slpd_database.c:1280, 1363). *)
(* Of one that has, it turns again all the same (slpd_database.c:1005).    *)
THEOREM Spec_RetriesMakeRoom ==
    ASSUME NEW CONSTANT Trees, Index(Trees, Strings, Entry), \A rq \in SrvRqst : WellWritten(rq)
    PROVE  RSpec => RetriesMakeRoom
  <1>1. RInit => Limits
    BY LimitsAssumption DEF LimitsAssumption, Limits, RInit, QInit
  <1>2. Limits /\ [RNext]_rvars => Limits'
    BY StepKeepsLimits
  <1>3. IInv(Trees) /\ Limits /\ [RNext]_rvars => [MakesRoom]_qvars
    BY StepMakesRoom
  <1>4. RSpec => [][MakesRoom]_qvars
    BY <1>1, <1>2, <1>3, AlwaysIInv, PTL DEF RSpec
  <1>5. RetriesMakeRoom <=> [][MakesRoom]_qvars
    BY DEF RetriesMakeRoom, MakesRoom
  <1> QED
    BY <1>4, <1>5
=============================================================================
