---------------------------- MODULE SlpSequences ----------------------------
(***************************************************************************)
(* Facts about sequences: what RemoveAt and Append leave, and folds.       *)
(* FoldLeft is a recursive function over the sets of positions of its      *)
(* sequence, whose largest position it takes last; what it computes is     *)
(* proved by induction over these sets, and that induction from the least  *)
(* counterexample.                                                         *)
(***************************************************************************)
EXTENDS SlpLists, SequencesExt, SequenceTheorems, FiniteSetTheorems, TLAPS

-----------------------------------------------------------------------------
(* A set of naturals that is not empty has a least element, and Min finds  *)
(* it: otherwise adding one would be an injection of the finite set of its *)
(* lower bounds into itself that misses zero.                              *)
LEMMA LeastNatural ==
    ASSUME NEW T \in SUBSET Nat, T # {}
    PROVE  Min(T) \in T /\ \A j \in T : Min(T) <= j
  <1> DEFINE U == {n \in Nat : \A y \in T : n <= y}
  <1> DEFINE f == [n \in U |-> n + 1]
  <1>1. PICK t \in T : TRUE
    OBVIOUS
  <1>2. IsFiniteSet(U)
    <2>1. U \in SUBSET Nat /\ t \in Nat /\ \A n \in U : n <= t
      OBVIOUS
    <2>2. QED
      BY <2>1, FS_BoundedSetOfNaturals
  <1>3. ASSUME T \cap U = {} PROVE FALSE
    <2>1. \A n \in U : n + 1 \in U
      BY <1>3
    <2>2. f \in Injection(U, U)
      BY <2>1 DEF Injection, IsInjective
    <2>3. f \in Surjection(U, U)
      BY <2>2, <1>2, FS_Injection
    <2>4. 0 \in U
      OBVIOUS
    <2>5. PICK n \in U : f[n] = 0
      BY <2>3, <2>4 DEF Surjection
    <2>6. QED
      BY <2>5
  <1>4. \E x \in T : \A y \in T : x <= y
    BY <1>3
  <1>5. QED
    BY <1>4 DEF Min

(* What SelectInSeq finds of the positions that are looked for: the first, *)
(* or zero if there is none.                                               *)
LEMMA FirstPosition ==
    ASSUME NEW n, NEW I \in SUBSET (1..n)
    PROVE  LET at == IF I # {} THEN Min(I) ELSE 0
           IN  /\ at = 0 <=> I = {}
               /\ at # 0 => at \in I /\ \A i \in I : at <= i
  <1>1. I \in SUBSET Nat /\ 0 \notin I
    OBVIOUS
  <1>2. I # {} => Min(I) \in I /\ \A i \in I : Min(I) <= i
    BY <1>1, LeastNatural
  <1>3. QED
    BY <1>1, <1>2

(* Folds.  A walk over a sequence takes its positions from the last to the *)
(* first, so what it leaves behind is what holds of the empty set of       *)
(* positions and is kept when the largest one joins.                       *)
LEMMA LargestPosition ==
    ASSUME NEW n \in Nat, NEW s \in SUBSET (1..n), s # {}
    PROVE  Max(s) \in s
<1> DEFINE T == {n - i : i \in s}
<1>0. \A i \in s : n - i \in Nat
  OBVIOUS
<1>1. T \in SUBSET Nat /\ T # {}
  BY <1>0
<1>2. PICK i \in s : n - i = Min(T)
  BY <1>1, LeastNatural
<1>3. \A j \in s : n - j \in T
  OBVIOUS
<1>4. \A j \in s : i >= j
  BY <1>1, <1>2, <1>3, LeastNatural
<1> QED
  BY <1>4 DEF Max

\* What holds of no positions, and of some if without the largest, holds of any.
LEMMA PositionsInduction ==
    ASSUME NEW n \in Nat, NEW P, {} \in P,
           \A s \in SUBSET (1..n) : s # {} /\ s \ {Max(s)} \in P => s \in P
    PROVE  \A s \in SUBSET (1..n) : s \in P
<1> DEFINE T == {k \in Nat : \E s \in SUBSET (1..n) : s \notin P /\ Cardinality(s) = k}
<1>0. \A s \in SUBSET (1..n) : IsFiniteSet(s)
  <2>1. IsFiniteSet(1..n)
    BY FS_Interval
  <2> QED
    BY <2>1, FS_Subset
<1> SUFFICES ASSUME NEW r \in SUBSET (1..n), r \notin P PROVE FALSE
  OBVIOUS
<1>1. T # {} /\ T \in SUBSET Nat
  BY <1>0, FS_CardinalityType
<1>2. PICK s \in SUBSET (1..n) : s \notin P /\ Cardinality(s) = Min(T)
  BY <1>1, LeastNatural
<1>3. s # {} /\ Max(s) \in s
  BY <1>2, LargestPosition
<1> DEFINE u == s \ {Max(s)}
<1>4. Cardinality(u) = Cardinality(s) - 1 /\ Cardinality(u) \in Nat /\ Cardinality(s) \in Nat
  BY <1>0, <1>3, FS_RemoveElement, FS_CardinalityType
<1>5. u \in SUBSET (1..n) /\ u \notin P
  BY <1>2, <1>3
<1>6. Cardinality(u) \in T
  BY <1>4, <1>5
<1>7. Min(T) <= Cardinality(u)
  BY <1>1, <1>6, LeastNatural
<1> QED
  BY <1>2, <1>4, <1>7

\* The recursive function of a fold over 1..n, with an operation as a function.
FoldsWith(it, n, base, step) ==
    \A s \in SUBSET (1..n) :
        it[s] = IF s = {} THEN base ELSE step[<<it[s \ {Max(s)}], Max(s)>>]

\* The recursive function of a fold is there for every operation on a set St.
LEMMA FoldExists ==
    ASSUME NEW n \in Nat, NEW St, NEW base \in St, NEW step \in [St \X (1..n) -> St]
    PROVE  \E it \in [SUBSET (1..n) -> St] : FoldsWith(it, n, base, step)
<1> DEFINE D(k) == {s \in SUBSET (1..n) : Cardinality(s) <= k}
<1> DEFINE Value(it, s) == IF s = {} THEN base ELSE step[<<it[s \ {Max(s)}], Max(s)>>]
<1> DEFINE Ok(k) == \E it \in [D(k) -> St] : \A s \in D(k) : it[s] = Value(it, s)
<1> DEFINE T == {k \in Nat : ~Ok(k)}
<1>0. \A s \in SUBSET (1..n) : /\ IsFiniteSet(s) /\ Cardinality(s) \in Nat
                               /\ Cardinality(s) <= n
  <2>1. IsFiniteSet(1..n) /\ Cardinality(1..n) = n
    BY FS_Interval
  <2> SUFFICES ASSUME NEW s \in SUBSET (1..n)
               PROVE  IsFiniteSet(s) /\ Cardinality(s) \in Nat /\ Cardinality(s) <= n
    OBVIOUS
  <2>2. IsFiniteSet(s) /\ Cardinality(s) <= Cardinality(1..n)
    BY <2>1, FS_Subset
  <2> QED
    BY <2>1, <2>2, FS_CardinalityType
<1>1. \A k \in Nat : Ok(k)
  <2> SUFFICES ASSUME T # {} PROVE FALSE
    OBVIOUS
  <2>1. PICK k \in Nat : k = Min(T) /\ ~Ok(k) /\ \A j \in T : k <= j
    BY LeastNatural
  <2>2. ASSUME k = 0 PROVE FALSE
    <3>1. \A s \in D(0) : s = {}
      BY <1>0, FS_EmptySet
    <3> DEFINE it == [s \in D(0) |-> base]
    <3>2. it \in [D(0) -> St] /\ \A s \in D(0) : it[s] = Value(it, s)
      BY <3>1
    <3>3. Ok(0)
      BY <3>2
    <3> HIDE DEF Ok
    <3> QED
      BY <2>1, <2>2, <3>3
  <2>3. Ok(k - 1)
    <3>1. k - 1 \in Nat /\ ~(k <= k - 1)
      BY <2>1, <2>2
    <3>2. k - 1 \notin T
      BY <2>1, <3>1
    <3> HIDE DEF Ok
    <3> QED
      BY <3>1, <3>2
  <2>4. PICK old \in [D(k - 1) -> St] : \A s \in D(k - 1) : old[s] = Value(old, s)
    BY <2>3
  <2>5. ASSUME NEW s \in D(k), s # {}
        PROVE  Max(s) \in 1..n /\ s \ {Max(s)} \in D(k - 1)
    <3>1. Max(s) \in s
      BY <2>5, LargestPosition
    <3>2. Cardinality(s \ {Max(s)}) = Cardinality(s) - 1
      BY <1>0, <3>1, FS_RemoveElement
    <3>3. Max(s) \in 1..n /\ s \ {Max(s)} \in SUBSET (1..n)
      BY <3>1
    <3>4. Cardinality(s) <= k /\ Cardinality(s) \in Nat
      BY <1>0
    <3>5. Cardinality(s \ {Max(s)}) <= k - 1
      BY <3>2, <3>4
    <3> QED
      BY <3>3, <3>5
  <2> DEFINE it == [s \in D(k) |-> Value(old, s)]
  <2>6. it \in [D(k) -> St]
    <3> SUFFICES ASSUME NEW s \in D(k) PROVE Value(old, s) \in St
      OBVIOUS
    <3>1. CASE s = {}
      BY <3>1
    <3>2. CASE s # {}
      BY <3>2, <2>5
    <3> QED
      BY <3>1, <3>2
  <2>7. \A s \in D(k - 1) : s \in D(k) /\ it[s] = old[s]
    <3>1. \A s \in D(k - 1) : s \in D(k)
      BY <1>0, <2>1
    <3> QED
      BY <3>1, <2>4
  <2>8. \A s \in D(k) : it[s] = Value(it, s)
    BY <2>5, <2>7
  <2>9. Ok(k)
    BY <2>6, <2>8
  <2> QED
    BY <2>1, <2>9
<1>2. n \in Nat /\ D(n) = SUBSET (1..n)
  BY <1>0
<1>3. Ok(n)
  BY <1>1
<1> QED
  BY <1>2, <1>3 DEF FoldsWith

-----------------------------------------------------------------------------
(* The positions of a list a walk keeps, counted off in order: every count *)
(* up to their number is the rank of one of them, because ranks of         *)
(* different positions differ.                                             *)
LEMMA InOrderProperties ==
    ASSUME NEW n \in Nat, NEW I \in SUBSET (1..n)
    PROVE  /\ IsFiniteSet(I)
           /\ Cardinality(I) \in Nat
           /\ InOrder(I) \in [1..Cardinality(I) -> I]
           /\ \A i \in I : \E k \in 1..Cardinality(I) : InOrder(I)[k] = i
           /\ \A k, l \in 1..Cardinality(I) :
                 InOrder(I)[k] = InOrder(I)[l] => k = l
  <1> DEFINE Below(i) == {j \in I : j <= i}
  <1> DEFINE N == Cardinality(I)
  <1> DEFINE rank == [i \in I |-> Cardinality(Below(i))]
  <1>0. \A i \in I : i \in Int
    OBVIOUS
  <1>1. IsFiniteSet(I) /\ N \in Nat
    <2>1. IsFiniteSet(1..n)
      BY FS_Interval
    <2>2. IsFiniteSet(I)
      BY <2>1, FS_Subset
    <2>3. QED
      BY <2>2, FS_CardinalityType
  <1>2. \A i \in I : /\ IsFiniteSet(Below(i))
                     /\ Cardinality(Below(i)) \in 1..N
    <2> SUFFICES ASSUME NEW i \in I
                 PROVE  /\ IsFiniteSet(Below(i))
                        /\ Cardinality(Below(i)) \in 1..N
      OBVIOUS
    <2>1. Below(i) \in SUBSET I /\ i \in Below(i)
      OBVIOUS
    <2>2. IsFiniteSet(Below(i)) /\ Cardinality(Below(i)) <= N
      BY <2>1, <1>1, FS_Subset
    <2>3. Cardinality(Below(i)) \in Nat /\ Cardinality(Below(i)) # 0
      BY <2>1, <2>2, FS_CardinalityType, FS_EmptySet
    <2>4. QED
      BY <2>2, <2>3, <1>1
  <1>3. \A i, j \in I : i < j => Cardinality(Below(i)) # Cardinality(Below(j))
    <2> SUFFICES ASSUME NEW i \in I, NEW j \in I, i < j
                 PROVE  Cardinality(Below(i)) # Cardinality(Below(j))
      OBVIOUS
    <2>1. \A k \in I : k <= i => k <= j
      BY <1>0
    <2>2. Below(i) \in SUBSET Below(j)
      BY <2>1
    <2>3. j \in Below(j) /\ j \notin Below(i)
      BY <1>0
    <2>4. IsFiniteSet(Below(j))
      BY <1>2
    <2>5. QED
      BY <2>2, <2>3, <2>4, FS_Subset
  <1>4. rank \in Injection(I, 1..N)
    <2>1. rank \in [I -> 1..N]
      BY <1>2
    <2>2. \A i, j \in I : rank[i] = rank[j] => i = j
      BY <1>3
    <2>3. QED
      BY <2>1, <2>2 DEF Injection, IsInjective
  <1>5. rank \in Surjection(I, 1..N)
    <2>1. IsFiniteSet(1..N) /\ Cardinality(1..N) = N
      BY <1>1, FS_Interval
    <2>2. QED
      BY <1>4, <2>1, FS_Injection
  <1>6. \A k \in 1..N : \E i \in I : Cardinality(Below(i)) = k
    BY <1>5 DEF Surjection
  <1>7. \A k \in 1..N : /\ InOrder(I)[k] \in I
                        /\ Cardinality(Below(InOrder(I)[k])) = k
    BY <1>6 DEF InOrder
  <1>8. InOrder(I) \in [1..N -> I]
    BY <1>7 DEF InOrder
  <1>9. \A i \in I : \E k \in 1..N : InOrder(I)[k] = i
    <2> SUFFICES ASSUME NEW i \in I PROVE \E k \in 1..N : InOrder(I)[k] = i
      OBVIOUS
    <2> DEFINE k == Cardinality(Below(i))
    <2>1. k \in 1..N
      BY <1>2
    <2>2. InOrder(I)[k] \in I /\ Cardinality(Below(InOrder(I)[k])) = k
      BY <2>1, <1>7
    <2>3. \A a, b \in I : a # b => a < b \/ b < a
      BY <1>0
    <2>4. InOrder(I)[k] = i
      BY <2>2, <2>3, <1>3
    <2>5. QED
      BY <2>1, <2>4
  <1>10. QED
    BY <1>1, <1>7, <1>8, <1>9

(* Keeping the entries at some positions of a list: the result is a list   *)
(* of exactly those entries.                                               *)
LEMMA KeptProperties ==
    ASSUME NEW S, NEW db \in Seq(S), NEW I \in SUBSET DOMAIN db
    PROVE  LET J    == InOrder(I)
               kept == [n \in DOMAIN J |-> db[J[n]]]
           IN  /\ kept \in Seq(S)
               /\ ToSet(kept) = {db[i] : i \in I}
               /\ \A k \in DOMAIN kept :
                     J[k] \in I /\ kept[k] = db[J[k]]
               /\ \A k, l \in DOMAIN kept : J[k] = J[l] => k = l
  <1> DEFINE J == InOrder(I)
  <1> DEFINE kept == [n \in DOMAIN J |-> db[J[n]]]
  <1>1. Len(db) \in Nat /\ DOMAIN db = 1..Len(db) /\ \A i \in DOMAIN db : db[i] \in S
    BY LenProperties, ElementOfSeq
  <1>2. /\ Cardinality(I) \in Nat
        /\ J \in [1..Cardinality(I) -> I]
        /\ \A i \in I : \E k \in 1..Cardinality(I) : J[k] = i
        /\ \A k, l \in 1..Cardinality(I) : J[k] = J[l] => k = l
    BY <1>1, InOrderProperties
  <1>3. kept \in [1..Cardinality(I) -> S]
    BY <1>1, <1>2
  <1>4. kept \in Seq(S)
    BY <1>2, <1>3
  <1>5. \A k \in DOMAIN kept : J[k] \in I /\ kept[k] = db[J[k]]
    BY <1>2, <1>3
  <1>6. ToSet(kept) = {db[i] : i \in I}
    <2>1. ToSet(kept) = {kept[k] : k \in DOMAIN kept}
      BY DEF ToSet
    <2>2. \A i \in I : \E k \in DOMAIN kept : kept[k] = db[i]
      BY <1>2, <1>3
    <2>3. QED
      BY <2>1, <2>2, <1>5
  <1>7. QED
    BY <1>2, <1>3, <1>4, <1>5, <1>6

\* Removing one position of a list.
LEMMA RemoveAtProperties ==
    ASSUME NEW S, NEW db \in Seq(S), NEW i \in 1..Len(db)
    PROVE  /\ RemoveAt(db, i) \in Seq(S)
           /\ Len(RemoveAt(db, i)) = Len(db) - 1
           /\ \A k \in 1..(Len(db) - 1) :
                 RemoveAt(db, i)[k] = db[IF k < i THEN k ELSE k + 1]
  <1> DEFINE before == SubSeq(db, 1, i - 1)
  <1> DEFINE after == SubSeq(db, i + 1, Len(db))
  <1>1. Len(db) \in Nat /\ \A k \in 1..Len(db) : db[k] \in S
    BY LenProperties, ElementOfSeq
  <1>2. /\ before \in Seq(S)
        /\ Len(before) = i - 1
        /\ \A k \in 1..(i - 1) : before[k] = db[k]
    <2>1. \A k \in 1..(i - 1) : db[k] \in S
      BY <1>1
    <2>2. QED
      BY <1>1, <2>1, SubSeqProperties
  <1>3. /\ after \in Seq(S)
        /\ Len(after) = Len(db) - i
        /\ \A k \in 1..(Len(db) - i) : after[k] = db[i + k]
    <2>1. \A k \in (i + 1)..Len(db) : db[k] \in S
      BY <1>1
    <2>2. /\ after \in Seq(S)
          /\ Len(after) = IF i + 1 <= Len(db) THEN Len(db) - (i + 1) + 1 ELSE 0
          /\ \A k \in 1..(Len(db) - (i + 1) + 1) : after[k] = db[(i + 1) + k - 1]
      BY <1>1, <2>1, SubSeqProperties
    <2>3. QED
      BY <1>1, <2>2
  <1>4. RemoveAt(db, i) = before \o after
    BY DEF RemoveAt
  <1> HIDE DEF before, after
  <1>5. /\ before \o after \in Seq(S)
        /\ Len(before \o after) = Len(before) + Len(after)
        /\ \A k \in 1..(Len(before) + Len(after)) : (before \o after)[k] =
              IF k <= Len(before) THEN before[k] ELSE after[k - Len(before)]
    BY <1>2, <1>3, ConcatProperties
  <1>6. \A k \in 1..(Len(db) - 1) :
          (before \o after)[k] = db[IF k < i THEN k ELSE k + 1]
    <2> SUFFICES ASSUME NEW k \in 1..(Len(db) - 1)
                 PROVE  (before \o after)[k] = db[IF k < i THEN k ELSE k + 1]
      OBVIOUS
    <2>1. CASE k < i
      BY <2>1, <1>1, <1>2, <1>3, <1>5
    <2>2. CASE ~(k < i)
      <3>1. k - (i - 1) \in 1..(Len(db) - i)
        BY <2>2, <1>1
      <3>2. after[k - (i - 1)] = db[i + (k - (i - 1))]
        BY <3>1, <1>3
      <3>3. i + (k - (i - 1)) = k + 1
        BY <1>1
      <3>4. QED
        BY <2>2, <3>2, <3>3, <1>1, <1>2, <1>3, <1>5
    <2>3. QED
      BY <2>1, <2>2
  <1>7. QED
    BY <1>1, <1>2, <1>3, <1>4, <1>5, <1>6

\* A value that is new to a sequence without repetitions joins it at the end.
LEMMA AppendNew ==
    ASSUME NEW S, NEW t \in Seq(S), IsInjective(t), NEW u, u \notin ToSet(t)
    PROVE  /\ Append(t, u) \in Seq(S \cup {u}) /\ Append(t, u) # <<>>
           /\ IsInjective(Append(t, u)) /\ ToSet(Append(t, u)) = ToSet(t) \cup {u}
           /\ Len(Append(t, u)) = Len(t) + 1 /\ Append(t, u)[Len(t) + 1] = u
           /\ \A i \in 1..Len(t) : Append(t, u)[i] = t[i] /\ t[i] \in S
<1> DEFINE a == Append(t, u)
<1>1. Len(t) \in Nat /\ DOMAIN t = 1..Len(t) /\ \A i \in 1..Len(t) : t[i] \in S
  BY LenProperties
<1>2. t \in Seq(S \cup {u})
  BY <1>1
<1>3. /\ a \in Seq(S \cup {u}) /\ a # <<>>
      /\ Len(a) = Len(t) + 1 /\ DOMAIN a = 1..Len(t) + 1 /\ a[Len(t) + 1] = u
      /\ \A i \in 1..Len(t) : a[i] = t[i]
  BY <1>1, <1>2, AppendProperties, LenProperties
<1> HIDE DEF a
<1>4. IsInjective(a)
  <2> SUFFICES ASSUME NEW i \in 1..Len(t) + 1, NEW j \in 1..Len(t) + 1, a[i] = a[j]
               PROVE  i = j
    BY <1>3 DEF IsInjective
  <2>1. \A k \in 1..Len(t) : t[k] # u
    BY <1>1 DEF ToSet
  <2> QED
    BY <1>1, <1>3, <2>1 DEF IsInjective
<1>5. ToSet(a) = ToSet(t) \cup {u}
  BY <1>1, <1>3 DEF ToSet
<1> QED
  BY <1>1, <1>3, <1>4, <1>5 DEF a

\* The first of a value's occurrences goes.
LEMMA RemoveFirstProperties ==
    ASSUME NEW S, NEW t \in Seq(S), NEW u
    PROVE  /\ RemoveFirst(t, u) \in Seq(S)
           /\ IsInjective(t) => IsInjective(RemoveFirst(t, u)) /\ u \notin ToSet(RemoveFirst(t, u))
<1>1. Len(t) \in Nat /\ DOMAIN t = 1..Len(t) /\ \A i \in 1..Len(t) : t[i] \in S
  BY LenProperties
<1>2. CASE ~(\E i \in 1..Len(t) : t[i] = u)
  <2>1. RemoveFirst(t, u) = t
    BY <1>2 DEF RemoveFirst
  <2> QED
    BY <1>1, <1>2, <2>1 DEF ToSet
<1>3. CASE \E i \in 1..Len(t) : t[i] = u
  <2> DEFINE I == {i \in 1..Len(t) : t[i] = u}
             k == Min(I)
             r == RemoveAt(t, k)
  <2>1. RemoveFirst(t, u) = r
    BY <1>3 DEF RemoveFirst, SelectInSeq
  <2>2. I \in SUBSET Nat /\ I # {}
    BY <1>1, <1>3
  <2>3. k \in I
    <3> HIDE DEF I
    <3> QED
      BY <2>2, LeastNatural
  <2>4. k \in 1..Len(t) /\ t[k] = u
    BY <2>3
  <2> HIDE DEF I, k
  <2>5. /\ r \in Seq(S) /\ Len(r) = Len(t) - 1
        /\ \A i \in 1..(Len(t) - 1) : r[i] = t[IF i < k THEN i ELSE i + 1]
    BY <2>4, RemoveAtProperties
  <2>6. DOMAIN r = 1..(Len(t) - 1)
    BY <2>5, LenProperties
  <2> HIDE DEF r
  <2>7. ASSUME IsInjective(t) PROVE IsInjective(r) /\ u \notin ToSet(r)
    <3>1. \A i, j \in 1..Len(t) : t[i] = t[j] => i = j
      BY <1>1, <2>7 DEF IsInjective
    <3>2. \A i \in 1..(Len(t) - 1) : IF i < k THEN i \in 1..Len(t) ELSE i + 1 \in 1..Len(t)
      BY <1>1
    <3>3. \A i \in 1..(Len(t) - 1) : r[i] # u
      BY <2>4, <2>5, <3>1, <3>2
    <3>4. \A i, j \in 1..(Len(t) - 1) : r[i] = r[j] => i = j
      BY <2>4, <2>5, <3>1, <3>2
    <3> QED
      BY <2>6, <3>3, <3>4 DEF IsInjective, ToSet
  <2> QED
    BY <2>1, <2>5, <2>7
<1> QED
  BY <1>2, <1>3
=============================================================================
