------------------------ MODULE SlpdDatabase_proofs ------------------------
(***************************************************************************)
(* Proofs about SlpdDatabase, for every value of its constants: lists of   *)
(* any length, any number of services, scopes, clients and reg files.      *)
(***************************************************************************)
EXTENDS SlpdDatabase, SlpSequences

-----------------------------------------------------------------------------
(***************************************************************************)
(* What the operators of SlpdRegistrations return, for every list and      *)
(* every message.                                                          *)
(***************************************************************************)
(* Where the search for an identical entry stops: nowhere, or at the first *)
(* entry that matches.                                                     *)
LEMMA FirstMatchProperties ==
    ASSUME NEW S, NEW db \in Seq(S), NEW m
    PROVE  /\ FirstMatch(db, m) \in 0..Len(db)
           /\ FirstMatch(db, m) # 0 => Matches(db[FirstMatch(db, m)], m)
           /\ FirstMatch(db, m) = 0 => \A i \in 1..Len(db) : ~Matches(db[i], m)
  <1> DEFINE I == {i \in 1..Len(db) : Matches(db[i], m)}
  <1>1. FirstMatch(db, m) = IF I # {} THEN Min(I) ELSE 0
    BY DEF FirstMatch, SelectInSeq
  <1>2. I \in SUBSET (1..Len(db))
    OBVIOUS
  <1>3. /\ FirstMatch(db, m) = 0 <=> I = {}
        /\ FirstMatch(db, m) # 0 => FirstMatch(db, m) \in I
    <2> HIDE DEF I
    <2> QED
      BY <1>1, <1>2, FirstPosition
  <1>4. QED
    BY <1>3, LenProperties

\* What is not in the list any more stood at the position removed.
LEMMA RemovedEntry ==
    ASSUME NEW S, NEW db \in Seq(S), NEW i \in 1..Len(db),
           NEW e \in ToSet(db) \ ToSet(RemoveAt(db, i))
    PROVE  e = db[i]
  <1> DEFINE removed == RemoveAt(db, i)
  <1>1. Len(db) \in Nat /\ DOMAIN db = 1..Len(db)
    BY LenProperties
  <1>2. /\ removed \in Seq(S)
        /\ DOMAIN removed = 1..(Len(db) - 1)
        /\ \A k \in 1..(Len(db) - 1) : removed[k] = db[IF k < i THEN k ELSE k + 1]
    BY RemoveAtProperties, LenProperties
  <1> HIDE DEF removed
  <1>3. PICK k \in 1..Len(db) : e = db[k]
    BY <1>1 DEF ToSet
  <1>4. \A l \in DOMAIN removed : removed[l] # e
    BY DEF ToSet, removed
  <1>5. ~(k < i)
    BY <1>1, <1>2, <1>3, <1>4
  <1>6. ~(i < k)
    <2> SUFFICES ASSUME i < k PROVE FALSE
      OBVIOUS
    <2>1. k - 1 \in 1..(Len(db) - 1) /\ ~(k - 1 < i) /\ (k - 1) + 1 = k
      BY <1>1
    <2>2. removed[k - 1] = db[k]
      BY <1>2, <2>1
    <2>3. QED
      BY <1>2, <1>3, <1>4, <2>1, <2>2
  <1>7. k = i
    BY <1>1, <1>5, <1>6
  <1>8. QED
    BY <1>3, <1>7

-----------------------------------------------------------------------------
\* The entry a registration becomes is one, and is mortal if it asked to be.
LEMMA NewEntryProperties ==
    ASSUME NEW m \in SrvReg
    PROVE  /\ NewEntry(m) \in Entry
           /\ m.wire < MaxLifetime => NewEntry(m).lifetime < MaxLifetime
           /\ NewEntry(m).wire = m.wire
           /\ NewEntry(m).url = m.url
           /\ NewEntry(m).scopes = m.scopes
  <1>1. MaxLifetime \in Nat /\ AgeInterval \in Nat \ {0} /\ MaxLifetime > AgeInterval
    BY RegistrationsAssumption DEF RegistrationsAssumption
  <1>2. m.wire \in 0..MaxLifetime
    BY DEF SrvReg, Lifetime
  <1>3. /\ FixupLifetime(m.wire) \in 0..MaxLifetime
        /\ m.wire < MaxLifetime => FixupLifetime(m.wire) < MaxLifetime
    BY <1>1, <1>2 DEF FixupLifetime
  <1>4. SourceOf(m.peer) \in Source
    BY DEF SourceOf, Source
  <1>5. QED
    BY <1>3, <1>4 DEF NewEntry, Entry, SrvReg, Lifetime

\* The list a registration leaves, over any set that holds what it adds.
LEMMA RegisteredProperties ==
    ASSUME NEW S, NEW db \in Seq(S), NEW m, NewEntry(m) \in S
    PROVE  Registered(db, m) \in Seq(S)
  <1>1. FirstMatch(db, m) \in 0..Len(db) /\ Len(db) \in Nat
    BY FirstMatchProperties, LenProperties
  <1>2. FirstMatch(db, m) # 0 => RemoveAt(db, FirstMatch(db, m)) \in Seq(S)
    BY <1>1, RemoveAtProperties
  <1>3. QED
    BY <1>2, AppendProperties DEF Registered

\* The list a deregistration leaves.
LEMMA DeregisteredProperties ==
    ASSUME NEW S, NEW db \in Seq(S), NEW m, FirstMatch(db, m) # 0
    PROVE  Deregistered(db, m) \in Seq(S)
  <1>1. FirstMatch(db, m) \in 1..Len(db)
    BY FirstMatchProperties, LenProperties
  <1>2. QED
    BY <1>1, RemoveAtProperties DEF Deregistered

\* An entry that is not dropped has an interval left to lose, and stays what it is.
LEMMA AgedProperties ==
    ASSUME NEW e \in Entry, NEW ageall, ~Expires(e, ageall)
    PROVE  /\ Aged(e, ageall) \in Entry
           /\ Aged(e, ageall).lifetime <= e.lifetime
           /\ Aged(e, ageall).wire = e.wire
           /\ Aged(e, ageall).url = e.url
           /\ Aged(e, ageall).scopes = e.scopes
  <1>1. MaxLifetime \in Nat /\ AgeInterval \in Nat \ {0}
    BY RegistrationsAssumption DEF RegistrationsAssumption
  <1>2. e.lifetime \in 0..MaxLifetime
    BY DEF Entry, Lifetime
  <1>3. CASE Immortal(e, ageall)
    BY <1>1, <1>2, <1>3 DEF Aged, Entry
  <1>4. CASE ~Immortal(e, ageall)
    <2>1. e.lifetime - AgeInterval \in 0..MaxLifetime
      BY <1>1, <1>2, <1>4 DEF Expires
    <2>2. QED
      BY <1>1, <1>2, <1>4, <2>1 DEF Aged, Entry, Lifetime
  <1>5. QED
    BY <1>3, <1>4

(* What SLPDDatabaseAge leaves: the entries it does not drop, aged.        *)
LEMMA AgedListProperties ==
    ASSUME NEW S, NEW T, NEW db \in Seq(S), NEW pids, NEW ageall,
           \A e \in S : ~Dropped(e, pids, ageall) => Aged(e, ageall) \in T
    PROVE  /\ AgedList(db, pids, ageall) \in Seq(T)
           /\ ToSet(AgedList(db, pids, ageall)) =
                {Aged(e, ageall) : e \in {f \in ToSet(db) : ~Dropped(f, pids, ageall)}}
  <1> DEFINE I == {i \in DOMAIN db : ~Dropped(db[i], pids, ageall)}
  <1> DEFINE J == InOrder(I)
  <1> DEFINE kept == [n \in DOMAIN J |-> db[J[n]]]
  <1> DEFINE aged == [n \in DOMAIN kept |-> Aged(kept[n], ageall)]
  <1>1. AgedList(db, pids, ageall) = aged
    BY DEF AgedList, Dropping
  <1>0. I \in SUBSET DOMAIN db
    OBVIOUS
  <1>2. /\ kept \in Seq(S)
        /\ ToSet(kept) = {db[i] : i \in I}
    <2> HIDE DEF I
    <2>1. QED
      BY <1>0, KeptProperties
  <1> HIDE DEF kept
  <1>3. ToSet(kept) = {e \in ToSet(db) : ~Dropped(e, pids, ageall)}
    BY <1>2 DEF ToSet
  <1>4. Len(kept) \in Nat /\ DOMAIN kept = 1..Len(kept) /\ kept \in [1..Len(kept) -> S]
    BY <1>2, LenProperties
  <1>5. \A n \in DOMAIN kept : kept[n] \in S /\ ~Dropped(kept[n], pids, ageall)
    BY <1>3, <1>4 DEF ToSet
  <1>6. aged \in [1..Len(kept) -> T]
    BY <1>4, <1>5
  <1>7. aged \in Seq(T)
    BY <1>4, <1>6
  <1>8. ToSet(aged) = {Aged(e, ageall) : e \in ToSet(kept)}
    BY DEF ToSet
  <1>9. QED
    BY <1>1, <1>3, <1>7, <1>8

\* What the first loop of SLPDDatabaseReInit leaves.
LEMMA ClientsOnlyProperties ==
    ASSUME NEW S, NEW db \in Seq(S)
    PROVE  /\ ClientsOnly(db) \in Seq(S)
           /\ ToSet(ClientsOnly(db)) = {e \in ToSet(db) : e.source # "STATIC"}
  <1> DEFINE I == {i \in DOMAIN db : ~(db[i].source = "STATIC")}
  <1> DEFINE J == InOrder(I)
  <1> DEFINE kept == [n \in DOMAIN J |-> db[J[n]]]
  <1>1. ClientsOnly(db) = kept
    BY DEF ClientsOnly, Dropping
  <1>0. I \in SUBSET DOMAIN db
    OBVIOUS
  <1>2. kept \in Seq(S) /\ ToSet(kept) = {db[i] : i \in I}
    <2> HIDE DEF I
    <2>1. QED
      BY <1>0, KeptProperties
  <1> HIDE DEF kept
  <1>3. QED
    BY <1>1, <1>2 DEF ToSet

-----------------------------------------------------------------------------
(***************************************************************************)
(* One registration for a service.  The lemmas assume that every entry of  *)
(* the list which matches the message has the very scopes of the message:  *)
(* then all of its matches match one another, and a list with one entry    *)
(* for a service holds at most one of them.                                *)
(***************************************************************************)
LEMMA OnlyMatch ==
    ASSUME NEW S, NEW db \in Seq(S), NEW m, OnePerService(db),
           \A e \in S : Matches(e, m) => e.scopes = m.scopes
    PROVE  \A k \in DOMAIN db : Matches(db[k], m) => k = FirstMatch(db, m)
  <1> DEFINE i == FirstMatch(db, m)
  <1> SUFFICES ASSUME NEW k \in DOMAIN db, Matches(db[k], m), k # i PROVE FALSE
    OBVIOUS
  <1>1. /\ DOMAIN db = 1..Len(db)
        /\ \A j \in 1..Len(db) : db[j] \in S
    BY LenProperties, ElementOfSeq
  <1>2. i \in DOMAIN db /\ Matches(db[i], m)
    BY <1>1, FirstMatchProperties, LenProperties
  <1> HIDE DEF i
  <1>3. db[k].scopes = m.scopes /\ db[i].scopes = m.scopes
    BY <1>1, <1>2
  <1>4. Matches(db[k], db[i])
    BY <1>2, <1>3 DEF Matches
  <1>5. QED
    BY <1>2, <1>4 DEF OnePerService

\* With one entry per service, to remove the first match is to remove them all.
LEMMA RemoveMatch ==
    ASSUME NEW S, NEW db \in Seq(S), NEW m, OnePerService(db),
           FirstMatch(db, m) # 0,
           \A e \in S : Matches(e, m) => e.scopes = m.scopes
    PROVE  /\ OnePerService(RemoveAt(db, FirstMatch(db, m)))
           /\ ToSet(RemoveAt(db, FirstMatch(db, m))) =
                 {e \in ToSet(db) : ~Matches(e, m)}
  <1> DEFINE i == FirstMatch(db, m)
  <1> DEFINE removed == RemoveAt(db, i)
  <1>1. i \in 1..Len(db) /\ Matches(db[i], m)
    BY FirstMatchProperties, LenProperties
  <1>2. /\ Len(db) \in Nat /\ DOMAIN db = 1..Len(db)
        /\ \A k \in 1..Len(db) : db[k] \in S
    BY LenProperties, ElementOfSeq
  <1> HIDE DEF i
  <1>3. /\ removed \in Seq(S)
        /\ Len(removed) = Len(db) - 1
        /\ \A k \in 1..(Len(db) - 1) :
              removed[k] = db[IF k < i THEN k ELSE k + 1]
    BY <1>1, RemoveAtProperties
  <1>4. DOMAIN removed = 1..(Len(db) - 1)
    BY <1>3, LenProperties
  <1> HIDE DEF removed
  <1>5. \A k \in 1..Len(db) : k # i => ~Matches(db[k], m)
    BY <1>2, OnlyMatch DEF i
  \* The positions of the shorter list are the others of the longer one.
  <1> DEFINE from(k) == IF k < i THEN k ELSE k + 1
  <1>6. \A k \in DOMAIN removed :
          from(k) \in 1..Len(db) /\ from(k) # i /\ removed[k] = db[from(k)]
    BY <1>1, <1>2, <1>3, <1>4
  <1>7. \A k, l \in DOMAIN removed : k # l => from(k) # from(l)
    BY <1>1, <1>2, <1>4
  <1>8. \A k \in 1..Len(db) : k # i => \E l \in DOMAIN removed : from(l) = k
    <2> SUFFICES ASSUME NEW k \in 1..Len(db), k # i
                 PROVE  \E l \in DOMAIN removed : from(l) = k
      OBVIOUS
    <2>1. CASE k < i
      <3>1. k \in DOMAIN removed /\ from(k) = k
        BY <1>1, <1>2, <1>4, <2>1
      <3>2. QED
        BY <3>1
    <2>2. CASE ~(k < i)
      <3>1. k - 1 \in DOMAIN removed /\ from(k - 1) = k
        BY <1>1, <1>2, <1>4, <2>2
      <3>2. QED
        BY <3>1
    <2>3. QED
      BY <2>1, <2>2
  <1> HIDE DEF from
  <1>9. OnePerService(removed)
    BY <1>2, <1>6, <1>7 DEF OnePerService
  <1>10. ToSet(removed) = {e \in ToSet(db) : ~Matches(e, m)}
    <2>1. ASSUME NEW e \in ToSet(removed) PROVE e \in ToSet(db) /\ ~Matches(e, m)
      BY <1>2, <1>5, <1>6, <2>1 DEF ToSet
    <2>2. ASSUME NEW e \in ToSet(db), ~Matches(e, m) PROVE e \in ToSet(removed)
      <3>1. PICK k \in 1..Len(db) : e = db[k]
        BY <1>2 DEF ToSet
      <3>2. PICK l \in DOMAIN removed : from(l) = k
        BY <1>1, <1>8, <2>2, <3>1
      <3>3. QED
        BY <1>6, <3>1, <3>2 DEF ToSet
    <2>3. QED
      BY <2>1, <2>2
  <1>11. QED
    BY <1>9, <1>10 DEF i, removed

\* A registration keeps one entry for a service, and replaces the older one.
LEMMA RegisteredUnique ==
    ASSUME NEW S, NEW db \in Seq(S), NEW m, OnePerService(db),
           NewEntry(m) \in S,
           \A e \in S : Matches(e, m) => e.scopes = m.scopes
    PROVE  /\ OnePerService(Registered(db, m))
           /\ ToSet(Registered(db, m)) =
                {e \in ToSet(db) : ~Matches(e, m)} \cup {NewEntry(m)}
  <1> DEFINE others == IF FirstMatch(db, m) = 0 THEN db
                       ELSE RemoveAt(db, FirstMatch(db, m))
  <1>1. /\ others \in Seq(S)
        /\ OnePerService(others)
        /\ ToSet(others) = {e \in ToSet(db) : ~Matches(e, m)}
    <2>1. CASE FirstMatch(db, m) = 0
      <3>1. \A e \in ToSet(db) : ~Matches(e, m)
        BY <2>1, FirstMatchProperties, LenProperties DEF ToSet
      <3>2. QED
        BY <2>1, <3>1
    <2>2. CASE FirstMatch(db, m) # 0
      <3>1. FirstMatch(db, m) \in 1..Len(db)
        BY <2>2, FirstMatchProperties, LenProperties
      <3>2. QED
        BY <2>2, <3>1, RemoveMatch, RemoveAtProperties
    <2>3. QED
      BY <2>1, <2>2
  <1>2. Registered(db, m) = Append(others, NewEntry(m))
    BY DEF Registered
  <1> HIDE DEF others
  <1> DEFINE new == Append(others, NewEntry(m))
  <1>3. Len(others) \in Nat /\ DOMAIN others = 1..Len(others)
    BY <1>1, LenProperties
  <1>4. /\ DOMAIN new = 1..(Len(others) + 1)
        /\ \A k \in 1..Len(others) : new[k] = others[k]
        /\ new[Len(others) + 1] = NewEntry(m)
    BY <1>1, AppendProperties, LenProperties
  <1> HIDE DEF new
  <1>5. ToSet(new) = ToSet(others) \cup {NewEntry(m)}
    <2>1. \A k \in DOMAIN new : k \in DOMAIN others \/ k = Len(others) + 1
      BY <1>3, <1>4
    <2>2. Len(others) + 1 \in DOMAIN new /\ DOMAIN others \subseteq DOMAIN new
      BY <1>3, <1>4
    <2>3. QED
      BY <1>3, <1>4, <2>1, <2>2 DEF ToSet
  <1>6. OnePerService(new)
    <2>1. \A e \in ToSet(others) : ~Matches(e, NewEntry(m)) /\ ~Matches(NewEntry(m), e)
      BY <1>1 DEF Matches, NewEntry
    <2>2. \A k \in 1..Len(others) : /\ ~Matches(new[k], new[Len(others) + 1])
                                    /\ ~Matches(new[Len(others) + 1], new[k])
      BY <1>3, <1>4, <2>1 DEF ToSet
    <2>3. \A k, l \in 1..Len(others) : k # l => ~Matches(new[k], new[l])
      BY <1>1, <1>3, <1>4 DEF OnePerService
    <2>4. \A k \in DOMAIN new : k \in 1..Len(others) \/ k = Len(others) + 1
      BY <1>3, <1>4
    <2>5. QED
      BY <2>2, <2>3, <2>4 DEF OnePerService
  <1>7. QED
    BY <1>1, <1>2, <1>5, <1>6 DEF new

\* Aging changes no URL and no scope list, and keeps the order.
LEMMA AgedListUnique ==
    ASSUME NEW db \in Seq(Entry), NEW pids, NEW ageall, OnePerService(db)
    PROVE  OnePerService(AgedList(db, pids, ageall))
  <1> DEFINE I == {i \in DOMAIN db : ~Dropped(db[i], pids, ageall)}
  <1> DEFINE J == InOrder(I)
  <1> DEFINE kept == [n \in DOMAIN J |-> db[J[n]]]
  <1> DEFINE aged == [n \in DOMAIN kept |-> Aged(kept[n], ageall)]
  <1>1. AgedList(db, pids, ageall) = aged
    BY DEF AgedList, Dropping
  <1>2. I \in SUBSET DOMAIN db
    OBVIOUS
  <1>3. /\ \A k \in DOMAIN kept : J[k] \in I /\ kept[k] = db[J[k]]
        /\ \A k, l \in DOMAIN kept : J[k] = J[l] => k = l
    <2> HIDE DEF I
    <2>1. QED
      BY <1>2, KeptProperties
  <1>4. \A i \in DOMAIN db : db[i] \in Entry
    BY LenProperties, ElementOfSeq
  <1>5. \A k \in DOMAIN kept : kept[k] \in Entry /\ ~Expires(kept[k], ageall)
    BY <1>3, <1>4 DEF Dropped
  <1> HIDE DEF J, kept
  <1>6. \A k \in DOMAIN aged : /\ aged[k].url = kept[k].url
                               /\ aged[k].scopes = kept[k].scopes
    BY <1>5, AgedProperties
  <1>7. \A k, l \in DOMAIN kept : k # l => ~Matches(kept[k], kept[l])
    BY <1>3 DEF OnePerService
  <1>8. \A k, l \in DOMAIN aged : k # l => ~Matches(aged[k], aged[l])
    <2>1. DOMAIN aged = DOMAIN kept
      OBVIOUS
    <2>2. QED
      BY <1>6, <1>7, <2>1 DEF Matches
  <1>9. QED
    BY <1>1, <1>8 DEF OnePerService

\* Dropping the static entries leaves no service twice.
LEMMA ClientsOnlyUnique ==
    ASSUME NEW S, NEW db \in Seq(S), OnePerService(db)
    PROVE  OnePerService(ClientsOnly(db))
  <1> DEFINE I == {i \in DOMAIN db : ~(db[i].source = "STATIC")}
  <1> DEFINE J == InOrder(I)
  <1> DEFINE kept == [n \in DOMAIN J |-> db[J[n]]]
  <1>1. ClientsOnly(db) = kept
    BY DEF ClientsOnly, Dropping
  <1>2. I \in SUBSET DOMAIN db
    OBVIOUS
  <1>3. /\ \A k \in DOMAIN kept : J[k] \in I /\ kept[k] = db[J[k]]
        /\ \A k, l \in DOMAIN kept : J[k] = J[l] => k = l
    <2> HIDE DEF I
    <2>1. QED
      BY <1>2, KeptProperties
  <1> HIDE DEF J, kept
  <1>4. QED
    BY <1>1, <1>3 DEF OnePerService

-----------------------------------------------------------------------------

(***************************************************************************)
(* What is true of every entry of the list, whichever way it got there: it *)
(* is well typed and has not become immortal by itself.  The set is closed *)
(* under a registration and under aging, so a list over it stays one.      *)
(***************************************************************************)
SoundEntry == {e \in Entry : e.wire < MaxLifetime => e.lifetime < MaxLifetime}

IInv == TypeOK /\ database \in Seq(SoundEntry)

-----------------------------------------------------------------------------
\* The fix-up keeps a mortal registration mortal,
LEMMA NewEntrySound ==
    ASSUME NEW m \in SrvReg
    PROVE  NewEntry(m) \in SoundEntry
  BY NewEntryProperties DEF SoundEntry

\* and aging only lowers what is left of it.
LEMMA AgedSound ==
    ASSUME NEW e \in SoundEntry, NEW ageall, ~Expires(e, ageall)
    PROVE  Aged(e, ageall) \in SoundEntry
  <1>1. /\ e \in Entry
        /\ e.wire < MaxLifetime => e.lifetime < MaxLifetime
    BY DEF SoundEntry
  <1>2. /\ Aged(e, ageall) \in Entry
        /\ Aged(e, ageall).lifetime <= e.lifetime
        /\ Aged(e, ageall).wire = e.wire
    BY <1>1, AgedProperties
  <1>3. MaxLifetime \in Int /\ e.lifetime \in Int /\ Aged(e, ageall).lifetime \in Int
    BY <1>1, <1>2, RegistrationsAssumption DEF RegistrationsAssumption, Entry, Lifetime
  <1>4. QED
    BY <1>1, <1>2, <1>3 DEF SoundEntry

\* The sockets: opening and closing them leaves a count for every group.
LEMMA ListeningTyped ==
    ASSUME listening \in [Groups -> Nat]
    PROVE  /\ \A t \in SrvType : AddService(t) \in [Groups -> Nat]
           /\ \A T : RemoveServices(T) \in [Groups -> Nat]
  <1>1. \A t \in SrvType : Group[t] \in Groups
    BY DEF Groups
  <1>2. QED
    BY <1>1 DEF AddService, RemoveServices

\* A registration keeps the types and mortality,
LEMMA DatabaseRegSound ==
    ASSUME IInv, NEW m \in SrvReg, DatabaseReg(m)
    PROVE  /\ database' \in Seq(SoundEntry)
           /\ listening' \in [Groups -> Nat]
           /\ errorcode' \in ErrorCode
  <1>1. errorcode' \in ErrorCode
    BY DEF DatabaseReg, RegResult, ErrorCode
  <1>2. Registered(database, m) \in Seq(SoundEntry)
    BY NewEntrySound, RegisteredProperties DEF IInv
  <1>3. m.type \in SrvType
    BY DEF SrvReg
  <1>4. listening' \in [Groups -> Nat]
    BY <1>3, ListeningTyped DEF IInv, TypeOK, DatabaseReg
  <1>5. QED
    BY <1>1, <1>2, <1>4 DEF DatabaseReg, IInv

\* and so does a deregistration.
LEMMA DatabaseDeRegSound ==
    ASSUME IInv, NEW m, DatabaseDeReg(m)
    PROVE  /\ database' \in Seq(SoundEntry)
           /\ listening' \in [Groups -> Nat]
           /\ errorcode' \in ErrorCode
  <1>1. errorcode' \in ErrorCode
    BY DEF DatabaseDeReg, DeRegResult, ErrorCode
  <1>2. CASE errorcode' = "OK"
    <2>1. FirstMatch(database, m) # 0
      BY <1>2 DEF DatabaseDeReg, DeRegResult
    <2>2. Deregistered(database, m) \in Seq(SoundEntry)
      BY <2>1, DeregisteredProperties DEF IInv
    <2>3. listening' \in [Groups -> Nat]
      BY <1>2, ListeningTyped DEF IInv, TypeOK, DatabaseDeReg, StopListening
    <2>4. QED
      BY <1>1, <1>2, <2>2, <2>3 DEF DatabaseDeReg
  <1>3. CASE errorcode' # "OK"
    BY <1>1, <1>3 DEF DatabaseDeReg, IInv, TypeOK
  <1>4. QED
    BY <1>2, <1>3

-----------------------------------------------------------------------------
\* The empty database is sound,
LEMMA InitSound == Init => IInv
  <1> SUFFICES ASSUME Init PROVE IInv
    OBVIOUS
  <1>1. regfile \in Seq(RegRecord \cup {BadRecord})
    BY DatabaseAssumption DEF Init, DatabaseAssumption
  <1>2. listening \in [Groups -> Nat]
    BY DEF Init
  <1>3. database \in Seq(Entry) /\ database \in Seq(SoundEntry)
    BY DEF Init
  <1>4. QED
    BY <1>1, <1>2, <1>3 DEF Init, IInv, TypeOK, ErrorCode

\* every step keeps it so,
LEMMA NextSound == IInv /\ [Next]_vars => IInv'
  <1> SUFFICES ASSUME IInv, [Next]_vars PROVE IInv'
    OBVIOUS
  \* A list of sound entries is a list of entries.
  <1>0. database' \in Seq(SoundEntry) => database' \in Seq(Entry)
    <2>1. SoundEntry \subseteq Entry
      BY DEF SoundEntry
    <2>2. QED
      BY <2>1, SeqMonotonic
  <1>1. ASSUME NEW m \in RegMsg, ProcessSrvReg(m) PROVE IInv'
    <2>1. m \in SrvReg
      BY DatabaseAssumption DEF DatabaseAssumption
    <2>2. CASE DatabaseReg(m)
      BY <1>0, <1>1, <2>1, <2>2, DatabaseRegSound DEF ProcessSrvReg, IInv, TypeOK
    <2>3. CASE ~DatabaseReg(m)
      BY <1>1, <2>3 DEF ProcessSrvReg, Processed, IInv, TypeOK, ErrorCode
    <2>4. QED
      BY <2>2, <2>3
  <1>2. ASSUME NEW m \in DeregMsg, ProcessSrvDeReg(m) PROVE IInv'
    <2>1. CASE DatabaseDeReg(m)
      BY <1>0, <1>2, <2>1, DatabaseDeRegSound DEF ProcessSrvDeReg, IInv, TypeOK
    <2>2. CASE ~DatabaseDeReg(m)
      BY <1>2, <2>2 DEF ProcessSrvDeReg, Processed, IInv, TypeOK, ErrorCode
    <2>3. QED
      BY <2>1, <2>2
  <1>3. CASE DatabaseAge
    <2>1. \A e \in SoundEntry : ~Dropped(e, alive, IsDA) => Aged(e, IsDA) \in SoundEntry
      BY AgedSound DEF Dropped
    <2>2. AgedList(database, alive, IsDA) \in Seq(SoundEntry)
      BY <2>1, AgedListProperties DEF IInv
    <2>3. listening' \in [Groups -> Nat]
      BY <1>3, ListeningTyped DEF DatabaseAge, IInv, TypeOK
    <2>4. QED
      BY <1>0, <1>3, <2>2, <2>3 DEF DatabaseAge, IInv, TypeOK
  <1>4. ASSUME NEW file \in RegFile, DatabaseReInit(file) PROVE IInv'
    <2>1. ClientsOnly(database) \in Seq(SoundEntry)
      BY ClientsOnlyProperties DEF IInv
    <2>2. file \in Seq(RegRecord \cup {BadRecord})
      BY DatabaseAssumption DEF DatabaseAssumption
    <2>3. QED
      BY <1>0, <1>4, <2>1, <2>2 DEF DatabaseReInit, IInv, TypeOK
  <1>5. CASE ReadSrvReg
    <2>1. /\ Head(regfile) \in RegRecord \cup {BadRecord}
          /\ Tail(regfile) \in Seq(RegRecord \cup {BadRecord})
          /\ <<>> \in Seq(RegRecord \cup {BadRecord})
      BY <1>5, HeadTailProperties DEF ReadSrvReg, Idle, IInv, TypeOK
    <2>2. CASE Head(regfile) = BadRecord
      BY <1>5, <2>1, <2>2 DEF ReadSrvReg, IInv, TypeOK
    <2>3. CASE Head(regfile) # BadRecord
      <3>1. Head(regfile) \in SrvReg /\ DatabaseReg(Head(regfile))
        BY <1>5, <2>1, <2>3, DatabaseAssumption DEF ReadSrvReg, DatabaseAssumption
      <3>2. regfile' = Tail(regfile) /\ alive' = alive
        BY <1>5, <2>3 DEF ReadSrvReg
      <3>3. QED
        BY <1>0, <2>1, <3>1, <3>2, DatabaseRegSound DEF IInv, TypeOK
    <2>4. QED
      BY <2>2, <2>3
  <1>6. ASSUME NEW p \in Pid, ProcessExit(p) \/ ProcessStart(p) PROVE IInv'
    BY <1>6 DEF ProcessExit, ProcessStart, IInv, TypeOK
  <1>7. CASE UNCHANGED vars
    BY <1>7 DEF vars, IInv, TypeOK
  <1>8. QED
    BY <1>1, <1>2, <1>3, <1>4, <1>5, <1>6, <1>7 DEF Next

\* and it is so for ever.
LEMMA Soundness == Spec => []IInv
  BY InitSound, NextSound, PTL DEF Spec

(* The list, the sockets, the reg file and the answers stay in their types: *)
(* no removal leaves a hole in the list, no aging makes a lifetime negative. *)
THEOREM TypeCorrect == Spec => []TypeOK
  <1>1. IInv => TypeOK
    BY DEF IInv
  <1>2. QED
    BY <1>1, Soundness, PTL

(* The lifetime fix-up of SLPDDatabaseReg never makes a registration last  *)
(* forever that did not ask to, however often it is refreshed and aged.    *)
THEOREM MortalStays == Spec => []MortalStaysMortal
  <1>1. IInv => MortalStaysMortal
    <2> SUFFICES ASSUME IInv, NEW e \in ToSet(database)
                 PROVE  e.wire < MaxLifetime => e.lifetime < MaxLifetime
      BY DEF MortalStaysMortal
    <2>1. e \in SoundEntry
      BY LenProperties, ElementOfSeq DEF IInv, ToSet
    <2>2. QED
      BY <2>1 DEF SoundEntry
  <1>2. QED
    BY <1>1, Soundness, PTL

-----------------------------------------------------------------------------
(***************************************************************************)
(* One registration for a service.  By itself the property is not          *)
(* inductive: the next message must be known to match at most one entry.   *)
(* The strengthening is that the scopes of an entry are those of some      *)
(* message that registered it.                                             *)
(***************************************************************************)
KnownEntry ==
    {e \in SoundEntry :
       \E m \in RegMsg \cup RegRecord : e.url = m.url /\ e.scopes = m.scopes}

UInv == database \in Seq(KnownEntry) /\ OneRegistrationPerService

\* Who matches an entry by URL and a scope has the scopes of that entry.
LEMMA KnownScopes ==
    ASSUME OneScopeListPerService,
           NEW n \in RegMsg \cup RegRecord \cup DeregMsg, NEW e \in KnownEntry,
           Matches(e, n)
    PROVE  e.scopes = n.scopes
  <1>1. PICK m \in RegMsg \cup RegRecord : e.url = m.url /\ e.scopes = m.scopes
    BY DEF KnownEntry
  <1>2. m.url = n.url /\ m.scopes \cap n.scopes # {}
    BY <1>1 DEF Matches
  <1>3. QED
    BY <1>1, <1>2 DEF OneScopeListPerService

\* A new entry has the URL and the scopes of its message.
LEMMA NewEntryKnown ==
    ASSUME NEW m \in RegMsg \cup RegRecord
    PROVE  m \in SrvReg /\ NewEntry(m) \in KnownEntry
  <1>1. m \in SrvReg
    BY DatabaseAssumption DEF DatabaseAssumption
  <1>2. NewEntry(m).url = m.url /\ NewEntry(m).scopes = m.scopes
    BY <1>1, NewEntryProperties
  <1>3. QED
    BY <1>1, <1>2, NewEntrySound DEF KnownEntry

\* A registration takes the place of the only other one of its service.
LEMMA DatabaseRegKeepsOne ==
    ASSUME OneScopeListPerService, UInv, NEW m \in RegMsg \cup RegRecord,
           DatabaseReg(m)
    PROVE  UInv'
  <1>1. NewEntry(m) \in KnownEntry
    BY NewEntryKnown
  <1>2. \A e \in KnownEntry : Matches(e, m) => e.scopes = m.scopes
    BY KnownScopes
  <1>3. /\ Registered(database, m) \in Seq(KnownEntry)
        /\ OnePerService(Registered(database, m))
    BY <1>1, <1>2, RegisteredProperties, RegisteredUnique
       DEF UInv, OneRegistrationPerService
  <1>4. database' = Registered(database, m) \/ database' = database
    BY DEF DatabaseReg
  <1>5. QED
    BY <1>3, <1>4 DEF UInv, OneRegistrationPerService

\* A deregistration takes away the only one.
LEMMA DatabaseDeRegKeepsOne ==
    ASSUME OneScopeListPerService, UInv, NEW m \in DeregMsg, DatabaseDeReg(m)
    PROVE  UInv'
  <1>1. \A e \in KnownEntry : Matches(e, m) => e.scopes = m.scopes
    BY KnownScopes
  <1>2. CASE FirstMatch(database, m) = 0
    BY <1>2 DEF DatabaseDeReg, DeRegResult, UInv, OneRegistrationPerService
  <1>3. CASE FirstMatch(database, m) # 0
    <2>1. /\ Deregistered(database, m) \in Seq(KnownEntry)
          /\ OnePerService(Deregistered(database, m))
      BY <1>1, <1>3, DeregisteredProperties, RemoveMatch
         DEF UInv, OneRegistrationPerService, Deregistered
    <2>2. database' = Deregistered(database, m) \/ database' = database
      BY DEF DatabaseDeReg
    <2>3. QED
      BY <2>1, <2>2 DEF UInv, OneRegistrationPerService
  <1>4. QED
    BY <1>2, <1>3

\* No step makes two registrations of one service.
LEMMA NextKeepsOne ==
    ASSUME OneScopeListPerService
    PROVE  IInv /\ UInv /\ [Next]_vars => UInv'
  <1> SUFFICES ASSUME IInv, UInv, [Next]_vars PROVE UInv'
    OBVIOUS
  <1>0. database' = database => UInv'
    BY DEF UInv, OneRegistrationPerService
  <1>1. ASSUME NEW m \in RegMsg, ProcessSrvReg(m) PROVE UInv'
    BY <1>0, <1>1, DatabaseRegKeepsOne DEF ProcessSrvReg, Processed
  <1>2. ASSUME NEW m \in DeregMsg, ProcessSrvDeReg(m) PROVE UInv'
    BY <1>0, <1>2, DatabaseDeRegKeepsOne DEF ProcessSrvDeReg, Processed
  <1>3. CASE DatabaseAge
    <2>1. ASSUME NEW e \in KnownEntry, ~Dropped(e, alive, IsDA)
          PROVE  Aged(e, IsDA) \in KnownEntry
      <3>1. e \in SoundEntry /\ e \in Entry /\ ~Expires(e, IsDA)
        BY <2>1 DEF KnownEntry, SoundEntry, Dropped
      <3>2. /\ Aged(e, IsDA) \in SoundEntry
            /\ Aged(e, IsDA).url = e.url /\ Aged(e, IsDA).scopes = e.scopes
        BY <3>1, AgedSound, AgedProperties
      <3>3. QED
        BY <3>2 DEF KnownEntry
    <2>2. AgedList(database, alive, IsDA) \in Seq(KnownEntry)
      BY <2>1, AgedListProperties DEF UInv
    <2>3. OnePerService(AgedList(database, alive, IsDA))
      BY AgedListUnique DEF IInv, TypeOK, UInv, OneRegistrationPerService
    <2>4. QED
      BY <1>3, <2>2, <2>3 DEF DatabaseAge, UInv, OneRegistrationPerService
  <1>4. ASSUME NEW file \in RegFile, DatabaseReInit(file) PROVE UInv'
    BY <1>4, ClientsOnlyProperties, ClientsOnlyUnique
       DEF DatabaseReInit, UInv, OneRegistrationPerService
  <1>5. CASE ReadSrvReg
    <2>1. Head(regfile) \in RegRecord \cup {BadRecord}
      BY <1>5, HeadTailProperties DEF ReadSrvReg, Idle, IInv, TypeOK
    <2>2. CASE Head(regfile) = BadRecord
      BY <1>0, <1>5, <2>2 DEF ReadSrvReg
    <2>3. CASE Head(regfile) # BadRecord
      BY <1>5, <2>1, <2>3, DatabaseRegKeepsOne DEF ReadSrvReg
    <2>4. QED
      BY <2>2, <2>3
  <1>6. ASSUME NEW p \in Pid, ProcessExit(p) \/ ProcessStart(p) PROVE UInv'
    BY <1>0, <1>6 DEF ProcessExit, ProcessStart
  <1>7. CASE UNCHANGED vars
    BY <1>0, <1>7 DEF vars
  <1>8. QED
    BY <1>1, <1>2, <1>3, <1>4, <1>5, <1>6, <1>7 DEF Next

\* There are none at first.
LEMMA InitOne == Init => UInv
  <1> SUFFICES ASSUME Init PROVE UInv
    OBVIOUS
  <1>1. database \in Seq(KnownEntry)
    BY DEF Init
  <1>2. DOMAIN database = {}
    BY DEF Init
  <1>3. QED
    BY <1>1, <1>2 DEF UInv, OneRegistrationPerService, OnePerService

(* The search for an identical entry is enough to keep one registration    *)
(* for a service, provided clients keep to one scope list for it.          *)
THEOREM OneRegistration ==
    ASSUME OneScopeListPerService
    PROVE  Spec => []OneRegistrationPerService
  <1>1. IInv /\ UInv /\ [Next]_vars => UInv'
    BY NextKeepsOne
  <1>2. UInv => OneRegistrationPerService
    BY DEF UInv
  <1>3. QED
    BY <1>1, <1>2, InitOne, Soundness, PTL DEF Spec

-----------------------------------------------------------------------------
(***************************************************************************)
(* The list implements the set of ServiceRegistry.  With one entry for a   *)
(* service, the first match the code looks at is the only one there is, so *)
(* what it checks and replaces is all that the abstract step does.         *)
(***************************************************************************)
Db == ToSet(database)

\* The operators mean the same in both modules: they have the same constants.
LEMMA SameOperators ==
    /\ \A e, m : Registry!Matches(e, m) <=> Matches(e, m)
    /\ \A p, q : Registry!SourceMismatch(p, q) <=> SourceMismatch(p, q)
    /\ \A m : Registry!NewEntry(m) = NewEntry(m)
    /\ \A e, ageall : Registry!Aged(e, ageall) = Aged(e, ageall)
    /\ \A e, live, ageall : Registry!Dropped(e, live, ageall) <=> Dropped(e, live, ageall)
  <1>1. \A e, m : Registry!Matches(e, m) <=> Matches(e, m)
    BY DEF Matches, Registry!Matches
  <1>2. \A p, q : Registry!SourceMismatch(p, q) <=> SourceMismatch(p, q)
    BY DEF SourceMismatch, Registry!SourceMismatch, Unspec, Registry!Unspec
  <1>3. \A m : Registry!NewEntry(m) = NewEntry(m)
    BY DEF NewEntry, Registry!NewEntry, FixupLifetime, Registry!FixupLifetime,
           SourceOf, Registry!SourceOf, Unspec, Registry!Unspec
  <1>4. \A e, ageall : Registry!Immortal(e, ageall) <=> Immortal(e, ageall)
    BY DEF Immortal, Registry!Immortal
  <1>5. \A e, ageall : Registry!Aged(e, ageall) = Aged(e, ageall)
    BY <1>4 DEF Aged, Registry!Aged
  <1>6. \A e, live, ageall :
          Registry!Dropped(e, live, ageall) <=> Dropped(e, live, ageall)
    BY <1>4 DEF Dropped, Registry!Dropped, Expires, Registry!Expires,
                OwnerDied, Registry!OwnerDied, NoPid, Registry!NoPid
  <1>7. QED
    BY <1>1, <1>2, <1>3, <1>5, <1>6

\* The entry the search finds is the only one that matches, so the registry permits what the code does.
LEMMA FirstIsAll ==
    ASSUME OneScopeListPerService, UInv,
           NEW m \in RegMsg \cup RegRecord \cup DeregMsg, ~Refused(database, m)
    PROVE  Registry!Permitted(m)
  <1>1. \A k \in DOMAIN database :
          Matches(database[k], m) => k = FirstMatch(database, m)
    BY KnownScopes, OnlyMatch DEF UInv, OneRegistrationPerService
  <1>2. \A k \in DOMAIN database :
          Matches(database[k], m) => ~SourceMismatch(database[k].peer, m.peer)
    <2> SUFFICES ASSUME NEW k \in DOMAIN database, Matches(database[k], m)
                 PROVE  ~SourceMismatch(database[k].peer, m.peer)
      OBVIOUS
    <2>1. k = FirstMatch(database, m) /\ k # 0
      BY <1>1, LenProperties DEF UInv
    <2>2. QED
      BY <2>1 DEF Refused
  <1>3. QED
    BY <1>2, SameOperators DEF Registry!Permitted, Registry!Held, ToSet

\* A registration is one of the registry, or nothing if it is refused,
LEMMA RegisterSimulation ==
    ASSUME OneScopeListPerService, UInv, NEW m \in RegMsg \cup RegRecord,
           DatabaseReg(m)
    PROVE  Registry!Register(m) \/ Db' = Db
  <1>1. CASE errorcode' = "OK"
    <2>1. ~Refused(database, m)
      BY <1>1 DEF DatabaseReg, RegResult
    <2>2. Registry!Permitted(m)
      BY <2>1, FirstIsAll
    <2>3. /\ NewEntry(m) \in KnownEntry
          /\ \A e \in KnownEntry : Matches(e, m) => e.scopes = m.scopes
      BY NewEntryKnown, KnownScopes
    <2>4. ToSet(Registered(database, m)) =
            {e \in ToSet(database) : ~Matches(e, m)} \cup {NewEntry(m)}
      BY <2>3, RegisteredUnique DEF UInv, OneRegistrationPerService
    <2>5. database' = Registered(database, m)
      BY <1>1 DEF DatabaseReg
    <2>6. Db' = (Db \ Registry!Held(m)) \cup {NewEntry(m)}
      BY <2>4, <2>5, SameOperators DEF Db, Registry!Held
    <2>7. QED
      BY <2>2, <2>6, SameOperators DEF Db, Registry!Register
  <1>2. CASE errorcode' # "OK"
    BY <1>2 DEF DatabaseReg, Db
  <1>3. QED
    BY <1>1, <1>2

\* a deregistration likewise,
LEMMA DeregisterSimulation ==
    ASSUME OneScopeListPerService, UInv, NEW m \in DeregMsg, DatabaseDeReg(m)
    PROVE  Registry!Deregister(m) \/ Db' = Db
  <1>1. CASE errorcode' = "OK"
    <2>1. ~Refused(database, m) /\ FirstMatch(database, m) # 0
      BY <1>1 DEF DatabaseDeReg, DeRegResult
    <2>2. Registry!Permitted(m)
      BY <2>1, FirstIsAll
    <2>3. FirstMatch(database, m) \in DOMAIN database
          /\ Matches(database[FirstMatch(database, m)], m)
      BY <2>1, FirstMatchProperties, LenProperties DEF UInv
    <2>4. Registry!Held(m) # {}
      BY <2>3, SameOperators DEF Registry!Held, ToSet
    <2>5. ToSet(Deregistered(database, m)) = {e \in ToSet(database) : ~Matches(e, m)}
      BY <2>1, KnownScopes, RemoveMatch DEF UInv, OneRegistrationPerService, Deregistered
    <2>6. database' = Deregistered(database, m)
      BY <1>1 DEF DatabaseDeReg
    <2>7. Db' = Db \ Registry!Held(m)
      BY <2>5, <2>6, SameOperators DEF Db, Registry!Held
    <2>8. QED
      BY <2>2, <2>4, <2>7 DEF Db, Registry!Deregister
  <1>2. CASE errorcode' # "OK"
    BY <1>2 DEF DatabaseDeReg, Db
  <1>3. QED
    BY <1>1, <1>2

\* and every step is one of the registry or a stutter.
LEMMA NextSimulation ==
    ASSUME OneScopeListPerService
    PROVE  IInv /\ UInv /\ [Next]_vars => [Registry!Next]_Db
  <1> SUFFICES ASSUME IInv, UInv, [Next]_vars PROVE Registry!Next \/ Db' = Db
    OBVIOUS
  <1>0. database' = database => Db' = Db
    BY DEF Db
  <1>1. ASSUME NEW m \in RegMsg, ProcessSrvReg(m) PROVE Registry!Next \/ Db' = Db
    BY <1>0, <1>1, RegisterSimulation DEF ProcessSrvReg, Processed, Registry!Next
  <1>2. ASSUME NEW m \in DeregMsg, ProcessSrvDeReg(m) PROVE Registry!Next \/ Db' = Db
    BY <1>0, <1>2, DeregisterSimulation DEF ProcessSrvDeReg, Processed, Registry!Next
  <1>3. CASE DatabaseAge
    <2>1. \A e \in KnownEntry : ~Dropped(e, alive, IsDA) => Aged(e, IsDA) \in SoundEntry
      BY AgedSound DEF KnownEntry, Dropped
    <2>2. /\ AgedList(database, alive, IsDA) \in Seq(SoundEntry)
          /\ ToSet(AgedList(database, alive, IsDA)) =
                {Aged(e, IsDA) : e \in {f \in ToSet(database) : ~Dropped(f, alive, IsDA)}}
      <3>1. database \in Seq(KnownEntry)
        BY DEF UInv
      <3>2. QED
        BY <2>1, <3>1, AgedListProperties
    <2>3. Registry!Tick(alive)
      BY <1>3, <2>2, SameOperators DEF DatabaseAge, Registry!Tick
    <2>4. alive \in SUBSET Pid
      BY DEF IInv, TypeOK
    <2>5. QED
      BY <2>3, <2>4 DEF Registry!Next
  <1>4. ASSUME NEW file \in RegFile, DatabaseReInit(file)
        PROVE  Registry!Next \/ Db' = Db
    <2>1. Registry!Reload
      BY <1>4, ClientsOnlyProperties DEF DatabaseReInit, UInv, Registry!Reload
    <2>2. QED
      BY <2>1 DEF Registry!Next
  <1>5. CASE ReadSrvReg
    <2>1. Head(regfile) \in RegRecord \cup {BadRecord}
      BY <1>5, HeadTailProperties DEF ReadSrvReg, Idle, IInv, TypeOK
    <2>2. CASE Head(regfile) = BadRecord
      BY <1>0, <1>5, <2>2 DEF ReadSrvReg
    <2>3. CASE Head(regfile) # BadRecord
      BY <1>5, <2>1, <2>3, RegisterSimulation DEF ReadSrvReg, Registry!Next
    <2>4. QED
      BY <2>2, <2>3
  <1>6. ASSUME NEW p \in Pid, ProcessExit(p) \/ ProcessStart(p)
        PROVE  Registry!Next \/ Db' = Db
    BY <1>0, <1>6 DEF ProcessExit, ProcessStart
  <1>7. CASE UNCHANGED vars
    BY <1>0, <1>7 DEF vars
  <1>8. QED
    BY <1>1, <1>2, <1>3, <1>4, <1>5, <1>6, <1>7 DEF Next

(* slpd's list of registrations, with its first-match search, address      *)
(* check, aging and re-reads, is a set with one registration for a service *)
(* to its clients, provided they keep to one scope list for a service.     *)
THEOREM Implementation ==
    ASSUME OneScopeListPerService
    PROVE  Spec => ImplementsRegistry
  <1>1. Init => Registry!Init
    BY DEF Init, Registry!Init, ToSet
  <1>2. IInv /\ UInv /\ [Next]_vars => UInv'
    BY NextKeepsOne
  <1>3. IInv /\ UInv /\ [Next]_vars => [Registry!Next]_Db
    BY NextSimulation
  <1>4. QED
    BY <1>1, <1>2, <1>3, InitOne, Soundness, PTL
       DEF Spec, ImplementsRegistry, Registry!Spec, Db

-----------------------------------------------------------------------------
(***************************************************************************)
(* Action properties: what one message may take away.                      *)
(***************************************************************************)

\* A step that removes at most the first match, when it is not refused.
LEMMA OnlyFirstMatchGoes ==
    ASSUME IInv, NEW m, ~Refused(database, m),
           \/ ToSet(database) \subseteq ToSet(database')
           \/ /\ FirstMatch(database, m) # 0
              /\ ToSet(RemoveAt(database, FirstMatch(database, m)))
                    \subseteq ToSet(database')
    PROVE  \A e \in ToSet(database) \ ToSet(database') :
             Matches(e, m) /\ ~SourceMismatch(e.peer, m.peer)
  <1> SUFFICES ASSUME NEW e \in ToSet(database) \ ToSet(database')
               PROVE  Matches(e, m) /\ ~SourceMismatch(e.peer, m.peer)
    OBVIOUS
  <1>1. /\ FirstMatch(database, m) \in 1..Len(database)
        /\ Matches(database[FirstMatch(database, m)], m)
    BY FirstMatchProperties, LenProperties DEF IInv, TypeOK
  <1>2. e = database[FirstMatch(database, m)]
    BY <1>1, RemovedEntry DEF IInv, TypeOK
  <1>3. QED
    BY <1>1, <1>2 DEF Refused

\* Appending takes nothing away.
LEMMA AppendKeeps ==
    ASSUME NEW S, NEW db \in Seq(S), NEW x \in S
    PROVE  ToSet(db) \subseteq ToSet(Append(db, x))
  BY AppendProperties, LenProperties DEF ToSet

\* What a registration takes away matches it and comes from the same host,
LEMMA DatabaseRegTakes ==
    ASSUME IInv, NEW m \in SrvReg, DatabaseReg(m)
    PROVE  \A e \in ToSet(database) \ ToSet(database') :
             Matches(e, m) /\ ~SourceMismatch(e.peer, m.peer)
  <1>1. CASE errorcode' = "OK"
    <2>1. ~Refused(database, m) /\ database' = Registered(database, m)
      BY <1>1 DEF DatabaseReg, RegResult
    <2>2. NewEntry(m) \in SoundEntry
      BY NewEntrySound
    <2>3. CASE FirstMatch(database, m) = 0
      <3>1. ToSet(database) \subseteq ToSet(database')
        BY <2>1, <2>2, <2>3, AppendKeeps DEF Registered, IInv
      <3>2. QED
        BY <3>1
    <2>4. CASE FirstMatch(database, m) # 0
      <3>1. FirstMatch(database, m) \in 1..Len(database)
        BY <2>4, FirstMatchProperties, LenProperties DEF IInv
      <3>2. RemoveAt(database, FirstMatch(database, m)) \in Seq(SoundEntry)
        BY <3>1, RemoveAtProperties DEF IInv
      <3>3. ToSet(RemoveAt(database, FirstMatch(database, m))) \subseteq ToSet(database')
        BY <2>1, <2>2, <2>4, <3>2, AppendKeeps DEF Registered
      <3>4. QED
        BY <2>1, <2>4, <3>3, OnlyFirstMatchGoes
    <2>5. QED
      BY <2>3, <2>4
  <1>2. CASE errorcode' # "OK"
    BY <1>2 DEF DatabaseReg
  <1>3. QED
    BY <1>1, <1>2

\* and so does what a deregistration takes away.
LEMMA DatabaseDeRegTakes ==
    ASSUME IInv, NEW m, DatabaseDeReg(m)
    PROVE  \A e \in ToSet(database) \ ToSet(database') :
             Matches(e, m) /\ ~SourceMismatch(e.peer, m.peer)
  <1>1. CASE errorcode' = "OK"
    <2>1. /\ ~Refused(database, m) /\ FirstMatch(database, m) # 0
          /\ database' = RemoveAt(database, FirstMatch(database, m))
      BY <1>1 DEF DatabaseDeReg, DeRegResult, Deregistered
    <2>2. QED
      BY <2>1, OnlyFirstMatchGoes
  <1>2. CASE errorcode' # "OK"
    BY <1>2 DEF DatabaseDeReg
  <1>3. QED
    BY <1>1, <1>2

(* With the source address check, a message only takes away entries of its *)
(* own service that no other host of the sender's family registered.       *)
THEOREM RegistrantReplaces == Spec => OnlyTheRegistrantReplaces
  <1> DEFINE Takes ==
        \A e \in ToSet(database) \ ToSet(database'), m \in RegMsg \cup DeregMsg :
          (m \in RegMsg /\ ProcessSrvReg(m)) \/ (m \in DeregMsg /\ ProcessSrvDeReg(m)) =>
            Matches(e, m) /\ ~SourceMismatch(e.peer, m.peer)
  <1>1. ASSUME IInv PROVE Takes
    <2>1. ASSUME NEW m \in RegMsg, ProcessSrvReg(m)
          PROVE  \A e \in ToSet(database) \ ToSet(database') :
                   Matches(e, m) /\ ~SourceMismatch(e.peer, m.peer)
      <3>1. m \in SrvReg
        BY DatabaseAssumption DEF DatabaseAssumption
      <3>2. CASE DatabaseReg(m)
        BY <1>1, <3>1, <3>2, DatabaseRegTakes
      <3>3. CASE ~DatabaseReg(m)
        BY <2>1, <3>3 DEF ProcessSrvReg, Processed
      <3>4. QED
        BY <3>2, <3>3
    <2>2. ASSUME NEW m \in DeregMsg, ProcessSrvDeReg(m)
          PROVE  \A e \in ToSet(database) \ ToSet(database') :
                   Matches(e, m) /\ ~SourceMismatch(e.peer, m.peer)
      <3>1. CASE DatabaseDeReg(m)
        BY <1>1, <3>1, DatabaseDeRegTakes
      <3>2. CASE ~DatabaseDeReg(m)
        BY <2>2, <3>2 DEF ProcessSrvDeReg, Processed
      <3>3. QED
        BY <3>1, <3>2
    <2>3. QED
      BY <2>1, <2>2
  <1>2. QED
    BY <1>1, Soundness, PTL DEF OnlyTheRegistrantReplaces

(* When no two service types hash to one multicast group, a deregistration *)
(* leaves the sockets of every type open that is still registered.         *)
THEOREM DeregistrationListens ==
    ASSUME \A t, u \in SrvType : Group[t] = Group[u] => t = u
    PROVE  Spec => DeregKeepsListening
  <1> DEFINE Keeps ==
        (\E m \in DeregMsg : ProcessSrvDeReg(m)) =>
           \A t \in SrvType : SrvtypeUsed(database', t) /\ listening[Group[t]] > 0
                              => listening'[Group[t]] > 0
  <1>1. ASSUME IInv PROVE Keeps
    <2> SUFFICES ASSUME NEW m \in DeregMsg, ProcessSrvDeReg(m), NEW t \in SrvType,
                        SrvtypeUsed(database', t), listening[Group[t]] > 0
                 PROVE  listening'[Group[t]] > 0
      OBVIOUS
    <2>1. CASE listening' = listening
      BY <2>1
    <2>2. CASE listening' # listening
      <3> DEFINE i == FirstMatch(database, m)
      <3>1. /\ i # 0
            /\ listening' = StopListening(database[i].type, database')
        BY <2>2 DEF ProcessSrvDeReg, Processed, DatabaseDeReg, DeRegResult
      <3>2. database[i].type \in SrvType
        <4>1. i \in 1..Len(database) /\ database \in Seq(Entry)
          BY <1>1, <3>1, FirstMatchProperties, LenProperties DEF IInv, TypeOK
        <4>2. database[i] \in Entry
          BY <4>1, ElementOfSeq
        <4>3. QED
          BY <4>2 DEF Entry
      <3> HIDE DEF i
      <3>3. /\ ~SrvtypeUsed(database', database[i].type)
            /\ listening' = RemoveServices({database[i].type})
        BY <2>2, <3>1 DEF StopListening
      <3>4. Group[t] # Group[database[i].type]
        BY <3>2, <3>3
      <3>5. listening'[Group[t]] = listening[Group[t]]
        BY <3>3, <3>4 DEF RemoveServices, Groups
      <3>6. QED
        BY <3>5
    <2>3. QED
      BY <2>1, <2>2
  <1>2. QED
    BY <1>1, Soundness, PTL DEF DeregKeepsListening
=============================================================================
