----------------------- MODULE SlpdForwarding_proofs -----------------------
(***************************************************************************)
(* Proofs about SlpdForwarding, for any number of services, directory      *)
(* agents, sockets, restarts and packets in flight.                        *)
(***************************************************************************)
EXTENDS SlpdForwarding, SlpSequences

-----------------------------------------------------------------------------
(* The operators of SlpdRegistrations.  The search for an identical entry  *)
(* stops nowhere, or at one that matches.                                  *)
LEMMA FirstMatchProperties ==
    ASSUME NEW S, NEW db \in Seq(S), NEW m
    PROVE  /\ FirstMatch(db, m) \in 0..Len(db)
           /\ FirstMatch(db, m) # 0 => Matches(db[FirstMatch(db, m)], m)
           /\ FirstMatch(db, m) = 0 => \A i \in 1..Len(db) : ~Matches(db[i], m)
  <1> DEFINE I == {i \in 1..Len(db) : Matches(db[i], m)}
  <1>1. FirstMatch(db, m) = IF I # {} THEN Min(I) ELSE 0
    BY DEF FirstMatch, SelectInSeq
  <1>2. I \in SUBSET (1..Len(db))
    OBVIOUS
  <1>3. /\ FirstMatch(db, m) = 0 <=> I = {}
        /\ FirstMatch(db, m) # 0 => FirstMatch(db, m) \in I
    <2> HIDE DEF I
    <2> QED
      BY <1>1, <1>2, FirstPosition
  <1>4. QED
    BY <1>3, LenProperties

\* What becomes of a message that is registered.
LEMMA NewEntryProperties ==
    ASSUME NEW m \in SrvReg
    PROVE  /\ NewEntry(m) \in Entry
           /\ m.wire < MaxLifetime => NewEntry(m).lifetime < MaxLifetime
           /\ NewEntry(m).wire = m.wire
           /\ NewEntry(m).url = m.url
           /\ NewEntry(m).scopes = m.scopes
  <1>1. MaxLifetime \in Nat /\ AgeInterval \in Nat \ {0} /\ MaxLifetime > AgeInterval
    BY RegistrationsAssumption DEF RegistrationsAssumption
  <1>2. m.wire \in 0..MaxLifetime
    BY DEF SrvReg, Lifetime
  <1>3. /\ FixupLifetime(m.wire) \in 0..MaxLifetime
        /\ m.wire < MaxLifetime => FixupLifetime(m.wire) < MaxLifetime
    BY <1>1, <1>2 DEF FixupLifetime
  <1>4. SourceOf(m.peer) \in Source
    BY DEF SourceOf, Source
  <1>5. QED
    BY <1>3, <1>4 DEF NewEntry, Entry, SrvReg, Lifetime

\* The list a registration leaves.
LEMMA RegisteredProperties ==
    ASSUME NEW S, NEW db \in Seq(S), NEW m, NewEntry(m) \in S
    PROVE  Registered(db, m) \in Seq(S)
  <1>1. FirstMatch(db, m) \in 0..Len(db) /\ Len(db) \in Nat
    BY FirstMatchProperties, LenProperties
  <1>2. FirstMatch(db, m) # 0 => RemoveAt(db, FirstMatch(db, m)) \in Seq(S)
    BY <1>1, RemoveAtProperties
  <1>3. QED
    BY <1>2, AppendProperties DEF Registered

\* The list a deregistration leaves.
LEMMA DeregisteredProperties ==
    ASSUME NEW S, NEW db \in Seq(S), NEW m, FirstMatch(db, m) # 0
    PROVE  Deregistered(db, m) \in Seq(S)
  <1>1. FirstMatch(db, m) \in 1..Len(db)
    BY FirstMatchProperties, LenProperties
  <1>2. QED
    BY <1>1, RemoveAtProperties DEF Deregistered

\* The list the first loop of SLPDDatabaseReInit leaves.
LEMMA ClientsOnlyProperties ==
    ASSUME NEW S, NEW db \in Seq(S)
    PROVE  /\ ClientsOnly(db) \in Seq(S)
           /\ ToSet(ClientsOnly(db)) = {e \in ToSet(db) : e.source # "STATIC"}
  <1> DEFINE I == {i \in DOMAIN db : ~(db[i].source = "STATIC")}
  <1> DEFINE J == InOrder(I)
  <1> DEFINE kept == [n \in DOMAIN J |-> db[J[n]]]
  <1>1. ClientsOnly(db) = kept
    BY DEF ClientsOnly, Dropping
  <1>0. I \in SUBSET DOMAIN db
    OBVIOUS
  <1>2. kept \in Seq(S) /\ ToSet(kept) = {db[i] : i \in I}
    <2> HIDE DEF I
    <2>1. QED
      BY <1>0, KeptProperties
  <1> HIDE DEF kept
  <1>3. QED
    BY <1>1, <1>2 DEF ToSet

(* The list of registrations.  Whatever SLPDDatabaseReg does with a        *)
(* message, the list it leaves holds what it held and perhaps the message. *)
LEMMA DatabaseRegProperties ==
    ASSUME NEW S, NEW db \in Seq(S), NEW m, m.url \notin BadUrl => NewEntry(m) \in S
    PROVE  DatabaseReg(db, m) \in Seq(S)
  BY RegisteredProperties DEF DatabaseReg, RegResult

\* The records of a reg file enter one after the other.
LEMMA RegfileReadProperties ==
    ASSUME NEW S, NEW base \in Seq(S),
           \A m \in ToSet(StaticRegs) : m.url \notin BadUrl => NewEntry(m) \in S
    PROVE  RegfileRead(base) \in Seq(S)
<1> DEFINE regs == StaticRegs
<1> DEFINE n == Len(regs)
<1> DEFINE St == Seq(S)
<1> DEFINE step == [x \in St \X (1..n) |-> DatabaseReg(x[1], regs[x[2]])]
<1>1. n \in Nat /\ DOMAIN regs = 1..n /\ \A i \in 1..n : regs[i] \in ToSet(regs)
  BY ForwardingAssumption, LenProperties DEF ForwardingAssumption, ToSet
<1>2. step \in [St \X (1..n) -> St]
  <2>1. \A x \in St \X (1..n) :
          /\ x[1] \in Seq(S) /\ x[2] \in 1..n
          /\ regs[x[2]].url \notin BadUrl => NewEntry(regs[x[2]]) \in S
    BY <1>1
  <2>2. \A x \in St \X (1..n) : DatabaseReg(x[1], regs[x[2]]) \in St
    BY <2>1, DatabaseRegProperties
  <2> QED
    BY <2>2
<1> DEFINE Eq(it) == it = [s \in SUBSET (1..n) |->
                 IF s = {} THEN base ELSE DatabaseReg(it[s \ {Max(s)}], regs[Max(s)])]
<1>3. \E it : Eq(it)
  <2>1. PICK it \in [SUBSET (1..n) -> St] : FoldsWith(it, n, base, step)
    <3>1. base \in St /\ n \in Nat
      BY <1>1
    <3> HIDE DEF n, St, step
    <3> QED
      BY <3>1, <1>2, FoldExists
  <2>2. \A s \in SUBSET (1..n) : s # {} => Max(s) \in 1..n /\ s \ {Max(s)} \in SUBSET (1..n)
    BY <1>1, LargestPosition
  <2>3. \A s \in SUBSET (1..n) :
              it[s] = IF s = {} THEN base ELSE DatabaseReg(it[s \ {Max(s)}], regs[Max(s)])
    BY <2>1, <2>2 DEF FoldsWith
  <2> QED
    BY <2>1, <2>3
<1>4. RegfileRead(base) = (CHOOSE it : Eq(it))[1..n]
  BY <1>1 DEF RegfileRead, FoldLeft, MapThenFoldSet
<1>5. Eq(CHOOSE it : Eq(it))
  <2> HIDE DEF Eq
  <2> QED
    BY <1>3, Zenon
<1>6. PICK it : it = (CHOOSE f : Eq(f))
  OBVIOUS
<1>7. Eq(it)
  BY <1>5, <1>6
<1>8. \A s \in SUBSET (1..n) :
        it[s] = IF s = {} THEN base ELSE DatabaseReg(it[s \ {Max(s)}], regs[Max(s)])
  BY <1>7, Zenon
<1> DEFINE P == {s \in SUBSET (1..n) : it[s] \in St}
<1>9. {} \in P
  BY <1>8
<1>10. ASSUME NEW s \in SUBSET (1..n), s # {}, s \ {Max(s)} \in P PROVE s \in P
  <2>1. Max(s) \in 1..n /\ it[s \ {Max(s)}] \in St
    BY <1>1, <1>10, LargestPosition
  <2>2. DatabaseReg(it[s \ {Max(s)}], regs[Max(s)]) \in St
    BY <1>1, <2>1, DatabaseRegProperties
  <2> QED
    BY <1>8, <1>10, <2>2
<1>11. \A s \in SUBSET (1..n) : s \in P
  <2> HIDE DEF P
  <2> QED
    BY <1>1, <1>9, <1>10, PositionsInduction
<1> QED
  BY <1>4, <1>6, <1>11

-----------------------------------------------------------------------------
(* The sockets.  There are enough free ones for the DAs of a load, so that *)
(* SLPDOutgoingConnect finds a socket of its own for each.                 *)
LEMMA PortForProperties ==
    ASSUME NEW D \in SUBSET Da, NEW open, CanOpen(D, open)
    PROVE  /\ PortFor(D, open) \in [D -> Ports \ open]
           /\ \A d, e \in D : PortFor(D, open)[d] = PortFor(D, open)[e] => d = e
<1> DEFINE free == Ports \ open
<1> DEFINE n == Cardinality(D)
<1> DEFINE k == Cardinality(free)
<1>1. IsFiniteSet(D) /\ IsFiniteSet(free)
  BY ForwardingAssumption, FS_Subset DEF ForwardingAssumption
<1>2. /\ n \in Nat /\ k \in Nat /\ n <= k
      /\ ExistsBijection(1..n, D) /\ ExistsBijection(1..k, free)
  BY <1>1, FS_CardinalityType DEF CanOpen
<1> HIDE DEF n, k, free
<1>3. PICK f \in Bijection(1..n, D) : TRUE
  BY <1>2 DEF ExistsBijection
<1>4. PICK g \in Bijection(1..k, free) : TRUE
  BY <1>2 DEF ExistsBijection
<1> DEFINE rank(d) == CHOOSE i \in 1..n : f[i] = d
<1>5. \A d \in D : rank(d) \in 1..n /\ f[rank(d)] = d
  BY <1>3 DEF Bijection, Surjection
<1> HIDE DEF rank
<1> DEFINE port == [d \in D |-> g[rank(d)]]
<1>6. \A i \in 1..n : i \in 1..k
  BY <1>2
<1>7. port \in [D -> free]
  BY <1>4, <1>5, <1>6 DEF Bijection, Injection
<1>8. \A d, e \in D : port[d] = port[e] => rank(d) = rank(e)
  BY <1>4, <1>5, <1>6 DEF Bijection, Injection, IsInjective
<1>9. \A d, e \in D : port[d] = port[e] => d = e
  BY <1>5, <1>8
<1>10. \E x \in [D -> free] : \A d, e \in D : x[d] = x[e] => d = e
  BY <1>7, <1>9
<1> QED
  BY <1>10 DEF PortFor, free

(* What sending a load does: a new socket for each DA with its part of the *)
(* load, and a packet for each message of it; the rest stays as it is.     *)
SocketFor(d, load) == [da |-> d, sendlist |-> load[d], age |-> 0, reconns |-> 0]

Packets(port, load) ==
    UNION {{Request(port[d], d, i) : i \in ToSet(load[d])} : d \in DOMAIN load}

Sends(load, port) ==
    /\ port \in [DOMAIN load -> Ports \ DOMAIN sock]
    /\ \A d, e \in DOMAIN load : port[d] = port[e] => d = e
    /\ DOMAIN sock' = DOMAIN sock \cup {port[d] : d \in DOMAIN load}
    /\ \A p \in DOMAIN sock : sock'[p] = sock[p]
    /\ \A d \in DOMAIN load : sock'[port[d]] = SocketFor(d, load)
    /\ net' = net \cup Packets(port, load)

\* What any loop that sends leaves behind: the sockets there were, the new ones and their packets.
LEMMA SendProperties ==
    ASSUME NEW load, DOMAIN load \in SUBSET Da, Send(load)
    PROVE  \E port : Sends(load, port)
<1> DEFINE D == DOMAIN load
<1> DEFINE port == PortFor(D, DOMAIN sock)
<1> DEFINE new == Opened(load, sock)
<1>1. /\ port \in [D -> Ports \ DOMAIN sock]
      /\ \A d, e \in D : port[d] = port[e] => d = e
  BY PortForProperties DEF Send
<1>2. new = [p \in {port[d] : d \in D} |->
               LET d == CHOOSE x \in D : port[x] = p IN SocketFor(d, load)]
  BY DEF Opened, SocketFor
<1>3. /\ sock' = [p \in DOMAIN new \cup DOMAIN sock |->
                     IF p \in DOMAIN new THEN new[p] ELSE sock[p]]
      /\ net' = net \cup Written(new)
  BY DEF Send
<1> HIDE DEF port, new
<1>4. DOMAIN new = {port[d] : d \in D}
  BY <1>2
<1>5. \A d \in D : new[port[d]] = SocketFor(d, load)
  <2> SUFFICES ASSUME NEW d \in D PROVE new[port[d]] = SocketFor(d, load)
    OBVIOUS
  <2>1. (CHOOSE x \in D : port[x] = port[d]) = d
    BY <1>1
  <2> QED
    BY <1>2, <2>1
<1>6. /\ DOMAIN sock' = DOMAIN new \cup DOMAIN sock
      /\ \A p \in DOMAIN new : sock'[p] = new[p]
      /\ \A p \in DOMAIN sock : p \notin DOMAIN new => sock'[p] = sock[p]
  BY <1>3
<1>7. \A d \in D : port[d] \notin DOMAIN sock
  BY <1>1
<1>8. Written(new) = Packets(port, load)
  <2>1. \A d \in D : new[port[d]].da = d /\ new[port[d]].sendlist = load[d]
    <3> SUFFICES ASSUME NEW d \in D
                 PROVE  new[port[d]].da = d /\ new[port[d]].sendlist = load[d]
      OBVIOUS
    <3>1. new[port[d]] = SocketFor(d, load)
      BY <1>5
    <3> QED
      BY <3>1 DEF SocketFor
  <2> DEFINE wrote(p) == {Request(p, new[p].da, i) : i \in ToSet(new[p].sendlist)}
  <2> DEFINE packets(d) == {Request(port[d], d, i) : i \in ToSet(load[d])}
  <2>2. \A d \in D : wrote(port[d]) = packets(d)
    BY <2>1
  <2>3. Written(new) = UNION {wrote(p) : p \in DOMAIN new}
    BY DEF Written
  <2>4. Packets(port, load) = UNION {packets(d) : d \in D}
    BY DEF Packets
  <2> HIDE DEF wrote, packets
  <2> QED
    BY <1>4, <2>2, <2>3, <2>4
<1>9. Sends(load, port)
  BY <1>1, <1>3, <1>4, <1>5, <1>6, <1>7, <1>8 DEF Sends
<1> QED
  BY <1>9

-----------------------------------------------------------------------------
(* The types.  On top of them: a request on its way comes from a socket    *)
(* that is open, or its answer goes nowhere.                               *)
SocketsOK == DOMAIN sock \subseteq Ports /\ \A p \in DOMAIN sock : sock[p] \in Socket

PacketsOK ==
    /\ net \subseteq Packet
    /\ \A q \in net : q.type = "SrvAck" => q.port \in DOMAIN sock
    /\ \A q \in net : q.type = "request" => q.port \in DOMAIN sock \cup {Closed}

TypeInv == TypeOK /\ PacketsOK

\* The three kinds of packets do not get mixed up.
LEMMA PacketKinds ==
    /\ \A q \in Packet :
          /\ q.type = "request" =>
                /\ q = Request(q.port, q.da, q.item)
                /\ q.port \in Ports \cup {Closed} /\ q.da \in Da /\ q.item \in Item
          /\ q.type = "SrvAck" =>
                q = Ack(q.port, q.xid) /\ q.port \in Ports /\ q.xid \in Int
          /\ q.type = "DAAdvert" => q.da \in Da /\ q.boot \in 0..MaxBoot
    /\ \A p \in Ports \cup {Closed}, d \in Da, i \in Item : Request(p, d, i) \in Packet
    /\ \A p \in Ports, x \in Int : Ack(p, x) \in Packet
    /\ \A d \in Da, b \in 0..MaxBoot, s \in BOOLEAN : DAAdvert(d, b, s) \in Packet
<1> DEFINE R == [type : {"request"}, port : Ports \cup {Closed}, da : Da, item : Item]
<1> DEFINE K == [type : {"SrvAck"}, port : Ports, xid : Int]
<1> DEFINE V == [type : {"DAAdvert"}, da : Da, boot : 0..MaxBoot, solicited : BOOLEAN]
<1>1. Packet = R \cup K \cup V
  BY DEF Packet
<1>2. \A q \in R : /\ q.type = "request" /\ q = Request(q.port, q.da, q.item)
                   /\ q.port \in Ports \cup {Closed} /\ q.da \in Da /\ q.item \in Item
  BY DEF Request
<1>3. \A q \in K : /\ q.type = "SrvAck" /\ q = Ack(q.port, q.xid)
                   /\ q.port \in Ports /\ q.xid \in Int
  BY DEF Ack
<1>4. \A q \in V : q.type = "DAAdvert" /\ q.da \in Da /\ q.boot \in 0..MaxBoot
  OBVIOUS
<1>5. \A p \in Ports \cup {Closed}, d \in Da, i \in Item : Request(p, d, i) \in R
  BY DEF Request
<1>6. \A p \in Ports, x \in Int : Ack(p, x) \in K
  BY DEF Ack
<1>7. \A d \in Da, b \in 0..MaxBoot, s \in BOOLEAN : DAAdvert(d, b, s) \in V
  BY DEF DAAdvert
<1> HIDE DEF R, K, V
<1> QED
  BY <1>1, <1>2, <1>3, <1>4, <1>5, <1>6, <1>7

\* Packets are told apart by their types.
LEMMA Kinds ==
    /\ \A p, d, i : LET q == Request(p, d, i)
                   IN q.type = "request" /\ q.port = p /\ q.da = d /\ q.item = i
    /\ \A p, x : Ack(p, x).type = "SrvAck" /\ Ack(p, x).port = p /\ Ack(p, x).xid = x
    /\ \A d, b, s : LET q == DAAdvert(d, b, s)
                   IN q.type = "DAAdvert" /\ q.da = d /\ q.boot = b
  BY DEF Request, Ack, DAAdvert

\* What is put into a send list is a registration or a deregistration.
LEMMA ItemKinds ==
    /\ \A m \in SrvReg : Reg(m) \in Item
    /\ \A m \in [url : Url, scopes : ScopeList, peer : Peer, xid : Int] : Dereg(m) \in Item
    /\ \A i \in Item : i.function = "SRVREG" => i.msg \in SrvReg
  <1>1. Xid \subseteq Nat
    BY ForwardingAssumption DEF ForwardingAssumption
  <1>2. \A m \in SrvReg : m.xid \in Int
    <2>1. \A m \in SrvReg : m.xid \in Xid
      BY DEF SrvReg
    <2>2. \A x \in Xid : x \in Int
      BY <1>1
    <2> QED
      BY <2>1, <2>2
  <1>3. \A m \in SrvReg : Reg(m) \in [function : {"SRVREG"}, xid : Int, msg : SrvReg]
    BY <1>2 DEF Reg
  <1>4. \A m \in [url : Url, scopes : ScopeList, peer : Peer, xid : Int] :
           Dereg(m) \in [function : {"SRVDEREG"}, xid : Int,
                         msg : [url : Url, scopes : ScopeList, peer : Peer, xid : Int]]
    BY DEF Dereg
  <1> QED
    BY <1>3, <1>4 DEF Item

\* What a list of registrations gives to send, and what a message leaves of it.
LEMMA OwnEntriesProperties ==
    ASSUME NEW S, NEW db \in Seq(S), NEW d \in Da, NEW immortalonly \in BOOLEAN
    PROVE  /\ OwnEntries(db, d, immortalonly) \in Seq(S)
           /\ ToSet(OwnEntries(db, d, immortalonly)) =
                {e \in ToSet(db) : /\ Serves(d, e)
                                   /\ immortalonly => ~(e.lifetime < MaxLifetime)}
  <1> DEFINE Drop(e) == \/ immortalonly /\ e.lifetime < MaxLifetime
                        \/ e.source = "REMOTE"
                        \/ e.scopes \cap DaScopes[d] = {}
  <1> DEFINE I == {i \in DOMAIN db : ~Drop(db[i])}
  <1> DEFINE J == InOrder(I)
  <1> DEFINE kept == [n \in DOMAIN J |-> db[J[n]]]
  <1>1. OwnEntries(db, d, immortalonly) = kept
    BY DEF OwnEntries, Dropping
  <1>2. I \in SUBSET DOMAIN db
    OBVIOUS
  <1>3. kept \in Seq(S) /\ ToSet(kept) = {db[i] : i \in I}
    <2> HIDE DEF I
    <2> QED
      BY <1>2, KeptProperties
  <1> HIDE DEF kept
  <1>4. ToSet(kept) = {e \in ToSet(db) : ~Drop(e)}
    BY <1>3 DEF ToSet
  <1> QED
    BY <1>1, <1>3, <1>4 DEF Serves

\* What is sent for the whole list is a list of such items.
LEMMA RegisterAllProperties ==
    ASSUME NEW db \in Seq(Entry), NEW d \in Da, NEW immortalonly \in BOOLEAN
    PROVE  /\ RegisterAll(db, d, immortalonly) \in Seq(Item)
           /\ DeregisterAll(db, d) \in Seq(Item)
  <1> DEFINE some == OwnEntries(db, d, immortalonly)
  <1> DEFINE all == OwnEntries(db, d, FALSE)
  <1>1. some \in Seq(Entry) /\ all \in Seq(Entry)
    BY OwnEntriesProperties
  <1>2. some = OwnEntries(db, d, immortalonly) /\ all = OwnEntries(db, d, FALSE)
    OBVIOUS
  <1> HIDE DEF some, all
  <1>3. /\ Len(some) \in Nat /\ DOMAIN some = 1..Len(some)
        /\ \A n \in 1..Len(some) : some[n] \in Entry
        /\ Len(all) \in Nat /\ DOMAIN all = 1..Len(all)
        /\ \A n \in 1..Len(all) : all[n] \in Entry
    BY <1>1, LenProperties, ElementOfSeq
  <1>4. \A e \in Entry : BufferOf(e) \in SrvReg
    BY DEF BufferOf, Entry, SrvReg
  <1>5. \A e \in Entry, n \in Nat :
          DeregOf(e, n) \in [url : Url, scopes : ScopeList, peer : Peer, xid : Int]
    <2>1. AgentAddr \in Peer
      BY ForwardingAssumption DEF ForwardingAssumption
    <2>2. \A n \in Nat : -n \in Int
      OBVIOUS
    <2>3. \A e \in Entry : e.url \in Url /\ e.scopes \in ScopeList
      BY DEF Entry
    <2> QED
      BY <2>1, <2>2, <2>3 DEF DeregOf
  <1>6. \A n \in 1..Len(some) : Reg(BufferOf(some[n])) \in Item
    BY <1>3, <1>4, ItemKinds
  <1>7. \A n \in 1..Len(all) : Dereg(DeregOf(all[n], n)) \in Item
    <2>1. \A n \in 1..Len(all) : n \in Nat
      BY <1>3
    <2> QED
      BY <1>3, <1>5, <2>1, ItemKinds
  <1>8. RegisterAll(db, d, immortalonly) = [n \in 1..Len(some) |-> Reg(BufferOf(some[n]))]
    BY <1>2, <1>3 DEF RegisterAll
  <1>9. DeregisterAll(db, d) = [n \in 1..Len(all) |-> Dereg(DeregOf(all[n], n))]
    BY <1>2, <1>3 DEF DeregisterAll
  <1>10. RegisterAll(db, d, immortalonly) \in [1..Len(some) -> Item]
    BY <1>6, <1>8
  <1>11. DeregisterAll(db, d) \in [1..Len(all) -> Item]
    BY <1>7, <1>9
  <1>12. RegisterAll(db, d, immortalonly) \in Seq(Item)
    BY <1>3, <1>10
  <1>13. DeregisterAll(db, d) \in Seq(Item)
    BY <1>3, <1>11
  <1> QED
    BY <1>12, <1>13

\* The handlers make lists of entries from lists of entries.
LEMMA HandlersKeepTheType ==
    ASSUME NEW db \in Seq(Entry)
    PROVE  /\ \A m \in SrvReg : DatabaseReg(db, m) \in Seq(Entry)
           /\ \A m : DeRegResult(db, m) = "OK" => Deregistered(db, m) \in Seq(Entry)
           /\ RegfileRead(db) \in Seq(Entry)
  <1>1. \A m \in SrvReg : NewEntry(m) \in Entry
    BY NewEntryProperties
  <1>2. \A m : DeRegResult(db, m) = "OK" => FirstMatch(db, m) # 0
    BY DEF DeRegResult
  <1>3. \A m \in ToSet(StaticRegs) : m \in SrvReg
    <2>1. StaticRegs \in Seq(SrvReg)
      BY ForwardingAssumption DEF ForwardingAssumption
    <2> QED
      BY <2>1, LenProperties, ElementOfSeq DEF ToSet
  <1> QED
    BY <1>1, <1>2, <1>3, DatabaseRegProperties, DeregisteredProperties, RegfileReadProperties

\* The packets of closed sockets: their requests stay, without a port to answer.
LEMMA OrphanedProperties ==
    ASSUME NEW packets \in SUBSET Packet, NEW ports \in SUBSET Ports
    PROVE  /\ Orphaned(packets, ports) \in SUBSET Packet
           /\ \A r \in Orphaned(packets, ports) :
                 \/ r \in packets /\ (r.type # "DAAdvert" => r.port \notin ports)
                 \/ \E q \in packets : /\ q.type = "request"
                                       /\ r = Request(Closed, q.da, q.item)
           /\ \A q \in packets : q.type = "DAAdvert" => q \in Orphaned(packets, ports)
  <1> DEFINE kept == {q \in packets : ~(q.type = "SrvAck" /\ q.port \in ports)}
  <1> DEFINE moved(q) == IF q.type = "request" /\ q.port \in ports
                         THEN [q EXCEPT !.port = Closed] ELSE q
  <1>1. Orphaned(packets, ports) = {moved(q) : q \in kept}
    BY DEF Orphaned
  <1>2. \A q \in packets : q.type = "request" =>
          [q EXCEPT !.port = Closed] = Request(Closed, q.da, q.item)
    <2> SUFFICES ASSUME NEW q \in packets, q.type = "request"
                 PROVE  [q EXCEPT !.port = Closed] = Request(Closed, q.da, q.item)
      OBVIOUS
    <2>1. q = Request(q.port, q.da, q.item)
      BY PacketKinds
    <2> QED
      BY <2>1 DEF Request
  <1>3. \A q \in kept : IF q.type = "request" /\ q.port \in ports
                        THEN moved(q) = Request(Closed, q.da, q.item)
                        ELSE moved(q) = q
    BY <1>2
  <1>4. \A q \in packets : q.type = "request" => Request(Closed, q.da, q.item) \in Packet
    BY PacketKinds
  <1>5. \A q \in packets : q.type \in {"request", "SrvAck", "DAAdvert"}
    BY DEF Packet
  <1> HIDE DEF moved
  <1> QED
    BY <1>1, <1>3, <1>4, <1>5

\* A load of messages opens sockets and writes requests that are well typed.
LEMMA SendTypes ==
    ASSUME TypeInv, NEW load, NEW port, DOMAIN load \in SUBSET Da,
           \A d \in DOMAIN load : load[d] \in Seq(Item), Sends(load, port)
    PROVE  SocketsOK' /\ PacketsOK'
<1> DEFINE new == {port[d] : d \in DOMAIN load}
<1>1. /\ DOMAIN sock \subseteq Ports /\ \A p \in DOMAIN sock : sock[p] \in Socket
      /\ net \subseteq Packet
      /\ \A q \in net : q.type = "SrvAck" => q.port \in DOMAIN sock
      /\ \A q \in net : q.type = "request" => q.port \in DOMAIN sock \cup {Closed}
  BY DEF TypeInv, TypeOK, PacketsOK
<1>2. /\ \A d \in DOMAIN load : port[d] \in Ports
      /\ DOMAIN sock' = DOMAIN sock \cup new
      /\ \A p \in DOMAIN sock : sock'[p] = sock[p]
      /\ \A d \in DOMAIN load : sock'[port[d]] = SocketFor(d, load)
      /\ net' = net \cup Packets(port, load)
  BY DEF Sends
<1>3. \A d \in DOMAIN load : SocketFor(d, load) \in Socket
  <2>1. 0 \in 0..(MaxRetransmits - 1)
    BY ForwardingAssumption, LenProperties, EmptySeq DEF ForwardingAssumption, MaxRetransmits
  <2> QED
    BY <2>1 DEF SocketFor, Socket
<1>4. SocketsOK'
  BY <1>1, <1>2, <1>3 DEF SocketsOK
<1>5. \A q \in Packets(port, load) :
        q \in Packet /\ q.type = "request" /\ q.port \in DOMAIN sock'
  <2> SUFFICES ASSUME NEW d \in DOMAIN load, NEW i \in ToSet(load[d])
               PROVE  LET q == Request(port[d], d, i)
                      IN  q \in Packet /\ q.type = "request" /\ q.port \in DOMAIN sock'
    BY DEF Packets
  <2>1. i \in Item
    BY LenProperties, ElementOfSeq DEF ToSet
  <2>2. d \in Da /\ port[d] \in Ports \cup {Closed} /\ port[d] \in DOMAIN sock'
    BY <1>2
  <2>3. Request(port[d], d, i) \in Packet
    BY <2>1, <2>2, PacketKinds
  <2>4. Request(port[d], d, i).type = "request" /\ Request(port[d], d, i).port = port[d]
    BY Kinds
  <2> QED
    BY <2>2, <2>3, <2>4
<1>6. PacketsOK'
  BY <1>1, <1>2, <1>5 DEF PacketsOK
<1> QED
  BY <1>4, <1>6

(* What SLPDOutgoingRetry does: the sockets with nothing left to send and  *)
(* those that give up are closed, and the DAs of the latter forgotten; the *)
(* others stay, with what they have to send, and perhaps write it again.   *)
Closing == {p \in DOMAIN sock : sock[p].sendlist = <<>> \/ GivesUp(sock[p])}

\* A retry closes sockets and forgets DAs, and touches no send list that stays.
LEMMA RetryProperties ==
    ASSUME TypeInv, Retry
    PROVE  /\ DOMAIN sock' = DOMAIN sock \ Closing
           /\ \A p \in DOMAIN sock' :
                 /\ sock'[p] \in Socket
                 /\ sock'[p].da = sock[p].da
                 /\ sock'[p].sendlist = sock[p].sendlist
           /\ known' \in [Da -> 0..MaxBoot]
           /\ \A d \in Da : known'[d] \in {0, known[d]}
           /\ \A p \in Closing : sock[p].sendlist # <<>> => known'[sock[p].da] = 0
           /\ \A q \in Orphaned(net, Closing) : q \in net'
           /\ \A q \in net' :
                 \/ q \in Orphaned(net, Closing)
                 \/ \E p \in DOMAIN sock' : \E i \in ToSet(sock[p].sendlist) :
                       q = Request(p, sock[p].da, i)
<1> DEFINE done     == {p \in DOMAIN sock : sock[p].sendlist = <<>>}
<1> DEFINE givesup  == {p \in DOMAIN sock : GivesUp(sock[p])}
<1> DEFINE waiting  == DOMAIN sock \ (done \cup givesup)
<1> DEFINE resends  == {p \in waiting : Due(sock[p])}
<1>1. /\ sock' = [p \in waiting |->
                    IF p \in resends
                    THEN [sock[p] EXCEPT !.age = 0, !.reconns = @ + 1]
                    ELSE [sock[p] EXCEPT !.age = @ + 1]]
      /\ known' = [d \in Da |-> IF d \in Forgotten(givesup) THEN 0 ELSE known[d]]
      /\ net' = Orphaned(net, done \cup givesup) \cup Written([p \in resends |-> sock[p]])
  BY DEF Retry
<1>2. done \cup givesup = Closing
  BY DEF Closing
<1>3. /\ \A p \in DOMAIN sock : sock[p] \in Socket
      /\ known \in [Da -> 0..MaxBoot]
      /\ MaxBoot \in Nat /\ MaxRetransmits \in Nat
  BY ForwardingAssumption, LenProperties DEF TypeInv, TypeOK, ForwardingAssumption, MaxRetransmits
<1>4. \A p \in waiting : /\ p \in DOMAIN sock /\ sock[p].sendlist # <<>>
                         /\ ~GivesUp(sock[p])
  OBVIOUS
<1>5. \A p \in resends : sock[p].reconns + 1 < MaxRetransmits
  <2> SUFFICES ASSUME NEW p \in resends PROVE sock[p].reconns + 1 < MaxRetransmits
    OBVIOUS
  <2>1. ~(sock[p].reconns + 1 >= MaxRetransmits)
    BY <1>4 DEF GivesUp
  <2>2. sock[p].reconns \in Nat
    BY <1>3 DEF Socket
  <2> QED
    BY <1>3, <2>1, <2>2
<1>6. ASSUME NEW p \in waiting
      PROVE  /\ sock'[p] \in Socket
             /\ sock'[p].da = sock[p].da
             /\ sock'[p].sendlist = sock[p].sendlist
  <2>1. /\ sock[p].da \in Da /\ sock[p].sendlist \in Seq(Item)
        /\ sock[p].age \in Nat /\ sock[p].reconns \in 0..(MaxRetransmits - 1)
        /\ sock[p] = [da |-> sock[p].da, sendlist |-> sock[p].sendlist,
                      age |-> sock[p].age, reconns |-> sock[p].reconns]
    BY <1>3 DEF Socket
  <2>2. CASE p \in resends
    <3>1. sock[p].reconns + 1 \in 0..(MaxRetransmits - 1)
      BY <1>3, <1>5, <2>1, <2>2
    <3>2. sock'[p] = [sock[p] EXCEPT !.age = 0, !.reconns = @ + 1]
      BY <1>1, <2>2
    <3> HIDE DEF resends
    <3>3. sock'[p] = [da |-> sock[p].da, sendlist |-> sock[p].sendlist,
                      age |-> 0, reconns |-> sock[p].reconns + 1]
      BY <2>1, <3>2
    <3> QED
      BY <2>1, <3>1, <3>3 DEF Socket
  <2>3. CASE p \notin resends
    <3>1. sock'[p] = [sock[p] EXCEPT !.age = @ + 1]
      BY <1>1, <2>3
    <3> HIDE DEF resends
    <3>2. sock'[p] = [da |-> sock[p].da, sendlist |-> sock[p].sendlist,
                      age |-> sock[p].age + 1, reconns |-> sock[p].reconns]
      BY <2>1, <3>1
    <3>3. sock[p].age + 1 \in Nat
      BY <2>1
    <3> QED
      BY <2>1, <3>2, <3>3 DEF Socket
  <2> QED
    BY <2>2, <2>3
<1>7. DOMAIN sock' = waiting /\ waiting = DOMAIN sock \ Closing
  BY <1>1, <1>2
<1>8. /\ \A d \in Da : known'[d] = IF d \in Forgotten(givesup) THEN 0 ELSE known[d]
      /\ known' \in [Da -> 0..MaxBoot]
  <2>1. 0 \in 0..MaxBoot
    BY <1>3
  <2> HIDE DEF givesup
  <2> QED
    BY <1>1, <1>3, <2>1
<1>9. \A p \in Closing : sock[p].sendlist # <<>> => known'[sock[p].da] = 0
  <2> SUFFICES ASSUME NEW p \in Closing, sock[p].sendlist # <<>>
               PROVE  known'[sock[p].da] = 0
    OBVIOUS
  <2>1. p \in givesup /\ sock[p] \in Socket
    BY <1>3 DEF Closing
  <2>2. sock[p].da \in Forgotten(givesup) /\ sock[p].da \in Da
    BY <2>1 DEF Forgotten, Socket
  <2> QED
    BY <1>8, <2>2
<1>10. \A q \in Written([p \in resends |-> sock[p]]) :
          \E p \in resends : \E i \in ToSet(sock[p].sendlist) : q = Request(p, sock[p].da, i)
  <2> DEFINE again == [p \in resends |-> sock[p]]
  <2>1. DOMAIN again = resends /\ \A p \in resends : again[p] = sock[p]
    OBVIOUS
  <2>2. Written(again) =
          UNION {{Request(p, again[p].da, i) : i \in ToSet(again[p].sendlist)} :
                    p \in DOMAIN again}
    BY DEF Written
  <2> HIDE DEF again, resends
  <2>3. \A q \in Written(again) : \E p \in resends :
           q \in {Request(p, again[p].da, i) : i \in ToSet(again[p].sendlist)}
    BY <2>1, <2>2
  <2>4. \A q \in Written(again) :
          \E p \in resends : \E i \in ToSet(sock[p].sendlist) : q = Request(p, sock[p].da, i)
    BY <2>1, <2>3
  <2> QED
    BY <2>4 DEF again
<1> HIDE DEF done, givesup
<1> QED
  BY <1>1, <1>2, <1>6, <1>7, <1>8, <1>9, <1>10

\* What an answer leaves of a socket.
LEMMA PrunedProperties ==
    ASSUME NEW s \in Socket, NEW xid
    PROVE  /\ Pruned(s, xid) \in Socket
           /\ Pruned(s, xid).da = s.da
           /\ ToSet(Pruned(s, xid).sendlist) = {i \in ToSet(s.sendlist) : i.xid # xid}
<1> DEFINE list == s.sendlist
<1> DEFINE I == {n \in DOMAIN list : ~(list[n].xid = xid)}
<1> DEFINE J == InOrder(I)
<1> DEFINE rest == [n \in DOMAIN J |-> list[J[n]]]
<1>1. /\ s = [da |-> s.da, sendlist |-> s.sendlist, age |-> s.age, reconns |-> s.reconns]
      /\ s.da \in Da /\ list \in Seq(Item) /\ s.age \in Nat
      /\ s.reconns \in 0..(MaxRetransmits - 1)
  BY DEF Socket
<1>2. Pruned(s, xid) = [s EXCEPT !.sendlist = rest]
  BY DEF Pruned, Dropping
<1>3. I \in SUBSET DOMAIN list
  OBVIOUS
<1>4. rest \in Seq(Item) /\ ToSet(rest) = {list[n] : n \in I}
  <2>1. list \in Seq(Item)
    BY <1>1
  <2> HIDE DEF I, list
  <2> QED
    BY <1>3, <2>1, KeptProperties
<1> HIDE DEF rest
<1>5. ToSet(rest) = {i \in ToSet(list) : i.xid # xid}
  BY <1>4 DEF ToSet
<1>6. Pruned(s, xid) = [da |-> s.da, sendlist |-> rest, age |-> s.age, reconns |-> s.reconns]
  BY <1>1, <1>2
<1> QED
  BY <1>1, <1>4, <1>5, <1>6 DEF Socket

\* Every step keeps the types.
LEMMA TypeStep ==
    ASSUME TypeInv, [Next]_vars
    PROVE  TypeInv'
<1> USE DEF TypeInv
<1>0. /\ running \in BOOLEAN /\ database \in Seq(Entry) /\ known \in [Da -> 0..MaxBoot]
      /\ SocketsOK /\ PacketsOK
      /\ boot \in [Da -> 0..MaxBoot] /\ up \subseteq Da /\ dadb \in [Da -> Seq(Entry)]
  BY DEF TypeOK, SocketsOK, PacketsOK
<1>A. /\ RegMsg \subseteq {m \in SrvReg : m.peer # Unspec} /\ DeregMsg \subseteq SrvDereg
      /\ Xid \subseteq Nat /\ MaxBoot \in Nat /\ AgentAddr \in Peer
      /\ 0 \in 0..MaxBoot
  BY ForwardingAssumption DEF ForwardingAssumption
\* A step is typed if what it changes is.
<1>T. ASSUME /\ running' \in BOOLEAN /\ database' \in Seq(Entry)
             /\ known' \in [Da -> 0..MaxBoot]
             /\ SocketsOK' /\ PacketsOK'
             /\ boot' \in [Da -> 0..MaxBoot] /\ up' \subseteq Da
             /\ dadb' \in [Da -> Seq(Entry)]
      PROVE  TypeInv'
  BY <1>T DEF TypeOK, SocketsOK, PacketsOK
<1>S. ASSUME NEW load, DOMAIN load \in SUBSET Da,
             \A d \in DOMAIN load : load[d] \in Seq(Item), Send(load)
      PROVE  SocketsOK' /\ PacketsOK'
  BY <1>S, SendProperties, SendTypes
<1>U. ASSUME UNCHANGED <<sock, net>> PROVE SocketsOK' /\ PacketsOK'
  BY <1>0, <1>U DEF SocketsOK, PacketsOK
<1>K. Knows \in SUBSET Da
  BY DEF Knows
<1>1. ASSUME NEW m \in RegMsg, ProcessSrvReg(m) PROVE TypeInv'
  <2>1. m \in SrvReg
    BY <1>A
  <2>2. database' \in Seq(Entry)
    BY <1>0, <1>1, <2>1, NewEntryProperties, RegisteredProperties DEF ProcessSrvReg
  <2>3. EchoTo(m) \in SUBSET Da
    BY <1>K DEF EchoTo
  <2>4. <<Reg(m)>> \in Seq(Item)
    BY <2>1, ItemKinds
  <2> DEFINE load == [d \in EchoTo(m) |-> <<Reg(m)>>]
  <2>5. DOMAIN load \in SUBSET Da /\ \A d \in DOMAIN load : load[d] \in Seq(Item)
    BY <2>3, <2>4
  <2>6. Send(load)
    BY <1>1 DEF ProcessSrvReg
  <2>7. SocketsOK' /\ PacketsOK'
    <3> HIDE DEF load
    <3> QED
      BY <2>5, <2>6, <1>S
  <2> QED
    BY <1>0, <1>1, <1>T, <2>2, <2>7 DEF ProcessSrvReg
<1>2. ASSUME NEW m \in DeregMsg, ProcessSrvDeReg(m) PROVE TypeInv'
  <2>1. Dereg(m) \in Item
    <3>1. m \in SrvDereg /\ Xid \subseteq Int
      BY <1>A
    <3>2. m \in [url : Url, scopes : ScopeList, peer : Peer, xid : Int]
      BY <3>1 DEF SrvDereg
    <3> QED
      BY <3>2, ItemKinds
  <2>2. database' \in Seq(Entry)
    BY <1>0, <1>2, HandlersKeepTheType DEF ProcessSrvDeReg
  <2>3. EchoTo(m) \in SUBSET Da
    BY <1>K DEF EchoTo
  <2>4. <<Dereg(m)>> \in Seq(Item)
    BY <2>1
  <2> DEFINE load == [d \in EchoTo(m) |-> <<Dereg(m)>>]
  <2>5. DOMAIN load \in SUBSET Da /\ \A d \in DOMAIN load : load[d] \in Seq(Item)
    BY <2>3, <2>4
  <2>6. Send(load)
    BY <1>2 DEF ProcessSrvDeReg
  <2>7. SocketsOK' /\ PacketsOK'
    <3> HIDE DEF load
    <3> QED
      BY <2>5, <2>6, <1>S
  <2> QED
    BY <1>0, <1>2, <1>T, <2>2, <2>7 DEF ProcessSrvDeReg
<1>3. ASSUME NEW p \in net, ProcessDAAdvert(p) PROVE TypeInv'
  <2>1. p \in Packet /\ p.da \in Da /\ p.boot \in 0..MaxBoot
    BY <1>0, <1>3, PacketKinds DEF ProcessDAAdvert, PacketsOK
  <2>2. known' \in [Da -> 0..MaxBoot]
    BY <1>0, <1>3, <2>1 DEF ProcessDAAdvert
  <2> DEFINE load == [d \in {p.da} |-> RegisterAll(database, d, FALSE)]
  <2>3. DOMAIN load \in SUBSET Da /\ \A d \in DOMAIN load : load[d] \in Seq(Item)
    BY <1>0, <2>1, RegisterAllProperties
  <2>4. Send(load) \/ UNCHANGED <<sock, net>>
    BY <1>3 DEF ProcessDAAdvert
  <2>5. SocketsOK' /\ PacketsOK'
    <3> HIDE DEF load
    <3> QED
      BY <2>3, <2>4, <1>S, <1>U
  <2> QED
    BY <1>0, <1>3, <1>T, <2>2, <2>5 DEF ProcessDAAdvert
<1>4. ASSUME NEW p \in net, ProcessSrvAck(p) PROVE TypeInv'
  <2>1. /\ p.port \in DOMAIN sock
        /\ sock' = [sock EXCEPT ![p.port] = Pruned(@, p.xid)]
        /\ net' = net
    BY <1>4 DEF ProcessSrvAck
  <2>2. \A q \in DOMAIN sock : sock[q] \in Socket
    BY <1>0 DEF SocketsOK
  <2>3. Pruned(sock[p.port], p.xid) \in Socket
    BY <2>1, <2>2, PrunedProperties
  <2>4. DOMAIN sock' = DOMAIN sock /\ \A q \in DOMAIN sock : sock'[q] \in Socket
    BY <2>1, <2>2, <2>3
  <2>5. SocketsOK' /\ PacketsOK'
    BY <1>0, <2>1, <2>4 DEF SocketsOK, PacketsOK
  <2> QED
    BY <1>0, <1>4, <1>T, <2>5 DEF ProcessSrvAck
<1>5. ASSUME Retry PROVE TypeInv'
  <2> DEFINE kept == Orphaned(net, Closing)
  <2>1. net \in SUBSET Packet /\ Closing \in SUBSET Ports
    BY <1>0 DEF PacketsOK, SocketsOK, Closing
  <2>2. /\ kept \in SUBSET Packet
        /\ \A r \in kept :
                 \/ r \in net /\ (r.type # "DAAdvert" => r.port \notin Closing)
                 \/ \E q \in net : q.type = "request" /\ r = Request(Closed, q.da, q.item)
    BY <2>1, OrphanedProperties
  <2> HIDE DEF kept
  <2>3. \A r \in kept : /\ r \in Packet
                        /\ r.type = "SrvAck" => r.port \in DOMAIN sock'
                        /\ r.type = "request" => r.port \in DOMAIN sock' \cup {Closed}
    <3> SUFFICES ASSUME NEW r \in kept
                 PROVE  /\ r \in Packet
                        /\ r.type = "SrvAck" => r.port \in DOMAIN sock'
                        /\ r.type = "request" => r.port \in DOMAIN sock' \cup {Closed}
      OBVIOUS
    <3>1. DOMAIN sock' = DOMAIN sock \ Closing
      BY <1>5, RetryProperties
    <3>2. CASE r \in net /\ (r.type # "DAAdvert" => r.port \notin Closing)
      <4>1. Closed \notin Closing
        BY <2>1, PortAssumption
      <4> QED
        BY <1>0, <2>2, <3>1, <3>2 DEF PacketsOK
    <3>3. CASE \E q \in net : q.type = "request" /\ r = Request(Closed, q.da, q.item)
      BY <2>2, <3>3, Kinds
    <3> QED
      BY <2>2, <3>2, <3>3
  <2>4. ASSUME NEW p \in DOMAIN sock', NEW i \in ToSet(sock[p].sendlist), NEW q,
               q = Request(p, sock[p].da, i)
        PROVE  q \in Packet /\ q.type = "request" /\ q.port \in DOMAIN sock'
    <3>1. p \in DOMAIN sock /\ p \in Ports /\ sock[p] \in Socket
      BY <1>0, <1>5, RetryProperties DEF SocketsOK
    <3>2. sock[p].da \in Da /\ sock[p].sendlist \in Seq(Item)
      BY <3>1 DEF Socket
    <3>3. i \in Item
      BY <3>2, LenProperties, ElementOfSeq DEF ToSet
    <3>4. Request(p, sock[p].da, i) \in Packet
      BY <3>1, <3>2, <3>3, PacketKinds
    <3>5. Request(p, sock[p].da, i).type = "request" /\ Request(p, sock[p].da, i).port = p
      BY Kinds
    <3> QED
      BY <2>4, <3>4, <3>5
  <2>5. \A q \in net' : \/ q \in kept
                        \/ \E p \in DOMAIN sock' : \E i \in ToSet(sock[p].sendlist) :
                               q = Request(p, sock[p].da, i)
    BY <1>5, RetryProperties DEF kept
  <2>6. \A q \in net' : /\ q \in Packet
                        /\ q.type = "SrvAck" => q.port \in DOMAIN sock'
                        /\ q.type = "request" => q.port \in DOMAIN sock' \cup {Closed}
    BY <2>3, <2>4, <2>5
  <2>7. PacketsOK'
    BY <2>6 DEF PacketsOK
  <2>8. SocketsOK' /\ known' \in [Da -> 0..MaxBoot]
    BY <1>0, <1>5, RetryProperties DEF SocketsOK
  <2> QED
    BY <1>0, <1>5, <1>T, <2>7, <2>8 DEF Retry
<1>6. ASSUME ImmortalRefresh PROVE TypeInv'
  <2> DEFINE load == [d \in Knows |-> RegisterAll(database, d, TRUE)]
  <2>1. DOMAIN load \in SUBSET Da /\ \A d \in DOMAIN load : load[d] \in Seq(Item)
    BY <1>0, <1>K, RegisterAllProperties
  <2>2. Send(load)
    BY <1>6 DEF ImmortalRefresh
  <2>3. SocketsOK' /\ PacketsOK'
    <3> HIDE DEF load
    <3> QED
      BY <2>1, <2>2, <1>S
  <2> QED
    BY <1>0, <1>6, <1>T, <2>3 DEF ImmortalRefresh
<1>7. ASSUME StaleDACheck PROVE TypeInv'
  <2>1. known' \in [Da -> 0..MaxBoot]
    BY <1>0, <1>7, <1>A DEF StaleDACheck
  <2>2. SocketsOK' /\ PacketsOK'
    BY <1>7, <1>U DEF StaleDACheck
  <2> QED
    BY <1>0, <1>7, <1>T, <2>1, <2>2 DEF StaleDACheck
<1>8. ASSUME HandleSigHup PROVE TypeInv'
  <2> DEFINE load == [d \in Knows |-> DeregisterAll(database, d)]
  <2>1. DOMAIN load \in SUBSET Da /\ \A d \in DOMAIN load : load[d] \in Seq(Item)
    BY <1>0, <1>K, RegisterAllProperties
  <2>2. Send(load) \/ UNCHANGED <<sock, net>>
    BY <1>8 DEF HandleSigHup
  <2>3. SocketsOK' /\ PacketsOK'
    <3> HIDE DEF load
    <3> QED
      BY <2>1, <2>2, <1>S, <1>U
  <2>4. database' \in Seq(Entry)
    BY <1>0, <1>8, HandlersKeepTheType, ClientsOnlyProperties DEF HandleSigHup
  <2>5. known' \in [Da -> 0..MaxBoot]
    BY <1>8, <1>A DEF HandleSigHup
  <2> QED
    BY <1>0, <1>8, <1>T, <2>3, <2>4, <2>5 DEF HandleSigHup
<1>9. ASSUME HandleSigTerm PROVE TypeInv'
  <2> DEFINE last == UNION {{Request(Closed, d, i) : i \in ToSet(DeregisterAll(database, d))} :
                              d \in Knows}
  <2> DEFINE kept == Orphaned(net, Ports)
  <2>1. net' = kept \cup last /\ sock' = <<>> /\ known' = [d \in Da |-> 0] /\ running' = FALSE
    BY <1>9 DEF HandleSigTerm
  <2>2. \A q \in last : q \in Packet /\ q.type = "request" /\ q.port = Closed
    <3> SUFFICES ASSUME NEW d \in Knows, NEW i \in ToSet(DeregisterAll(database, d))
                 PROVE  LET q == Request(Closed, d, i)
                        IN  q \in Packet /\ q.type = "request" /\ q.port = Closed
      OBVIOUS
    <3>1. d \in Da
      BY <1>K
    <3>2. DeregisterAll(database, d) \in Seq(Item)
      BY <1>0, <3>1, RegisterAllProperties
    <3>3. i \in Item
      BY <3>2, LenProperties, ElementOfSeq DEF ToSet
    <3>4. Request(Closed, d, i) \in Packet
      BY <3>1, <3>3, PacketKinds
    <3>5. Request(Closed, d, i).type = "request" /\ Request(Closed, d, i).port = Closed
      BY Kinds
    <3> QED
      BY <3>4, <3>5
  <2>3. net \in SUBSET Packet
    BY <1>0 DEF PacketsOK
  <2>4. /\ kept \in SUBSET Packet
        /\ \A r \in kept :
                 \/ r \in net /\ (r.type # "DAAdvert" => r.port \notin Ports)
                 \/ \E q \in net : q.type = "request" /\ r = Request(Closed, q.da, q.item)
    BY <2>3, OrphanedProperties
  <2> HIDE DEF kept, last
  <2>5. \A r \in kept : r.type # "SrvAck" /\ (r.type = "request" => r.port = Closed)
    <3> SUFFICES ASSUME NEW r \in kept
                 PROVE  r.type # "SrvAck" /\ (r.type = "request" => r.port = Closed)
      OBVIOUS
    <3>1. CASE r \in net /\ (r.type # "DAAdvert" => r.port \notin Ports)
      <4>1. r.type \in {"SrvAck", "request"} => r.type # "DAAdvert"
        OBVIOUS
      <4>2. r.type = "SrvAck" => r.port \in Ports
        BY <2>3, <3>1, PacketKinds
      <4>3. r.type = "request" => r.port \in Ports \cup {Closed}
        BY <2>3, <3>1, PacketKinds
      <4> QED
        BY <3>1, <4>1, <4>2, <4>3
    <3>2. CASE \E q \in net : q.type = "request" /\ r = Request(Closed, q.da, q.item)
      BY <3>2, Kinds
    <3> QED
      BY <2>4, <3>1, <3>2
  <2>6. DOMAIN sock' = {}
    BY <2>1
  <2>7. SocketsOK' /\ PacketsOK'
    BY <2>1, <2>2, <2>4, <2>5, <2>6 DEF SocketsOK, PacketsOK
  <2>8. known' \in [Da -> 0..MaxBoot]
    BY <2>1, <1>A
  <2> QED
    BY <1>0, <1>9, <1>T, <2>1, <2>7, <2>8 DEF HandleSigTerm
<1>10. ASSUME NEW p \in net, DaProcess(p) PROVE TypeInv'
  <2>1. p \in Packet /\ p.da \in Da /\ p.item \in Item /\ p.port \in DOMAIN sock \cup {Closed}
    BY <1>0, <1>10, PacketKinds DEF DaProcess, PacketsOK
  <2>2. dadb[p.da] \in Seq(Entry)
    BY <1>0, <2>1
  <2>3. p.item.function = "SRVREG" =>
          DaRegistered(p.da, AtDa(p.item.msg)) \in Seq(Entry)
    <3> SUFFICES ASSUME p.item.function = "SRVREG"
                 PROVE  DaRegistered(p.da, AtDa(p.item.msg)) \in Seq(Entry)
      OBVIOUS
    <3>1. p.item.msg \in SrvReg
      BY <2>1, ItemKinds
    <3>2. AtDa(p.item.msg) \in SrvReg
      BY <3>1, <1>A DEF AtDa, SrvReg
    <3> QED
      BY <2>2, <3>2, HandlersKeepTheType DEF DaRegistered
  <2>4. DaDeregistered(p.da, AtDa(p.item.msg)) \in Seq(Entry)
    BY <2>2, HandlersKeepTheType DEF DaDeregistered
  <2>5. dadb' \in [Da -> Seq(Entry)]
    BY <1>0, <1>10, <2>1, <2>3, <2>4 DEF DaProcess
  <2>6. p.port # Closed => Ack(p.port, p.item.xid) \in Packet
    <3>1. p.port # Closed => p.port \in Ports
      BY <1>0, <2>1 DEF SocketsOK
    <3>2. p.item.xid \in Int
      BY <2>1 DEF Item
    <3> QED
      BY <3>1, <3>2, PacketKinds
  <2>7. PacketsOK'
    BY <1>0, <1>10, <2>1, <2>6, Kinds DEF DaProcess, PacketsOK
  <2>8. SocketsOK'
    BY <1>0, <1>10 DEF DaProcess, SocketsOK
  <2> QED
    BY <1>0, <1>10, <1>T, <2>5, <2>7, <2>8 DEF DaProcess
<1>11. ASSUME NEW d \in Da, NEW solicited \in BOOLEAN, DaAdvertise(d, solicited) PROVE TypeInv'
  <2>1. DAAdvert(d, boot[d], solicited) \in Packet
    BY <1>0, PacketKinds
  <2>2. PacketsOK' /\ SocketsOK'
    BY <1>0, <1>11, <2>1, Kinds DEF DaAdvertise, PacketsOK, SocketsOK
  <2> QED
    BY <1>0, <1>11, <1>T, <2>2 DEF DaAdvertise
<1>12. ASSUME NEW d \in Da, DaStart(d) PROVE TypeInv'
  <2>1. boot[d] + 1 \in 0..MaxBoot
    BY <1>0, <1>12, <1>A DEF DaStart
  <2>2. boot' \in [Da -> 0..MaxBoot]
    BY <1>0, <1>12, <2>1 DEF DaStart
  <2>3. dadb' \in [Da -> Seq(Entry)] /\ up' \subseteq Da
    BY <1>0, <1>12 DEF DaStart
  <2>4. SocketsOK' /\ PacketsOK'
    BY <1>12, <1>U DEF DaStart
  <2> QED
    BY <1>0, <1>12, <1>T, <2>2, <2>3, <2>4 DEF DaStart
<1>13. ASSUME NEW d \in Da, DaStop(d) PROVE TypeInv'
  <2>1. DAAdvert(d, 0, FALSE) \in Packet
    BY <1>A, PacketKinds
  <2>2. sock' = sock /\ (net' = net \/ net' = net \cup {DAAdvert(d, 0, FALSE)})
    BY <1>13 DEF DaStop
  <2>3. DAAdvert(d, 0, FALSE).type = "DAAdvert"
    BY DEF DAAdvert
  <2>4. PacketsOK' /\ SocketsOK'
    BY <1>0, <2>1, <2>2, <2>3 DEF PacketsOK, SocketsOK
  <2>5. up' \subseteq Da
    BY <1>0, <1>13 DEF DaStop
  <2> QED
    BY <1>0, <1>13, <1>T, <2>4, <2>5 DEF DaStop
<1>14. ASSUME NEW p \in net, Lose(p) PROVE TypeInv'
  <2>1. PacketsOK' /\ SocketsOK'
    BY <1>0, <1>14 DEF Lose, PacketsOK, SocketsOK
  <2> QED
    BY <1>0, <1>14, <1>T, <2>1 DEF Lose
<1>15. ASSUME UNCHANGED vars PROVE TypeInv'
  BY <1>0, <1>15, <1>T, <1>U DEF vars
<1> QED
  BY <1>1, <1>2, <1>3, <1>4, <1>5, <1>6, <1>7, <1>8, <1>9, <1>10, <1>11, <1>12, <1>13,
     <1>14, <1>15 DEF Next

\* They hold at first.
LEMMA InitTypes == Init => TypeInv
<1> SUFFICES ASSUME Init PROVE TypeInv
  OBVIOUS
<1>1. database \in Seq(Entry)
  <2>1. <<>> \in Seq(Entry)
    OBVIOUS
  <2> QED
    BY <2>1, HandlersKeepTheType DEF Init
<1>2. 0 \in 0..MaxBoot
  BY ForwardingAssumption DEF ForwardingAssumption
<1>3. DOMAIN sock = {}
  BY DEF Init
<1> QED
  BY <1>1, <1>2, <1>3 DEF Init, TypeInv, TypeOK, PacketsOK

\* The variables of slpd, of its network and of the DAs stay in their types.
THEOREM TypeCorrect == Spec => []TypeOK
<1>1. Init => TypeInv
  BY InitTypes
<1>2. TypeInv /\ [Next]_vars => TypeInv'
  BY TypeStep
<1>3. TypeInv => TypeOK
  BY DEF TypeInv
<1> QED
  BY <1>1, <1>2, <1>3, PTL DEF Spec

-----------------------------------------------------------------------------
(* The one place where a socket is closed with messages that nobody has    *)
(* acknowledged, while slpd runs, is SLPDOutgoingRetry, and there its DA   *)
(* is dropped from the list of known DAs in the same step.                 *)
Abandons ==
    running' => \A p \in DOMAIN sock \ DOMAIN sock' :
        sock[p].sendlist # <<>> => known'[sock[p].da] = 0

\* Sending closes no socket.
LEMMA SendCloses ==
    ASSUME NEW load, DOMAIN load \in SUBSET Da, Send(load)
    PROVE  DOMAIN sock \ DOMAIN sock' = {}
  BY SendProperties DEF Sends

\* A socket that closes with something unanswered leaves its DA forgotten.
LEMMA AbandonsStep ==
    ASSUME TypeInv, [Next]_vars
    PROVE  Abandons
<1>K. Knows \in SUBSET Da
  BY DEF Knows
<1>N. ASSUME DOMAIN sock \ DOMAIN sock' = {} PROVE Abandons
  BY <1>N DEF Abandons
<1>1. ASSUME NEW m, \/ ProcessSrvReg(m)
                    \/ ProcessSrvDeReg(m)
      PROVE  Abandons
  <2> DEFINE load(i) == [d \in EchoTo(m) |-> <<i>>]
  <2>1. \A i : DOMAIN load(i) \in SUBSET Da
    BY <1>K DEF EchoTo
  <2>2. Send(load(Reg(m))) \/ Send(load(Dereg(m)))
    BY <1>1 DEF ProcessSrvReg, ProcessSrvDeReg
  <2> HIDE DEF load
  <2> QED
    BY <2>1, <2>2, <1>N, SendCloses
<1>2. ASSUME NEW p \in net, ProcessDAAdvert(p) PROVE Abandons
  <2> DEFINE load == [d \in {p.da} |-> RegisterAll(database, d, FALSE)]
  <2>1. DOMAIN load \in SUBSET Da
    BY <1>2, PacketKinds DEF ProcessDAAdvert, TypeInv, PacketsOK
  <2>2. Send(load) \/ sock' = sock
    BY <1>2 DEF ProcessDAAdvert
  <2> HIDE DEF load
  <2> QED
    BY <2>1, <2>2, <1>N, SendCloses
<1>3. ASSUME NEW p \in net, ProcessSrvAck(p) PROVE Abandons
  BY <1>3, <1>N DEF ProcessSrvAck
<1>4. ASSUME Retry PROVE Abandons
  <2>1. DOMAIN sock \ DOMAIN sock' \subseteq Closing
    BY <1>4, RetryProperties
  <2>2. \A p \in Closing : sock[p].sendlist # <<>> => known'[sock[p].da] = 0
    BY <1>4, RetryProperties
  <2> QED
    BY <2>1, <2>2 DEF Abandons
<1>5. ASSUME ImmortalRefresh PROVE Abandons
  <2> DEFINE load == [d \in Knows |-> RegisterAll(database, d, TRUE)]
  <2>1. DOMAIN load \in SUBSET Da /\ Send(load)
    BY <1>K, <1>5 DEF ImmortalRefresh
  <2> HIDE DEF load
  <2> QED
    BY <2>1, <1>N, SendCloses
<1>6. ASSUME HandleSigHup PROVE Abandons
  <2> DEFINE load == [d \in Knows |-> DeregisterAll(database, d)]
  <2>1. DOMAIN load \in SUBSET Da /\ (Send(load) \/ sock' = sock)
    BY <1>K, <1>6 DEF HandleSigHup
  <2> HIDE DEF load
  <2> QED
    BY <2>1, <1>N, SendCloses
<1>7. ASSUME HandleSigTerm PROVE Abandons
  BY <1>7 DEF HandleSigTerm, Abandons
<1>8. ASSUME sock' = sock PROVE Abandons
  BY <1>8, <1>N
<1>9. ASSUME \/ StaleDACheck
             \/ \E p \in net : DaProcess(p) \/ Lose(p)
             \/ \E d \in Da, solicited \in BOOLEAN : DaAdvertise(d, solicited)
             \/ \E d \in Da : DaStart(d) \/ DaStop(d)
             \/ UNCHANGED vars
      PROVE  Abandons
  BY <1>8, <1>9 DEF StaleDACheck, DaProcess, Lose, DaAdvertise, DaStart, DaStop, vars
<1> QED
  BY <1>1, <1>2, <1>3, <1>4, <1>5, <1>6, <1>7, <1>9 DEF Next

(* No registration that still waits for its acknowledgement is dropped     *)
(* without a trace: SLPDOutgoingRetry, and nothing else, closes its socket,*)
(* and forgets the DA, whose next advertisement has everything sent again. *)
THEOREM ClosedMeansForgotten == Spec => UnansweredIsForgotten
<1>1. Init => TypeInv
  BY InitTypes
<1>2. TypeInv /\ [Next]_vars => TypeInv'
  BY TypeStep
<1>3. TypeInv /\ [Next]_vars => Abandons
  BY AbandonsStep
<1>4. Spec => []TypeInv
  BY <1>1, <1>2, PTL DEF Spec
<1>5. Spec => [][Abandons]_vars
  BY <1>3, <1>4, PTL DEF Spec
<1> QED
  BY <1>5 DEF UnansweredIsForgotten, Abandons

-----------------------------------------------------------------------------
\* What a registration leaves of a list, without a word on identical entries.
LEMMA RegisteredHolds ==
    ASSUME NEW S, NEW db \in Seq(S), NEW m
    PROVE  /\ NewEntry(m) \in ToSet(Registered(db, m))
           /\ \A e \in ToSet(db) : e \in ToSet(Registered(db, m)) \/ Matches(e, m)
           /\ \A e \in ToSet(Registered(db, m)) : e \in ToSet(db) \/ e = NewEntry(m)
<1> DEFINE i == FirstMatch(db, m)
<1> DEFINE others == IF i = 0 THEN db ELSE RemoveAt(db, i)
<1>1. /\ Len(db) \in Nat /\ DOMAIN db = 1..Len(db) /\ i \in 0..Len(db)
      /\ i # 0 => Matches(db[i], m)
  BY LenProperties, FirstMatchProperties
<1>2. Registered(db, m) = Append(others, NewEntry(m))
  BY DEF Registered
<1> HIDE DEF i
<1>3. /\ others \in Seq(S)
      /\ \A e \in ToSet(others) : e \in ToSet(db)
      /\ \A e \in ToSet(db) : e \in ToSet(others) \/ Matches(e, m)
  <2>1. CASE i = 0
    BY <2>1
  <2>2. CASE i # 0
    <3> DEFINE short == RemoveAt(db, i)
    <3>0. i \in 1..Len(db)
      BY <1>1, <2>2
    <3>1. /\ short \in Seq(S) /\ Len(short) = Len(db) - 1
          /\ \A k \in 1..(Len(db) - 1) : short[k] = db[IF k < i THEN k ELSE k + 1]
      BY <3>0, RemoveAtProperties
    <3>2. DOMAIN short = 1..(Len(db) - 1)
      BY <3>1, LenProperties
    <3> HIDE DEF short
    <3>3. \A k \in DOMAIN short : short[k] \in ToSet(db)
      BY <1>1, <3>1, <3>2 DEF ToSet
    <3>4. \A k \in 1..Len(db) : db[k] \in ToSet(short) \/ k = i
      <4> SUFFICES ASSUME NEW k \in 1..Len(db), k # i PROVE db[k] \in ToSet(short)
        OBVIOUS
      <4>1. CASE k < i
        <5>1. k \in DOMAIN short /\ short[k] = db[k]
          BY <1>1, <3>1, <3>2, <4>1
        <5> QED
          BY <5>1 DEF ToSet
      <4>2. CASE k > i
        <5>1. /\ k - 1 \in 1..(Len(db) - 1) /\ ~(k - 1 < i)
              /\ (k - 1) + 1 = k
          BY <1>1, <3>0, <4>2
        <5>2. k - 1 \in DOMAIN short /\ short[k - 1] = db[k]
          BY <3>1, <3>2, <5>1
        <5> QED
          BY <5>2 DEF ToSet
      <4> QED
        BY <1>1, <4>1, <4>2
    <3>5. others = short
      BY <2>2 DEF short
    <3>6. \A e \in ToSet(short) : e \in ToSet(db)
      BY <3>3 DEF ToSet
    <3>7. \A e \in ToSet(db) : e \in ToSet(short) \/ Matches(e, m)
      BY <1>1, <2>2, <3>4 DEF ToSet
    <3> QED
      BY <3>1, <3>5, <3>6, <3>7
  <2> QED
    BY <2>1, <2>2
<1> HIDE DEF others
<1>4. ToSet(Append(others, NewEntry(m))) = ToSet(others) \cup {NewEntry(m)}
  <2> DEFINE new == Append(others, NewEntry(m))
  <2>1. Len(others) \in Nat /\ DOMAIN others = 1..Len(others)
    BY <1>3, LenProperties
  <2>2. /\ DOMAIN new = 1..(Len(others) + 1)
        /\ \A k \in 1..Len(others) : new[k] = others[k]
        /\ new[Len(others) + 1] = NewEntry(m)
    BY <1>3, AppendProperties, LenProperties
  <2> HIDE DEF new
  <2>3. \A k \in DOMAIN new : k \in DOMAIN others \/ k = Len(others) + 1
    BY <2>1, <2>2
  <2>4. Len(others) + 1 \in DOMAIN new /\ DOMAIN others \subseteq DOMAIN new
    BY <2>1, <2>2
  <2>5. ToSet(new) = ToSet(others) \cup {NewEntry(m)}
    BY <2>1, <2>2, <2>3, <2>4 DEF ToSet
  <2> QED
    BY <2>5 DEF new
<1> QED
  BY <1>2, <1>3, <1>4

-----------------------------------------------------------------------------
(* Nothing gets lost.  What that rests on: messages of one URL agree on    *)
(* its scopes, only messages of one URL share a transaction id, so that an *)
(* answer names one service, and nothing is taken back while it is on its  *)
(* way.                                                                    *)
Msg == RegMsg \cup ToSet(StaticRegs)

OneIdPerService ==
    /\ \A m, n \in Msg : m.url = n.url => m.scopes = n.scopes
    /\ \A m, n \in Msg : m.xid = n.xid => m.url = n.url

NothingTakenBack == DeregMsg = {} /\ "HUP" \notin Signals

SameService(m, e) == m.url = e.url /\ m.scopes = e.scopes

\* What the agent may hold, what a DA may hold from it, and what is sent.
Own == {e \in Entry : BufferOf(e) \in Msg /\ e.url \notin BadUrl}

Theirs == {h \in Entry : h.peer = AgentAddr /\ \E m \in Msg : SameService(m, h)}

RegItem == {Reg(m) : m \in Msg}

Entries == database \in Seq(Own) /\ dadb \in [Da -> Seq(Theirs)]

\* Registrations are sent, and one that has a socket goes to the DA of the socket.
Sent ==
    /\ \A p \in DOMAIN sock : ToSet(sock[p].sendlist) \subseteq RegItem
    /\ \A q \in net : q.type = "request" =>
          q.item \in RegItem /\ (q.port # Closed => sock[q.port].da = q.da)

\* No bootstamp is ahead of its DA.
Boots ==
    /\ \A d \in Da : known[d] <= boot[d]
    /\ \A d \in up : boot[d] # 0
    /\ \A q \in net : q.type = "DAAdvert" => q.boot <= boot[q.da]

(* A registration is in a send list, and there is no acknowledgement on    *)
(* its way that would take it from there.                                  *)
Unanswered(d, e) ==
    \E p \in DOMAIN sock :
        /\ sock[p].da = d
        /\ \E i \in ToSet(sock[p].sendlist) :
              SameService(i.msg, e) /\ Ack(p, i.xid) \notin net

HeldOrUnanswered ==
    \A d \in Da : InTouch(d) =>
        \A e \in ToSet(database) : Serves(d, e) => HeldBy(d, e) \/ Unanswered(d, e)

Forwarded == running => Entries /\ Sent /\ Boots /\ HeldOrUnanswered

-----------------------------------------------------------------------------
\* The messages of the agent, and what they become in a list.
LEMMA MsgTypes ==
    /\ Msg \subseteq SrvReg
    /\ \A m \in SrvReg : BufferOf(NewEntry(m)) = m
    /\ \A m \in Msg : NewEntry(m).url = m.url /\ NewEntry(m).scopes = m.scopes
    /\ \A m \in Msg : m.url \notin BadUrl => NewEntry(m) \in Own
    /\ \A m \in Msg : NewEntry(AtDa(m)) \in Theirs
<1>1. Msg \subseteq SrvReg
  <2>1. RegMsg \subseteq SrvReg /\ StaticRegs \in Seq(SrvReg)
    BY ForwardingAssumption DEF ForwardingAssumption
  <2>2. \A m \in ToSet(StaticRegs) : m \in SrvReg
    BY <2>1, LenProperties, ElementOfSeq DEF ToSet
  <2> QED
    BY <2>1, <2>2 DEF Msg
<1>2. \A m \in SrvReg : BufferOf(NewEntry(m)) = m
  <2> SUFFICES ASSUME NEW m \in SrvReg PROVE BufferOf(NewEntry(m)) = m
    OBVIOUS
  <2>1. m = [url |-> m.url, type |-> m.type, scopes |-> m.scopes, wire |-> m.wire,
             peer |-> m.peer, pid |-> m.pid, xid |-> m.xid]
    BY DEF SrvReg
  <2> QED
    BY <2>1 DEF BufferOf, NewEntry
<1>3. \A m \in SrvReg : /\ NewEntry(m) \in Entry
                        /\ NewEntry(m).url = m.url /\ NewEntry(m).scopes = m.scopes
  BY NewEntryProperties
<1>4. \A m \in Msg : NewEntry(AtDa(m)) \in Theirs
  <2> SUFFICES ASSUME NEW m \in Msg PROVE NewEntry(AtDa(m)) \in Theirs
    OBVIOUS
  <2>1. AgentAddr \in Peer /\ m \in SrvReg
    BY <1>1, ForwardingAssumption DEF ForwardingAssumption
  <2>2. /\ AtDa(m) \in SrvReg /\ AtDa(m).peer = AgentAddr
        /\ AtDa(m).url = m.url /\ AtDa(m).scopes = m.scopes
    BY <2>1 DEF AtDa, SrvReg
  <2>3. NewEntry(AtDa(m)).peer = AgentAddr
    BY <2>2 DEF NewEntry
  <2> QED
    BY <1>3, <2>2, <2>3 DEF Theirs, SameService
<1> QED
  BY <1>1, <1>2, <1>3, <1>4 DEF Own

(* A DA that processes a registration of the agent keeps a record of every *)
(* service it had one of, and gets one of the message if it serves it: no  *)
(* address is ever found to differ, since the agent is all it hears of.    *)
LEMMA DaRegisteredProperties ==
    ASSUME OneIdPerService, NEW d \in Da, NEW m \in Msg, dadb[d] \in Seq(Theirs)
    PROVE  LET after == DaRegistered(d, AtDa(m)) IN
           /\ after \in Seq(Theirs)
           /\ \A h \in ToSet(dadb[d]) : \E g \in ToSet(after) : SameService(g, h)
           /\ m.url \notin BadUrl /\ m.scopes \cap DaScopes[d] # {} =>
                 \E g \in ToSet(after) : SameService(g, m)
<1> DEFINE r == AtDa(m)
<1> DEFINE db == dadb[d]
<1> DEFINE after == DaRegistered(d, r)
<1>1. m \in SrvReg /\ NewEntry(r) \in Theirs
  BY MsgTypes
<1>2. /\ r.url = m.url /\ r.scopes = m.scopes /\ r.peer = AgentAddr
      /\ NewEntry(r).url = m.url /\ NewEntry(r).scopes = m.scopes
  BY <1>1 DEF AtDa, SrvReg, NewEntry
<1> HIDE DEF r, db
<1>3. db \in Seq(Theirs)
  BY DEF db
<1>4. \A h \in ToSet(db) : h \in Theirs
  BY <1>3, LenProperties, ElementOfSeq DEF ToSet
<1>5. ~Refused(db, r)
  <2> SUFFICES ASSUME FirstMatch(db, r) # 0
               PROVE  ~SourceMismatch(db[FirstMatch(db, r)].peer, r.peer)
    BY DEF Refused
  <2>1. FirstMatch(db, r) \in 1..Len(db)
    BY <1>3, LenProperties, FirstMatchProperties
  <2>2. db[FirstMatch(db, r)] \in Theirs
    BY <1>3, <2>1, ElementOfSeq
  <2> QED
    BY <1>2, <2>2 DEF Theirs, SourceMismatch
<1>6. after = IF r.scopes \cap DaScopes[d] # {} /\ r.url \notin BadUrl
              THEN Registered(db, r) ELSE db
  BY <1>5 DEF DaRegistered, DatabaseReg, RegResult, db
<1> HIDE DEF after
<1>7. Registered(db, r) \in Seq(Theirs)
  BY <1>1, <1>3, RegisteredProperties
<1>8. NewEntry(r) \in ToSet(Registered(db, r)) /\ SameService(NewEntry(r), m)
  BY <1>2, <1>3, RegisteredHolds DEF SameService
<1>9. ASSUME NEW h \in ToSet(db)
      PROVE  \E g \in ToSet(Registered(db, r)) : SameService(g, h)
  <2>1. CASE Matches(h, r)
    <3>1. PICK n \in Msg : SameService(n, h)
      BY <1>4 DEF Theirs
    <3>2. n.url = m.url
      BY <1>2, <2>1, <3>1 DEF Matches, SameService
    <3>3. SameService(NewEntry(r), h)
      BY <1>2, <3>1, <3>2 DEF OneIdPerService, SameService
    <3> QED
      BY <1>8, <3>3
  <2>2. CASE ~Matches(h, r)
    BY <1>3, <2>2, RegisteredHolds DEF SameService
  <2> QED
    BY <2>1, <2>2
<1>10. \A h \in ToSet(db) : \E g \in ToSet(db) : SameService(g, h)
  BY DEF SameService
<1> QED
  BY <1>2, <1>3, <1>6, <1>7, <1>8, <1>9, <1>10 DEF after, r, db

\* RegisterAll sends a registration of each service the DA serves.
LEMMA RegisterAllSends ==
    ASSUME database \in Seq(Own), NEW d \in Da, NEW immortalonly \in BOOLEAN
    PROVE  /\ ToSet(RegisterAll(database, d, immortalonly)) \subseteq RegItem
           /\ \A e \in ToSet(database) : Serves(d, e) =>
                 \E i \in ToSet(RegisterAll(database, d, FALSE)) : SameService(i.msg, e)
<1> DEFINE some == OwnEntries(database, d, immortalonly)
<1> DEFINE all == OwnEntries(database, d, FALSE)
<1>1. /\ some \in Seq(Own) /\ all \in Seq(Own)
      /\ \A e \in ToSet(database) : Serves(d, e) => e \in ToSet(all)
  BY OwnEntriesProperties
<1>2. some = OwnEntries(database, d, immortalonly) /\ all = OwnEntries(database, d, FALSE)
  OBVIOUS
<1> HIDE DEF some, all
<1>3. \A n \in DOMAIN some : some[n] \in Own
  BY <1>1, LenProperties, ElementOfSeq
<1>4. /\ RegisterAll(database, d, immortalonly) = [n \in DOMAIN some |-> Reg(BufferOf(some[n]))]
      /\ RegisterAll(database, d, FALSE) = [n \in DOMAIN all |-> Reg(BufferOf(all[n]))]
  BY <1>2 DEF RegisterAll
<1>5. \A e \in Own : Reg(BufferOf(e)) \in RegItem
  BY DEF Own, RegItem
<1>6. ToSet(RegisterAll(database, d, immortalonly)) \subseteq RegItem
  BY <1>3, <1>4, <1>5 DEF ToSet
<1>7. \A e \in ToSet(all) : Reg(BufferOf(e)) \in ToSet(RegisterAll(database, d, FALSE))
  BY <1>4 DEF ToSet
<1>8. \A e : SameService(Reg(BufferOf(e)).msg, e)
  BY DEF Reg, BufferOf, SameService
<1> QED
  BY <1>1, <1>6, <1>7, <1>8

\* No answer is on its way to a socket that is not open.
LEMMA NewPortIsFresh ==
    ASSUME TypeInv, NEW p, p \notin DOMAIN sock, NEW xid
    PROVE  Ack(p, xid) \notin net
  BY Kinds DEF TypeInv, PacketsOK

(* A load that is sent gets sockets of its own, for whose messages there   *)
(* is no answer yet.  What was unanswered before stays so.                 *)
LEMMA SendKeeps ==
    ASSUME TypeInv, Sent, NEW load, NEW port, DOMAIN load \in SUBSET Da,
           \A d \in DOMAIN load : ToSet(load[d]) \subseteq RegItem,
           Sends(load, port)
    PROVE  /\ Sent'
           /\ \A d, e : Unanswered(d, e) => Unanswered(d, e)'
           /\ \A d \in DOMAIN load : \A e :
                 (\E i \in ToSet(load[d]) : SameService(i.msg, e)) => Unanswered(d, e)'
           /\ \A q \in net' : q.type = "DAAdvert" => q \in net
<1>1. /\ \A d \in DOMAIN load : port[d] \in Ports /\ port[d] \notin DOMAIN sock
      /\ DOMAIN sock' = DOMAIN sock \cup {port[d] : d \in DOMAIN load}
      /\ \A p \in DOMAIN sock : sock'[p] = sock[p]
      /\ net' = net \cup Packets(port, load)
  BY DEF Sends
<1>2. \A d \in DOMAIN load : sock'[port[d]].da = d /\ sock'[port[d]].sendlist = load[d]
  <2> SUFFICES ASSUME NEW d \in DOMAIN load
               PROVE  sock'[port[d]].da = d /\ sock'[port[d]].sendlist = load[d]
    OBVIOUS
  <2>1. sock'[port[d]] = SocketFor(d, load)
    BY DEF Sends
  <2> QED
    BY <2>1 DEF SocketFor
<1>3. \A q \in Packets(port, load) :
        \E d \in DOMAIN load : \E i \in ToSet(load[d]) : q = Request(port[d], d, i)
  BY DEF Packets
<1>4. \A q \in Packets(port, load) :
        /\ q.type = "request" /\ q.item \in RegItem /\ q.port \in DOMAIN sock'
        /\ sock'[q.port].da = q.da
  <2> SUFFICES ASSUME NEW d \in DOMAIN load, NEW i \in ToSet(load[d]), NEW q,
                      q = Request(port[d], d, i)
               PROVE  /\ q.type = "request" /\ q.item \in RegItem /\ q.port \in DOMAIN sock'
                      /\ sock'[q.port].da = q.da
    BY <1>3
  <2>1. q.type = "request" /\ q.port = port[d] /\ q.da = d /\ q.item = i
    BY Kinds
  <2> QED
    BY <1>1, <1>2, <2>1
<1>5. \A q \in net : q.type = "request" /\ q.port # Closed =>
        q.port \in DOMAIN sock /\ sock'[q.port].da = q.da
  BY <1>1 DEF TypeInv, PacketsOK, Sent
<1>6. Sent'
  <2>1. \A p \in DOMAIN sock' : ToSet(sock'[p].sendlist) \subseteq RegItem
    BY <1>1, <1>2 DEF Sent
  <2>2. \A q \in net' : q.type = "request" =>
          q.item \in RegItem /\ (q.port # Closed => sock'[q.port].da = q.da)
    BY <1>1, <1>4, <1>5 DEF Sent
  <2> QED
    BY <2>1, <2>2 DEF Sent
<1>7. \A p, x : Ack(p, x) \notin net => Ack(p, x) \notin net'
  BY <1>1, <1>4, Kinds
<1>8. ASSUME NEW d, NEW e, Unanswered(d, e) PROVE Unanswered(d, e)'
  BY <1>1, <1>7, <1>8 DEF Unanswered
<1>9. ASSUME NEW d \in DOMAIN load, NEW e, NEW i \in ToSet(load[d]), SameService(i.msg, e)
      PROVE  Unanswered(d, e)'
  <2>1. Ack(port[d], i.xid) \notin net
    BY <1>1, NewPortIsFresh
  <2> QED
    BY <1>1, <1>2, <1>7, <1>9, <2>1 DEF Unanswered
<1> QED
  BY <1>1, <1>4, <1>6, <1>8, <1>9

\* A retry keeps the unanswered messages of the DAs it does not forget.
LEMMA RetryKeeps ==
    ASSUME TypeInv, Sent, Retry
    PROVE  /\ Sent'
           /\ \A d \in Da : \A e :
                 Unanswered(d, e) /\ known'[d] # 0 => Unanswered(d, e)'
           /\ \A q \in net' : q.type = "DAAdvert" => q \in net
<1> DEFINE kept == Orphaned(net, Closing)
<1>1. net \in SUBSET Packet /\ Closing \in SUBSET Ports /\ Closed \notin Closing
  BY PortAssumption DEF TypeInv, TypeOK, PacketsOK, Closing
<1>2. \A r \in kept :
          \/ r \in net /\ (r.type # "DAAdvert" => r.port \notin Closing)
          \/ \E q \in net : q.type = "request" /\ r = Request(Closed, q.da, q.item)
  BY <1>1, OrphanedProperties
<1> HIDE DEF kept
<1>3. /\ DOMAIN sock' = DOMAIN sock \ Closing
      /\ \A p \in DOMAIN sock' : /\ sock'[p].da = sock[p].da
                                 /\ sock'[p].sendlist = sock[p].sendlist
  BY RetryProperties
<1>4. /\ \A p \in Closing : sock[p].sendlist # <<>> => known'[sock[p].da] = 0
      /\ \A q \in net' :
           \/ q \in kept
           \/ \E p \in DOMAIN sock' : \E i \in ToSet(sock[p].sendlist) :
                 q = Request(p, sock[p].da, i)
  BY RetryProperties DEF kept
<1>5. ASSUME NEW p \in DOMAIN sock', NEW i \in ToSet(sock[p].sendlist), NEW q,
             q = Request(p, sock[p].da, i)
      PROVE  q.type = "request" /\ q.item \in RegItem /\ q.port = p /\ q.da = sock'[p].da
  <2>1. q.type = "request" /\ q.item = i /\ q.port = p /\ q.da = sock[p].da
    BY <1>5, Kinds
  <2> QED
    BY <1>3, <2>1 DEF Sent
<1>6. ASSUME NEW r \in kept, r.type = "request"
      PROVE  r.item \in RegItem /\ (r.port # Closed => sock'[r.port].da = r.da)
  <2>1. CASE r \in net /\ (r.type # "DAAdvert" => r.port \notin Closing)
    <3>1. r.port # Closed => r.port \in DOMAIN sock'
      BY <1>3, <1>6, <2>1 DEF TypeInv, PacketsOK
    <3> QED
      BY <1>3, <1>6, <2>1, <3>1 DEF Sent
  <2>2. CASE \E q \in net : q.type = "request" /\ r = Request(Closed, q.da, q.item)
    BY <2>2, Kinds DEF Sent
  <2> QED
    BY <1>2, <2>1, <2>2
<1>7. Sent'
  <2>1. \A p \in DOMAIN sock' : ToSet(sock'[p].sendlist) \subseteq RegItem
    BY <1>3 DEF Sent
  <2>2. \A q \in net' : q.type = "request" =>
          q.item \in RegItem /\ (q.port # Closed => sock'[q.port].da = q.da)
    BY <1>4, <1>5, <1>6
  <2> QED
    BY <2>1, <2>2 DEF Sent
<1>8. \A q \in net' : q.type # "request" => q \in net
  BY <1>2, <1>4, <1>5, Kinds
<1>9. \A p, x : Ack(p, x) \notin net => Ack(p, x) \notin net'
  BY <1>8, Kinds
<1>10. ASSUME NEW d \in Da, NEW e, Unanswered(d, e), known'[d] # 0
       PROVE  Unanswered(d, e)'
  <2>1. PICK p \in DOMAIN sock : /\ sock[p].da = d
                                 /\ \E i \in ToSet(sock[p].sendlist) :
                                      SameService(i.msg, e) /\ Ack(p, i.xid) \notin net
    BY <1>10 DEF Unanswered
  <2>2. sock[p].sendlist # <<>>
    BY <2>1 DEF ToSet
  <2>3. p \in DOMAIN sock'
    BY <1>3, <1>4, <1>10, <2>1, <2>2
  <2> QED
    BY <1>3, <1>9, <2>1, <2>3 DEF Unanswered
<1> QED
  BY <1>7, <1>8, <1>10

(* What HeldOrUnanswered says of one DA and one entry.                     *)
HeldOrSent(d, e) == HeldBy(d, e) \/ Unanswered(d, e)

\* Every step keeps each service held or unanswered at every DA in touch.
LEMMA ForwardedStep ==
    ASSUME OneIdPerService, NothingTakenBack, TypeInv, Forwarded, [Next]_vars
    PROVE  Forwarded'
<1> SUFFICES ASSUME running' PROVE (Entries /\ Sent /\ Boots /\ HeldOrUnanswered)'
  BY DEF Forwarded
<1>R. running
  BY DEF Next, vars, ProcessSrvReg, ProcessSrvDeReg, ProcessDAAdvert, ProcessSrvAck, Retry,
         ImmortalRefresh, StaleDACheck, HandleSigHup, HandleSigTerm, DaProcess,
         DaAdvertise, DaStart, DaStop, Lose
<1>0. Entries /\ Sent /\ Boots /\ HeldOrUnanswered
  BY <1>R DEF Forwarded
<1>T. /\ database \in Seq(Own) /\ dadb \in [Da -> Seq(Theirs)]
      /\ known \in [Da -> 0..MaxBoot] /\ boot \in [Da -> 0..MaxBoot] /\ up \subseteq Da
      /\ net \subseteq Packet /\ MaxBoot \in Nat
  BY <1>0, ForwardingAssumption DEF Entries, TypeInv, TypeOK, ForwardingAssumption
<1>K. Knows \in SUBSET Da
  BY DEF Knows
<1>D. \A e \in ToSet(database) : e \in Own
  BY <1>T, LenProperties, ElementOfSeq DEF ToSet
<1>B. \A d \in Da : known[d] \in Nat /\ boot[d] \in Nat /\ known[d] <= boot[d] /\ 0 <= boot[d]
  <2>1. \A d \in Da : known[d] \in 0..MaxBoot /\ boot[d] \in 0..MaxBoot
    BY <1>T
  <2> QED
    BY <1>0, <1>T, <2>1 DEF Boots
\* The agent was in touch before, and what the DA lacks stays unanswered.
<1>H. ASSUME ToSet(database') \subseteq ToSet(database),
             \A d \in Da : InTouch(d)' => InTouch(d),
             \A d \in Da, e \in ToSet(database) :
                InTouch(d)' /\ Serves(d, e) /\ HeldOrSent(d, e) => HeldOrSent(d, e)'
      PROVE  HeldOrUnanswered'
  BY <1>0, <1>H DEF HeldOrUnanswered, HeldOrSent
<1>1. ASSUME NEW m \in RegMsg, ProcessSrvReg(m)
      PROVE  (Entries /\ Sent /\ Boots /\ HeldOrUnanswered)'
  <2> DEFINE load == [d \in EchoTo(m) |-> <<Reg(m)>>]
  <2>1. /\ m \in Msg /\ m \in SrvReg /\ m.peer # Unspec
        /\ Reg(m) \in RegItem /\ Reg(m).msg = m
    BY ForwardingAssumption DEF ForwardingAssumption, Msg, RegItem, Reg
  <2>2. DOMAIN load = EchoTo(m) /\ EchoTo(m) \in SUBSET Da
    BY <1>K DEF EchoTo
  <2>3. \A d \in EchoTo(m) : ToSet(load[d]) = {Reg(m)}
    BY DEF ToSet
  <2>4. PICK port : Sends(load, port)
    <3>1. Send(load)
      BY <1>1 DEF ProcessSrvReg
    <3> HIDE DEF load
    <3> QED
      BY <2>2, <3>1, SendProperties
  <2>5. /\ Sent'
        /\ \A d, e : Unanswered(d, e) => Unanswered(d, e)'
        /\ \A d \in EchoTo(m) : \A e : SameService(m, e) => Unanswered(d, e)'
        /\ \A q \in net' : q.type = "DAAdvert" => q \in net
    <3> HIDE DEF load
    <3>1. \A d \in DOMAIN load : ToSet(load[d]) \subseteq RegItem
      BY <2>1, <2>2, <2>3
    <3>2. \A d \in EchoTo(m) : \A e : SameService(m, e) =>
             \E i \in ToSet(load[d]) : SameService(i.msg, e)
      BY <2>1, <2>3
    <3> QED
      BY <1>0, <2>2, <2>4, <3>1, <3>2, SendKeeps
  <2>6. /\ \/ database' = database
           \/ m.url \notin BadUrl /\ database' = Registered(database, m)
        /\ UNCHANGED <<running, known, boot, up, dadb>>
    BY <1>1 DEF ProcessSrvReg, RegResult
  <2>7. /\ m.url \notin BadUrl => NewEntry(m) \in Own
        /\ NewEntry(m).url = m.url /\ NewEntry(m).scopes = m.scopes
        /\ NewEntry(m).source = SourceOf(m.peer)
    BY <2>1, MsgTypes DEF NewEntry
  <2>8. Entries'
    BY <1>T, <2>6, <2>7, RegisteredProperties DEF Entries
  <2>9. \A e \in ToSet(database') : e \in ToSet(database) \/ e = NewEntry(m)
    BY <1>T, <2>6, RegisteredHolds
  <2>10. Boots'
    BY <1>0, <2>5, <2>6 DEF Boots
  <2>11. ASSUME NEW d \in Da, InTouch(d), Serves(d, NewEntry(m))
         PROVE  d \in EchoTo(m)
    <3>1. d \in Knows
      BY <1>0, <2>11 DEF InTouch, Boots, Knows
    <3>2. m.peer \in Loopback
      BY <2>1, <2>7, <2>11 DEF Serves, SourceOf
    <3>3. m.scopes \cap DaScopes[d] # {}
      BY <2>7, <2>11 DEF Serves
    <3> QED
      BY <3>1, <3>2, <3>3 DEF EchoTo
  <2>12. HeldOrUnanswered'
    <3> SUFFICES ASSUME NEW d \in Da, InTouch(d)', NEW e \in ToSet(database'), Serves(d, e)
                 PROVE  HeldBy(d, e)' \/ Unanswered(d, e)'
      BY DEF HeldOrUnanswered, Serves
    <3>1. InTouch(d)
      BY <2>6 DEF InTouch
    <3>2. HeldBy(d, e) => HeldBy(d, e)'
      BY <2>6 DEF HeldBy
    <3>3. CASE e \in ToSet(database)
      BY <1>0, <2>5, <3>1, <3>2, <3>3 DEF HeldOrUnanswered
    <3>4. CASE e = NewEntry(m)
      <4>1. SameService(m, e) /\ d \in EchoTo(m)
        BY <2>7, <2>11, <3>1, <3>4 DEF SameService
      <4> QED
        BY <2>5, <4>1
    <3> QED
      BY <2>9, <3>3, <3>4
  <2> QED
    BY <2>5, <2>8, <2>10, <2>12
<1>2. ASSUME NEW p \in net, ProcessDAAdvert(p)
      PROVE  (Entries /\ Sent /\ Boots /\ HeldOrUnanswered)'
  <2> DEFINE load == [d \in {p.da} |-> RegisterAll(database, d, FALSE)]
  <2>1. /\ p.type = "DAAdvert" /\ p.da \in Da /\ p.boot \in 0..MaxBoot /\ p.boot <= boot[p.da]
        /\ known' = [known EXCEPT ![p.da] = p.boot]
        /\ UNCHANGED <<running, database, boot, up, dadb>>
    BY <1>0, <1>2, <1>T, PacketKinds DEF ProcessDAAdvert, Boots
  <2>2. /\ DOMAIN load = {p.da} /\ DOMAIN load \in SUBSET Da
        /\ load[p.da] = RegisterAll(database, p.da, FALSE)
    BY <2>1
  <2>3. ToSet(load[p.da]) \subseteq RegItem
    BY <1>T, <2>1, <2>2, RegisterAllSends
  <2>4. \A e \in ToSet(database) : Serves(p.da, e) =>
           \E i \in ToSet(load[p.da]) : SameService(i.msg, e)
    BY <1>T, <2>1, <2>2, RegisterAllSends
  <2>5. IF MustRegister(p) /\ database # <<>> THEN Send(load) ELSE UNCHANGED <<sock, net>>
    BY <1>2 DEF ProcessDAAdvert
  <2> HIDE DEF load
  <2>6. /\ Sent'
        /\ \A d, e : Unanswered(d, e) => Unanswered(d, e)'
        /\ MustRegister(p) => \A e \in ToSet(database) : Serves(p.da, e) => Unanswered(p.da, e)'
        /\ \A q \in net' : q.type = "DAAdvert" => q \in net
    <3>1. CASE MustRegister(p) /\ database # <<>>
      <4>1. PICK port : Sends(load, port)
        BY <2>2, <2>5, <3>1, SendProperties
      <4>2. \A d \in DOMAIN load : ToSet(load[d]) \subseteq RegItem
        BY <2>2, <2>3
      <4>3. /\ Sent'
            /\ \A d, e : Unanswered(d, e) => Unanswered(d, e)'
            /\ \A d \in DOMAIN load : \A e :
                 (\E i \in ToSet(load[d]) : SameService(i.msg, e)) => Unanswered(d, e)'
            /\ \A q \in net' : q.type = "DAAdvert" => q \in net
        BY <1>0, <2>2, <4>1, <4>2, SendKeeps
      <4> QED
        BY <2>2, <2>4, <4>3
    <3>2. CASE ~(MustRegister(p) /\ database # <<>>)
      <4>1. sock' = sock /\ net' = net
        BY <2>5, <3>2
      <4>2. MustRegister(p) => ToSet(database) = {}
        BY <3>2 DEF ToSet
      <4>3. Sent'
        BY <1>0, <4>1 DEF Sent
      <4>4. \A d, e : Unanswered(d, e) => Unanswered(d, e)'
        BY <4>1 DEF Unanswered
      <4> QED
        BY <4>1, <4>2, <4>3, <4>4
    <3> QED
      BY <3>1, <3>2
  <2>7. Entries'
    BY <1>0, <2>1 DEF Entries
  <2>8. Boots'
    BY <1>0, <1>T, <2>1, <2>6 DEF Boots
  <2>9. HeldOrUnanswered'
    <3> SUFFICES ASSUME NEW d \in Da, InTouch(d)', NEW e \in ToSet(database), Serves(d, e)
                 PROVE  HeldBy(d, e)' \/ Unanswered(d, e)'
      BY <2>1 DEF HeldOrUnanswered, Serves
    <3>1. HeldBy(d, e) => HeldBy(d, e)'
      BY <2>1 DEF HeldBy
    <3>2. CASE InTouch(d)
      BY <1>0, <2>6, <3>1, <3>2 DEF HeldOrUnanswered
    <3>3. CASE ~InTouch(d)
      <4>1. d = p.da /\ known[d] # p.boot /\ p.boot # 0
        BY <1>0, <1>T, <1>R, <2>1, <3>3 DEF InTouch, Boots
      <4> QED
        BY <2>6, <4>1 DEF MustRegister
    <3> QED
      BY <3>2, <3>3
  <2> QED
    BY <2>6, <2>7, <2>8, <2>9
<1>3. ASSUME NEW p \in net, ProcessSrvAck(p)
      PROVE  (Entries /\ Sent /\ Boots /\ HeldOrUnanswered)'
  <2>1. /\ p \in Packet /\ p = Ack(p.port, p.xid) /\ p.port \in DOMAIN sock
        /\ sock' = [sock EXCEPT ![p.port] = Pruned(@, p.xid)]
        /\ UNCHANGED <<running, database, known, net, boot, up, dadb>>
    BY <1>3, <1>T, PacketKinds DEF ProcessSrvAck
  <2>2. sock[p.port] \in Socket
    BY <2>1 DEF TypeInv, TypeOK
  <2>3. /\ DOMAIN sock' = DOMAIN sock
        /\ \A q \in DOMAIN sock : q # p.port => sock'[q] = sock[q]
        /\ sock'[p.port].da = sock[p.port].da
        /\ ToSet(sock'[p.port].sendlist) = {i \in ToSet(sock[p.port].sendlist) : i.xid # p.xid}
    BY <2>1, <2>2, PrunedProperties
  <2>4. /\ \A q \in DOMAIN sock : sock'[q].da = sock[q].da
        /\ \A q \in DOMAIN sock : ToSet(sock'[q].sendlist) \subseteq ToSet(sock[q].sendlist)
    BY <2>3
  <2>5. Sent'
    <3>1. \A q \in DOMAIN sock' : ToSet(sock'[q].sendlist) \subseteq RegItem
      BY <1>0, <2>3, <2>4 DEF Sent
    <3>2. \A q \in net : q.type = "request" /\ q.port # Closed => sock'[q.port].da = q.da
      BY <1>0, <2>4 DEF Sent, TypeInv, PacketsOK
    <3> QED
      BY <1>0, <2>1, <3>1, <3>2 DEF Sent
  <2>6. Entries' /\ Boots'
    BY <1>0, <2>1 DEF Entries, Boots
  <2>7. ASSUME NEW d, NEW e, Unanswered(d, e) PROVE Unanswered(d, e)'
    <3>0. PICK q \in DOMAIN sock : sock[q].da = d /\ \E i \in ToSet(sock[q].sendlist) :
             SameService(i.msg, e) /\ Ack(q, i.xid) \notin net
      BY <2>7 DEF Unanswered
    <3>1. PICK i \in ToSet(sock[q].sendlist) : SameService(i.msg, e) /\ Ack(q, i.xid) \notin net
      BY <3>0
    <3>2. i \in ToSet(sock'[q].sendlist)
      BY <2>1, <2>3, <3>1
    <3> QED
      BY <2>1, <2>3, <2>4, <3>0, <3>1, <3>2 DEF Unanswered
  <2>8. HeldOrUnanswered'
    <3>1. \A d \in Da : InTouch(d)' => InTouch(d)
      BY <2>1 DEF InTouch
    <3>2. \A d, e : HeldBy(d, e) => HeldBy(d, e)'
      BY <2>1 DEF HeldBy
    <3> QED
      BY <1>H, <2>1, <2>7, <3>1, <3>2 DEF HeldOrSent
  <2> QED
    BY <2>5, <2>6, <2>8
<1>4. ASSUME Retry
      PROVE  (Entries /\ Sent /\ Boots /\ HeldOrUnanswered)'
  <2>1. /\ Sent'
        /\ \A d \in Da : \A e : Unanswered(d, e) /\ known'[d] # 0 => Unanswered(d, e)'
        /\ \A q \in net' : q.type = "DAAdvert" => q \in net
    BY <1>0, <1>4, RetryKeeps
  <2>2. /\ \A d \in Da : known'[d] \in {0, known[d]}
        /\ UNCHANGED <<running, database, boot, up, dadb>>
    BY <1>4, RetryProperties DEF Retry
  <2>3. Entries'
    BY <1>0, <2>2 DEF Entries
  <2>4. Boots'
    <3>1. \A d \in Da : known'[d] <= boot[d]
      BY <1>B, <2>2
    <3> QED
      BY <1>0, <2>1, <2>2, <3>1 DEF Boots
  <2>5. HeldOrUnanswered'
    <3>1. \A d \in Da : InTouch(d)' => InTouch(d) /\ known'[d] # 0
      BY <1>0, <2>2 DEF InTouch, Boots
    <3>2. \A d, e : HeldBy(d, e) => HeldBy(d, e)'
      BY <2>2 DEF HeldBy
    <3> QED
      BY <1>H, <2>1, <2>2, <3>1, <3>2 DEF HeldOrSent
  <2> QED
    BY <2>1, <2>3, <2>4, <2>5
<1>5. ASSUME ImmortalRefresh
      PROVE  (Entries /\ Sent /\ Boots /\ HeldOrUnanswered)'
  <2> DEFINE load == [d \in Knows |-> RegisterAll(database, d, TRUE)]
  <2>1. DOMAIN load \in SUBSET Da /\ \A d \in DOMAIN load : ToSet(load[d]) \subseteq RegItem
    BY <1>T, <1>K, RegisterAllSends
  <2>2. Send(load) /\ UNCHANGED <<running, database, known, boot, up, dadb>>
    BY <1>5 DEF ImmortalRefresh
  <2> HIDE DEF load
  <2>3. PICK port : Sends(load, port)
    BY <2>1, <2>2, SendProperties
  <2>4. /\ Sent'
        /\ \A d, e : Unanswered(d, e) => Unanswered(d, e)'
        /\ \A q \in net' : q.type = "DAAdvert" => q \in net
    BY <1>0, <2>1, <2>3, SendKeeps
  <2>5. Entries' /\ Boots'
    BY <1>0, <2>2, <2>4 DEF Entries, Boots
  <2>6. HeldOrUnanswered'
    <3>1. \A d \in Da : InTouch(d)' => InTouch(d)
      BY <2>2 DEF InTouch
    <3>2. \A d, e : HeldBy(d, e) => HeldBy(d, e)'
      BY <2>2 DEF HeldBy
    <3> QED
      BY <1>H, <2>2, <2>4, <3>1, <3>2 DEF HeldOrSent
  <2> QED
    BY <2>4, <2>5, <2>6
<1>6. ASSUME NEW q \in net, DaProcess(q)
      PROVE  (Entries /\ Sent /\ Boots /\ HeldOrUnanswered)'
  <2>1. /\ q.type = "request" /\ q.da \in Da
        /\ UNCHANGED <<running, database, known, sock, boot, up>>
        /\ q.item \in RegItem
        /\ q.port # Closed => q.port \in DOMAIN sock /\ sock[q.port].da = q.da
    BY <1>0, <1>6, <1>T, PacketKinds DEF DaProcess, Sent, TypeInv, PacketsOK
  <2>2. PICK m \in Msg : q.item = Reg(m)
    BY <2>1 DEF RegItem
  <2>3. q.item.function = "SRVREG" /\ q.item.msg = m /\ q.item.xid = m.xid
    BY <2>2 DEF Reg
  <2> DEFINE after == DaRegistered(q.da, AtDa(m))
  <2>4. /\ dadb' = [dadb EXCEPT ![q.da] = after]
        /\ net' = net \cup (IF q.port = Closed THEN {} ELSE {Ack(q.port, m.xid)})
    BY <1>6, <2>3 DEF DaProcess
  <2>5. /\ after \in Seq(Theirs)
        /\ \A h \in ToSet(dadb[q.da]) : \E g \in ToSet(after) : SameService(g, h)
        /\ m.url \notin BadUrl /\ m.scopes \cap DaScopes[q.da] # {} =>
              \E g \in ToSet(after) : SameService(g, m)
    BY <1>T, <2>1, DaRegisteredProperties
  <2> HIDE DEF after
  <2>6. /\ dadb' \in [Da -> Seq(Theirs)] /\ dadb'[q.da] = after
        /\ \A d \in Da : d # q.da => dadb'[d] = dadb[d]
    BY <1>T, <2>1, <2>4, <2>5
  <2>7. \A r \in net' : r \in net \/ r.type = "SrvAck"
    BY <2>4, Kinds
  <2>8. Entries' /\ Sent' /\ Boots'
    BY <1>0, <2>1, <2>6, <2>7 DEF Entries, Sent, Boots
  <2>9. ASSUME NEW d \in Da, NEW e \in ToSet(database), Serves(d, e), HeldBy(d, e)
        PROVE  HeldBy(d, e)'
    <3>1. PICK h \in ToSet(dadb[d]) : SameService(h, e)
      BY <2>9 DEF HeldBy, SameService
    <3>2. CASE d = q.da
      BY <2>5, <2>6, <3>1, <3>2 DEF HeldBy, SameService
    <3>3. CASE d # q.da
      BY <2>6, <3>1, <3>3 DEF HeldBy, SameService
    <3> QED
      BY <3>2, <3>3
  <2>10. ASSUME NEW d \in Da, NEW e \in ToSet(database), Serves(d, e), Unanswered(d, e)
         PROVE  HeldBy(d, e)' \/ Unanswered(d, e)'
    <3>0. PICK p \in DOMAIN sock : sock[p].da = d /\ \E i \in ToSet(sock[p].sendlist) :
             SameService(i.msg, e) /\ Ack(p, i.xid) \notin net
      BY <2>10 DEF Unanswered
    <3>1. PICK i \in ToSet(sock[p].sendlist) : SameService(i.msg, e) /\ Ack(p, i.xid) \notin net
      BY <3>0
    <3>2. CASE Ack(p, i.xid) \notin net'
      BY <2>1, <3>0, <3>1, <3>2 DEF Unanswered
    <3>3. CASE Ack(p, i.xid) \in net'
      <4>1. q.port # Closed /\ Ack(p, i.xid) = Ack(q.port, m.xid)
        BY <2>4, <3>1, <3>3
      <4>2. p = q.port /\ i.xid = m.xid
        BY <4>1, Kinds
      <4>3. d = q.da
        BY <2>1, <3>0, <4>1, <4>2
      <4>4. PICK n \in Msg : i = Reg(n)
        BY <1>0, <3>1 DEF Sent, RegItem
      <4>5. i.msg = n /\ i.xid = n.xid
        BY <4>4 DEF Reg
      <4>6. n.url = m.url /\ n.scopes = m.scopes
        BY <4>2, <4>5 DEF OneIdPerService
      <4>7. SameService(m, e) /\ e.url \notin BadUrl
        BY <1>D, <3>1, <4>5, <4>6 DEF SameService, Own
      <4>8. m.url \notin BadUrl /\ m.scopes \cap DaScopes[q.da] # {}
        BY <2>10, <4>3, <4>7 DEF Serves, SameService
      <4>9. PICK g \in ToSet(after) : SameService(g, m)
        BY <2>5, <4>8
      <4> QED
        BY <2>6, <4>3, <4>7, <4>9 DEF HeldBy, SameService
    <3> QED
      BY <3>2, <3>3
  <2>11. HeldOrUnanswered'
    <3>1. \A d \in Da : InTouch(d)' => InTouch(d)
      BY <2>1 DEF InTouch
    <3> QED
      BY <1>H, <2>1, <2>9, <2>10, <3>1 DEF HeldOrSent
  <2> QED
    BY <2>8, <2>11
\* Steps that touch neither the lists nor the sockets, and add no answer.
<1>7. ASSUME database' = database, dadb' = dadb, sock' = sock,
             \A q \in net' : q \in net \/ q.type = "DAAdvert",
             Boots', \A d \in Da : InTouch(d)' => InTouch(d)
      PROVE  (Entries /\ Sent /\ Boots /\ HeldOrUnanswered)'
  <2>1. Entries' /\ Sent'
    BY <1>0, <1>7 DEF Entries, Sent
  <2>2. \A p, x : Ack(p, x) \notin net => Ack(p, x) \notin net'
    BY <1>7, Kinds
  <2>3. \A d, e : HeldOrSent(d, e) => HeldOrSent(d, e)'
    BY <1>7, <2>2 DEF HeldOrSent, HeldBy, Unanswered
  <2> QED
    BY <1>7, <1>H, <2>1, <2>3
<1>8. ASSUME StaleDACheck
      PROVE  (Entries /\ Sent /\ Boots /\ HeldOrUnanswered)'
  <2>1. /\ UNCHANGED <<running, database, sock, net, boot, up, dadb>>
        /\ \A d \in Da : known'[d] \in {0, known[d]}
    BY <1>8, <1>T DEF StaleDACheck
  <2>2. Boots'
    <3>1. \A d \in Da : known'[d] <= boot[d]
      BY <1>B, <2>1
    <3> QED
      BY <1>0, <2>1, <3>1 DEF Boots
  <2>3. \A d \in Da : InTouch(d)' => InTouch(d)
    BY <1>0, <2>1 DEF InTouch, Boots
  <2> QED
    BY <1>7, <2>1, <2>2, <2>3
<1>9. ASSUME NEW d \in Da, NEW solicited \in BOOLEAN, DaAdvertise(d, solicited)
      PROVE  (Entries /\ Sent /\ Boots /\ HeldOrUnanswered)'
  <2> DEFINE a == DAAdvert(d, boot[d], solicited)
  <2>1. /\ net' = net \cup {a} /\ UNCHANGED <<running, database, known, sock, boot, up, dadb>>
        /\ a.type = "DAAdvert" /\ a.da = d /\ a.boot = boot[d]
    BY <1>9 DEF DaAdvertise, DAAdvert
  <2> HIDE DEF a
  <2>2. Boots'
    BY <1>0, <1>T, <2>1 DEF Boots
  <2>3. \A x \in Da : InTouch(x)' => InTouch(x)
    BY <2>1 DEF InTouch
  <2> QED
    BY <1>7, <2>1, <2>2, <2>3
<1>10. ASSUME NEW d \in Da, DaStart(d)
       PROVE  (Entries /\ Sent /\ Boots /\ HeldOrUnanswered)'
  <2>1. /\ d \notin up /\ up' = up \cup {d} /\ boot' = [boot EXCEPT ![d] = @ + 1]
        /\ dadb' = [dadb EXCEPT ![d] = <<>>]
        /\ UNCHANGED <<running, database, known, sock, net>>
    BY <1>10 DEF DaStart
  <2>2. /\ boot'[d] = boot[d] + 1 /\ boot[d] \in Nat /\ known[d] \in Nat
        /\ \A x \in Da : x # d => boot'[x] = boot[x]
        /\ \A x \in Da : x # d => dadb'[x] = dadb[x]
    BY <1>T, <2>1
  <2>3. Entries'
    <3>1. <<>> \in Seq(Theirs)
      OBVIOUS
    <3> QED
      BY <1>T, <2>1, <3>1 DEF Entries
  <2>4. Sent'
    BY <1>0, <2>1 DEF Sent
  <2>5. Boots'
    <3>1. ASSUME NEW x \in Da PROVE boot'[x] \in Nat /\ boot[x] <= boot'[x]
      <4>1. CASE x = d
        BY <1>B, <2>2, <4>1
      <4>2. CASE x # d
        BY <1>B, <2>2, <4>2
      <4> QED
        BY <4>1, <4>2
    <3>2. \A x \in Da : known[x] <= boot'[x]
      BY <1>B, <3>1
    <3>3. \A x \in up' : boot'[x] # 0
      BY <1>0, <1>T, <2>1, <2>2 DEF Boots
    <3>4. ASSUME NEW q \in net, q.type = "DAAdvert" PROVE q.boot <= boot'[q.da]
      <4>1. q.da \in Da /\ q.boot \in Nat /\ q.boot <= boot[q.da]
        BY <1>0, <1>T, <3>4, PacketKinds DEF Boots
      <4> QED
        BY <1>B, <3>1, <4>1
    <3> QED
      BY <2>1, <3>2, <3>3, <3>4 DEF Boots
  <2>6. ~InTouch(d)'
    BY <1>0, <2>1, <2>2 DEF InTouch, Boots
  <2>7. HeldOrUnanswered'
    <3>1. \A x \in Da : InTouch(x)' => InTouch(x) /\ x # d
      BY <2>1, <2>2, <2>6 DEF InTouch
    <3>2. \A x \in Da : \A e : x # d /\ HeldOrSent(x, e) => HeldOrSent(x, e)'
      BY <2>1, <2>2 DEF HeldOrSent, HeldBy, Unanswered
    <3> QED
      BY <1>H, <2>1, <3>1, <3>2
  <2> QED
    BY <2>3, <2>4, <2>5, <2>7
<1>11. ASSUME NEW d \in Da, DaStop(d)
       PROVE  (Entries /\ Sent /\ Boots /\ HeldOrUnanswered)'
  <2>1. /\ up' = up \ {d} /\ UNCHANGED <<running, database, known, sock, boot, dadb>>
        /\ net' = net \/ net' = net \cup {DAAdvert(d, 0, FALSE)}
    BY <1>11 DEF DaStop
  <2>2. \A q \in net' : q \in net \/ (q.type = "DAAdvert" /\ q.da = d /\ q.boot = 0)
    BY <2>1 DEF DAAdvert
  <2>3. Boots'
    BY <1>0, <1>T, <2>1, <2>2 DEF Boots
  <2>4. \A x \in Da : InTouch(x)' => InTouch(x)
    BY <2>1 DEF InTouch
  <2> QED
    BY <1>7, <2>1, <2>2, <2>3, <2>4
<1>12. ASSUME NEW p \in net, Lose(p)
       PROVE  (Entries /\ Sent /\ Boots /\ HeldOrUnanswered)'
  <2>1. net' = net \ {p} /\ UNCHANGED <<running, database, known, sock, boot, up, dadb>>
    BY <1>12 DEF Lose
  <2>2. Boots'
    BY <1>0, <2>1 DEF Boots
  <2>3. \A x \in Da : InTouch(x)' => InTouch(x)
    BY <2>1 DEF InTouch
  <2> QED
    BY <1>7, <2>1, <2>2, <2>3
<1>13. ASSUME UNCHANGED vars
       PROVE  (Entries /\ Sent /\ Boots /\ HeldOrUnanswered)'
  <2>1. Boots'
    BY <1>0, <1>13 DEF Boots, vars
  <2>2. \A x \in Da : InTouch(x)' => InTouch(x)
    BY <1>13 DEF InTouch, vars
  <2> QED
    BY <1>7, <1>13, <2>1, <2>2 DEF vars
<1>14. /\ \A m \in DeregMsg : ~ProcessSrvDeReg(m)
       /\ ~HandleSigHup
       /\ ~HandleSigTerm
  BY DEF NothingTakenBack, HandleSigHup, HandleSigTerm
<1> QED
  BY <1>1, <1>2, <1>3, <1>4, <1>5, <1>6, <1>8, <1>9, <1>10, <1>11, <1>12, <1>13, <1>14 DEF Next

(* A service of the agent that a known DA serves is never missing there    *)
(* without being on its way: not after a lost packet, a DA that crashed    *)
(* and came back, one that was given up or declared stale, and not for an  *)
(* answer to an earlier registration of the same service.                  *)
THEOREM NothingGetsLost ==
    ASSUME OneIdPerService, NothingTakenBack
    PROVE  Spec => []RegisteredOrPending
<1>1. Init => TypeInv /\ Forwarded
  <2> SUFFICES ASSUME Init PROVE Forwarded
    BY InitTypes
  <2>1. database \in Seq(Own)
    <3>1. \A m \in ToSet(StaticRegs) : m.url \notin BadUrl => NewEntry(m) \in Own
      BY MsgTypes DEF Msg
    <3>2. <<>> \in Seq(Own)
      OBVIOUS
    <3> QED
      BY <3>1, <3>2, RegfileReadProperties DEF Init
  <2>2. dadb \in [Da -> Seq(Theirs)]
    <3>1. <<>> \in Seq(Theirs)
      OBVIOUS
    <3> QED
      BY <3>1 DEF Init
  <2>3. DOMAIN sock = {} /\ net = {} /\ up = {}
    BY DEF Init
  <2>4. Sent /\ Boots /\ HeldOrUnanswered
    BY <2>3 DEF Init, Sent, Boots, HeldOrUnanswered, InTouch
  <2> QED
    BY <2>1, <2>2, <2>4 DEF Forwarded, Entries
<1>2. TypeInv /\ Forwarded /\ [Next]_vars => TypeInv' /\ Forwarded'
  BY TypeStep, ForwardedStep
<1>3. Forwarded => RegisteredOrPending
  <2> SUFFICES ASSUME Forwarded, NEW d \in Da, InTouch(d),
                      NEW e \in ToSet(database), Serves(d, e)
               PROVE  HeldBy(d, e) \/ PendingFor(d, e)
    BY DEF RegisteredOrPending
  <2>1. Sent /\ (HeldBy(d, e) \/ Unanswered(d, e))
    BY DEF Forwarded, InTouch, HeldOrUnanswered
  <2>2. \A i \in RegItem : i.function = "SRVREG"
    BY DEF RegItem, Reg
  <2>3. Unanswered(d, e) => PendingFor(d, e)
    BY <2>1, <2>2 DEF Unanswered, PendingFor, Sent, SameService
  <2> QED
    BY <2>1, <2>3
<1> QED
  BY <1>1, <1>2, <1>3, PTL DEF Spec
=============================================================================
