------------------------- MODULE SlpdRegistrations -------------------------
(***************************************************************************)
(* The list of service registrations slpd keeps (G_SlpdDatabase), as       *)
(* operators on its value.  slpd_database.c walks a linked list from its   *)
(* head and appends at its tail, so the value is a sequence of entries,    *)
(* oldest first.  The operators are used by every module that holds such a *)
(* list: a service agent and a directory agent run the same code.          *)
(***************************************************************************)
EXTENDS SlpLists, SequencesExt

CONSTANTS
    Url,             \* service URLs a message may carry
    BadUrl,          \* those SLPCheckServiceUrlSyntax refuses
    SrvType,         \* service types
    Scope,           \* scope names
    Peer,            \* addresses of clients and agents
    Loopback,        \* the addresses SLPNetIsLoopback recognises
    Family,          \* the address family of a peer: [Peer -> STRING]
    Xid,             \* transaction ids of messages
    Pid,             \* process ids a registration may ask slpd to watch
    MaxLifetime,     \* SLP_LIFETIME_MAXIMUM, the lifetime that never runs out
    AgeInterval,     \* SLPD_AGE_INTERVAL, seconds between two agings
    CheckSourceAddr  \* net.slp.checkSourceAddr

ASSUME RegistrationsAssumption ==
    /\ BadUrl \subseteq Url
    /\ Loopback \subseteq Peer
    /\ Family \in [Peer -> STRING]
    /\ AgeInterval \in Nat \ {0}
    /\ MaxLifetime \in Nat
    /\ MaxLifetime > AgeInterval
    /\ CheckSourceAddr \in BOOLEAN

\* pid 0: the client did not ask for its process to be watched.
NoPid == "no pid"
\* AF_UNSPEC, the family of the peer of a record read from the reg file.
Unspec == "AF_UNSPEC"

Source == {"LOCAL", "REMOTE", "STATIC"}

Lifetime == 0..MaxLifetime

ScopeList == SUBSET Scope \ {{}}

(***************************************************************************)
(* A registration as it arrives (wire is the lifetime its buffer carries)  *)
(* and as it is kept: `lifetime' counts down, the buffer never changes.    *)
(***************************************************************************)
SrvReg == [url : Url, type : SrvType, scopes : ScopeList, wire : Lifetime,
           peer : Peer \cup {Unspec}, pid : Pid \cup {NoPid}, xid : Xid]

Entry == [url : Url, type : SrvType, scopes : ScopeList, wire : Lifetime,
          peer : Peer \cup {Unspec}, pid : Pid \cup {NoPid}, xid : Xid,
          lifetime : Lifetime, source : Source]

SrvDereg == [url : Url, scopes : ScopeList, peer : Peer, xid : Xid]

-----------------------------------------------------------------------------
\* The source of a registration: the reg file, a loopback peer, or another.
SourceOf(peer) ==
    IF peer = Unspec THEN "STATIC"
    ELSE IF peer \in Loopback THEN "LOCAL" ELSE "REMOTE"

\* A bug: the sum is not kept below SLP_LIFETIME_MAXIMUM.
FixupLifetime_NoClamp(l) ==
    IF l \notin 1..(MaxLifetime - 1) THEN l
    ELSE IF l + AgeInterval > MaxLifetime THEN MaxLifetime ELSE l + AgeInterval

(* "fixup the lifetime a bit": one interval more, but never up to the      *)
(* value that means forever.                                               *)
FixupLifetime(l) ==
    IF l \notin 1..(MaxLifetime - 1) THEN l
    ELSE IF l >= MaxLifetime - AgeInterval THEN MaxLifetime - 1
    ELSE l + AgeInterval

NewEntry(m) ==
    [url |-> m.url, type |-> m.type, scopes |-> m.scopes, wire |-> m.wire,
     peer |-> m.peer, pid |-> m.pid, xid |-> m.xid,
     lifetime |-> FixupLifetime(m.wire), source |-> SourceOf(m.peer)]

\* The loops of Reg and DeReg accept an entry on equal URLs and a scope in common.
Matches(e, m) == e.url = m.url /\ e.scopes \cap m.scopes # {}

\* No entry of the list would be taken for another one's older self.
OnePerService(db) ==
    \A i, j \in DOMAIN db : i # j => ~Matches(db[i], db[j])

\* Where the loop stops: the first match in list order, 0 if it runs to the end.
FirstMatch(db, m) == SelectInSeq(db, LAMBDA e : Matches(e, m))

(* The source address check compares addresses of one family only, so an   *)
(* IPv4 and an IPv6 peer, or a record of the reg file, are never told apart.*)
SourceMismatch(p, q) ==
    /\ CheckSourceAddr
    /\ Unspec \notin {p, q}
    /\ Family[p] = Family[q]
    /\ p # q

\* A bug: the address of the first match is not looked at.
Refused_NoCheck(db, m) == FALSE

Refused(db, m) ==
    LET i == FirstMatch(db, m)
    IN  i # 0 /\ SourceMismatch(db[i].peer, m.peer)

SrvtypeUsed(db, t) == \E i \in DOMAIN db : db[i].type = t

-----------------------------------------------------------------------------
(* SLPDDatabaseReg: the answer, and the list it leaves.                    *)
RegResult(db, m) ==
    IF m.url \in BadUrl THEN "INVALID_REGISTRATION"
    ELSE IF Refused(db, m) THEN "AUTHENTICATION_FAILED"
    ELSE "OK"

\* A bug: the identical entry is not removed before the new one is added.
Registered_KeepOld(db, m) == Append(db, NewEntry(m))

Registered(db, m) ==
    LET i == FirstMatch(db, m)
    IN  Append(IF i = 0 THEN db ELSE RemoveAt(db, i), NewEntry(m))

(* SLPDDatabaseDeReg: the answer, and the list it leaves.                  *)
DeRegResult(db, m) ==
    IF FirstMatch(db, m) = 0 THEN "INVALID_REGISTRATION"
    ELSE IF Refused(db, m) THEN "AUTHENTICATION_FAILED"
    ELSE "OK"

Deregistered(db, m) == RemoveAt(db, FirstMatch(db, m))

-----------------------------------------------------------------------------
(* SLPDDatabaseAge visits every entry once.  It drops a local entry whose  *)
(* process is gone, leaves one with the maximal lifetime alone unless it   *)
(* is a remote one on a directory agent, and ages the others.              *)
\* A bug: the watch is only kept on registrations that run out by themselves.
OwnerDied_Mortal(e, alive) ==
    e.source = "LOCAL" /\ e.pid # NoPid /\ e.pid \notin alive /\ e.lifetime < MaxLifetime

OwnerDied(e, alive) ==
    e.source = "LOCAL" /\ e.pid # NoPid /\ e.pid \notin alive

Immortal(e, ageall) ==
    e.lifetime = MaxLifetime /\ (~ageall \/ e.source # "REMOTE")

Expires(e, ageall) == ~Immortal(e, ageall) /\ e.lifetime <= AgeInterval

Dropped(e, alive, ageall) == OwnerDied(e, alive) \/ Expires(e, ageall)

\* A bug: a directory agent ages what it holds for others only.
Aged_RemoteOnly(e, ageall) ==
    IF Immortal(e, ageall) \/ (ageall /\ e.source # "REMOTE")
    THEN e ELSE [e EXCEPT !.lifetime = @ - AgeInterval]

Aged(e, ageall) ==
    IF Immortal(e, ageall) THEN e ELSE [e EXCEPT !.lifetime = @ - AgeInterval]

\* A bug: the walk over the list steps over the entry behind a removed one.
AgedList_SkipsOne(db, alive, ageall) ==
    LET kept == Dropping(db, LAMBDA e : Dropped(e, alive, ageall))
    IN  [n \in DOMAIN kept |->
            IF n > 1 \/ kept[n] = db[1] THEN Aged(kept[n], ageall) ELSE kept[n]]

AgedList(db, alive, ageall) ==
    LET kept == Dropping(db, LAMBDA e : Dropped(e, alive, ageall))
    IN  [n \in DOMAIN kept |-> Aged(kept[n], ageall)]

\* The first loop of SLPDDatabaseReInit removes what came from the reg file.
ClientsOnly(db) == Dropping(db, LAMBDA e : e.source = "STATIC")
=============================================================================
