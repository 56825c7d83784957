---------------------------- MODULE SlpdDatabase ----------------------------
(***************************************************************************)
(* The registration database of one slpd: SrvReg and SrvDereg messages,    *)
(* the periodic aging with its watch on client processes, and the re-read  *)
(* of the reg file on SIGHUP (slpd_database.c, the two registration        *)
(* handlers of slpd_process.c), together with the IPv6 multicast sockets a *)
(* registration opens and a removal closes (slpd_incoming.c).              *)
(*                                                                         *)
(* slpd is one thread: every handler runs to its end before the next one   *)
(* starts, and each is one action here.  The exception is the loop of      *)
(* SLPDDatabaseReInit over the reg file, one record per step; while        *)
(* `regfile' is not empty slpd is inside that loop and does nothing else.  *)
(***************************************************************************)
EXTENDS SlpdRegistrations

CONSTANTS
    UseScopes,   \* net.slp.useScopes, the scopes this agent serves
    IsDA,        \* whether it is a directory agent
    IPv6,        \* whether IPv6 is enabled (SLPNetIsIPV6)
    Group,       \* the multicast group a service type hashes to
    RegMsg,      \* the SrvReg messages that may arrive
    DeregMsg,    \* the SrvDereg messages that may arrive
    RegRecord,   \* the registrations the reg file may hold
    BadRecord,   \* a record of it SLPDRegFileReadSrvReg cannot read
    RegFile      \* the contents it may have

ASSUME DatabaseAssumption ==
    /\ UseScopes \subseteq Scope
    /\ IsDA \in BOOLEAN
    /\ IPv6 \in BOOLEAN
    /\ DOMAIN Group = SrvType
    /\ RegMsg \subseteq {m \in SrvReg : m.peer # Unspec}
    /\ DeregMsg \subseteq SrvDereg
    /\ RegRecord \subseteq {m \in SrvReg : m.peer = Unspec /\ m.wire > 0 /\ m.pid = NoPid}
    /\ RegFile \subseteq Seq(RegRecord \cup {BadRecord})

VARIABLES
    database,   \* the list of registrations, oldest first
    listening,  \* how many times the sockets of a group are open
    regfile,    \* what SLPDDatabaseReInit has still to read of the reg file
    alive,      \* the watched processes that exist
    errorcode   \* what the last registration or deregistration came to

vars == <<database, listening, regfile, alive, errorcode>>

\* "NONE": nothing yet, or a multicast message that gets no answer.
ErrorCode == {"NONE", "OK", "INVALID_REGISTRATION", "AUTHENTICATION_FAILED",
              "SCOPE_NOT_SUPPORTED"}

Groups == {Group[t] : t \in SrvType}

\* slpd is in its main loop, not in the loop over the reg file.
Idle == regfile = <<>>
-----------------------------------------------------------------------------
(* SLPDIncomingAddService joins the group on every interface.  A daemon    *)
(* that is allowed to join succeeds: a failed join is only logged.         *)
AddService(t) == [listening EXCEPT ![Group[t]] = @ + 1]

(* SLPDIncomingRemoveService closes every socket on the group of the type. *)
RemoveServices(T) ==
    [g \in Groups |-> IF g \in {Group[t] : t \in T} THEN 0 ELSE listening[g]]

(* SLPDDatabaseReg opens the sockets before it looks for an identical      *)
(* entry, so it opens them for a registration it goes on to refuse.        *)
DatabaseReg(m) ==
    /\ errorcode' = RegResult(database, m)
    /\ database' = IF errorcode' = "OK" THEN Registered(database, m) ELSE database
    /\ listening' = IF m.url \notin BadUrl /\ IPv6 /\ ~SrvtypeUsed(database, m.type)
                    THEN AddService(m.type) ELSE listening

\* A bug: the registrations that remain are not looked at.
StopListening_Always(t, db) == RemoveServices({t})

(* SLPDDatabaseDeReg stops listening when no entry of the type is left.    *)
StopListening(t, db) ==
    IF SrvtypeUsed(db, t) THEN listening ELSE RemoveServices({t})

DatabaseDeReg(m) ==
    /\ errorcode' = DeRegResult(database, m)
    /\ IF errorcode' = "OK"
       THEN /\ database' = Deregistered(database, m)
            /\ listening' = StopListening(database[FirstMatch(database, m)].type,
                                          database')
       ELSE UNCHANGED <<database, listening>>
-----------------------------------------------------------------------------
(* ProcessSrvReg and ProcessSrvDeReg: a multicast message is dropped, one  *)
(* without a scope of ours is refused, the others go to the database.      *)
Processed(m, Handle(_)) ==
    \/ /\ m.scopes \cap UseScopes # {}
       /\ Handle(m)
    \/ /\ m.scopes \cap UseScopes = {}
       /\ errorcode' = "SCOPE_NOT_SUPPORTED"
       /\ UNCHANGED <<database, listening>>
    \/ /\ errorcode' = "NONE"      \* SLP_FLAG_MCAST is set
       /\ UNCHANGED <<database, listening>>

ProcessSrvReg(m) ==
    /\ Idle
    /\ Processed(m, DatabaseReg)
    /\ UNCHANGED <<regfile, alive>>

ProcessSrvDeReg(m) ==
    /\ Idle
    /\ Processed(m, DatabaseDeReg)
    /\ UNCHANGED <<regfile, alive>>

(* SLPDDatabaseAge, run on every SIGALRM.  The service type of an entry it *)
(* removes is no longer listened on, whoever else registered the type.     *)
DatabaseAge ==
    /\ Idle
    /\ database' = AgedList(database, alive, IsDA)
    /\ listening' = RemoveServices(
           {e.type : e \in {f \in ToSet(database) : Dropped(f, alive, IsDA)}})
    /\ UNCHANGED <<regfile, alive, errorcode>>

\* SLPDDatabaseReInit, run on SIGHUP: forget the static entries, open the file.
DatabaseReInit(file) ==
    /\ Idle
    /\ database' = ClientsOnly(database)
    /\ regfile' = file
    /\ UNCHANGED <<listening, alive, errorcode>>

(* One turn of its loop over the file; a record it cannot read ends it.    *)
ReadSrvReg ==
    /\ ~Idle
    /\ IF Head(regfile) = BadRecord
       THEN /\ regfile' = <<>>
            /\ UNCHANGED <<database, listening, errorcode>>
       ELSE /\ regfile' = Tail(regfile)
            /\ \E m \in {Head(regfile)} : DatabaseReg(m)
    /\ UNCHANGED alive

\* The client processes come and go; the kernel may hand out a pid again.
ProcessExit(p) ==
    /\ p \in alive
    /\ alive' = alive \ {p}
    /\ UNCHANGED <<database, listening, regfile, errorcode>>

ProcessStart(p) ==
    /\ p \notin alive
    /\ alive' = alive \cup {p}
    /\ UNCHANGED <<database, listening, regfile, errorcode>>
-----------------------------------------------------------------------------
\* SLPDDatabaseInit: an empty list, then the same loop over the reg file.
Init ==
    /\ database = <<>>
    /\ listening = [g \in Groups |-> 0]
    /\ regfile \in RegFile
    /\ alive = Pid
    /\ errorcode = "NONE"

Next ==
    \/ \E m \in RegMsg : ProcessSrvReg(m)
    \/ \E m \in DeregMsg : ProcessSrvDeReg(m)
    \/ DatabaseAge
    \/ \E file \in RegFile : DatabaseReInit(file)
    \/ ReadSrvReg
    \/ \E p \in Pid : ProcessExit(p) \/ ProcessStart(p)

Spec == Init /\ [][Next]_vars

(* The alarm re-arms itself after every aging and its flag stays up until  *)
(* the main loop comes round to it, however many files are read in between; *)
(* the loop over the file runs to its end.                                 *)
FairSpec == Spec /\ SF_vars(DatabaseAge) /\ WF_vars(ReadSrvReg)
-----------------------------------------------------------------------------
(* Every variable stays in its type: no removal leaves a hole in the list, *)
(* and no aging takes a lifetime below zero (SLPDDatabaseAge removes it).  *)
TypeOK ==
    /\ database \in Seq(Entry)
    /\ listening \in [Groups -> Nat]
    /\ regfile \in Seq(RegRecord \cup {BadRecord})
    /\ alive \subseteq Pid
    /\ errorcode \in ErrorCode

(* 0xffff in the lifetime of an entry means "forever" (SLPDDatabaseAge     *)
(* skips it).  The fix-up of SLPDDatabaseReg adds an interval to what the  *)
(* client asked for and must never turn a mortal registration immortal.    *)
MortalStaysMortal ==
    \A e \in ToSet(database) : e.wire < MaxLifetime => e.lifetime < MaxLifetime

(* No two entries of the list are for one URL and share a scope: what      *)
(* SLPDDatabaseReg's search for an identical entry is there for.           *)
OneRegistrationPerService == OnePerService(database)

(* With net.slp.checkSourceAddr, a SrvReg or a SrvDereg only takes away    *)
(* entries of its own service, and none a different host of the sender's   *)
(* address family has registered.                                          *)
OnlyTheRegistrantReplaces ==
    [][\A e \in ToSet(database) \ ToSet(database'), m \in RegMsg \cup DeregMsg :
         (m \in RegMsg /\ ProcessSrvReg(m)) \/ (m \in DeregMsg /\ ProcessSrvDeReg(m)) =>
           Matches(e, m) /\ ~SourceMismatch(e.peer, m.peer)]_vars

(* A deregistration never closes the sockets of a type that is still       *)
(* registered: SLPDDatabaseDeReg looks for another entry of the type first. *)
DeregKeepsListening ==
    [][(\E m \in DeregMsg : ProcessSrvDeReg(m)) =>
         \A t \in SrvType : SrvtypeUsed(database', t) /\ listening[Group[t]] > 0
                            => listening'[Group[t]] > 0]_vars

(* A process that is gone for good, with its last message processed,       *)
(* leaves no local registration behind that asked for it to be watched     *)
(* (the PID watch of SLPDDatabaseAge).                                     *)
OrphansWithdrawn ==
    \A p \in Pid :
        /\ <>[](p \notin alive)
        /\ <>[][~\E m \in RegMsg : m.pid = p /\ ProcessSrvReg(m)]_vars
        => <>[](\A e \in ToSet(database) : ~(e.source = "LOCAL" /\ e.pid = p))

\* A registration of the URL arrives, or is read from the reg file.
Refresh(u) ==
    \/ \E m \in RegMsg : m.url = u /\ ProcessSrvReg(m)
    \/ ~Idle /\ Head(regfile) # BadRecord /\ Head(regfile).url = u /\ ReadSrvReg

(* A URL nobody registers any more runs out: only its immortal             *)
(* registrations stay.                                                     *)
UnrefreshedExpire ==
    \A u \in Url :
        <>[][~Refresh(u)]_vars =>
        <>[](\A e \in ToSet(database) : e.url = u => Immortal(e, IsDA))

(* Registrations of one URL, and deregistrations, never carry scope lists  *)
(* that overlap without being equal.  The search for an identical entry    *)
(* relies on it: it stops at the first entry that shares a scope.          *)
OneScopeListPerService ==
    \A m \in RegMsg \cup RegRecord, n \in RegMsg \cup RegRecord \cup DeregMsg :
        m.url = n.url => m.scopes = n.scopes \/ m.scopes \cap n.scopes = {}

(* The database implements the registry: to its clients the list is a set  *)
(* with one registration for a service.                                    *)
Registry == INSTANCE ServiceRegistry
                WITH registry <- ToSet(database), RegMsg <- RegMsg \cup RegRecord

ImplementsRegistry == Registry!Spec
-----------------------------------------------------------------------------
(* A service type with a registration is listened on: a registration opens *)
(* the sockets of its type, and they stay open while one is left.          *)
RegisteredTypesAreHeard ==
    IPv6 => \A t \in SrvType : SrvtypeUsed(database, t) => listening[Group[t]] > 0

(* The sockets of a type are opened once: SLPDDatabaseReg adds them only   *)
(* when they are not there already.                                        *)
ListensOnce == \A g \in Groups : listening[g] <= 1

(* Once a SrvDereg is acknowledged with success, its URL is registered in  *)
(* none of the scopes it names.                                            *)
DeregWithdraws ==
    [][\A m \in DeregMsg :
         ProcessSrvDeReg(m) /\ errorcode' = "OK" =>
           \A e \in ToSet(database') : ~Matches(e, m)]_vars
=============================================================================
