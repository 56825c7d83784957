--------------------------- MODULE SlpdForwarding ---------------------------
(***************************************************************************)
(* How the registrations of one slpd reach the directory agents it knows:  *)
(* the list of known DAs (slpd_knownda.c), the UDP sockets with the        *)
(* messages still to be acknowledged (slpd_outgoing.c), their retry, the   *)
(* pruning of a message its answer names (slpd_process.c), SIGHUP and      *)
(* SIGTERM (slpd_main.c), and the network in between.  A directory agent   *)
(* runs the registration code of SlpdRegistrations itself.                 *)
(*                                                                         *)
(* Every message to a DA goes over a UDP socket of its own with a send     *)
(* list; SLPDOutgoingConnect is never asked for a stream.  The network may *)
(* lose, reorder and duplicate packets: one that was received stays where  *)
(* it is until it is lost.                                                 *)
(*                                                                         *)
(* Nothing runs out here: aging is left to SlpdDatabase, and a behaviour   *)
(* of this module is short beside the lifetimes of its registrations.      *)
(***************************************************************************)
EXTENDS SlpdRegistrations

CONSTANTS
    UseScopes,           \* net.slp.useScopes of the agent
    IsDA,                \* whether the agent is a DA itself
    AgentAddr,           \* the address the DAs see it at
    RegMsg, DeregMsg,    \* what its clients may send
    Multicast,           \* the values SLP_FLAG_MCAST may have in it
    StaticRegs,          \* the records of its reg file, a sequence
    Da,                  \* the directory agents of the network, without it
    DaScopes,            \* the scopes of each
    PassiveDADetection,  \* net.slp.passiveDADetection
    ActiveDiscovery,     \* net.slp.DAActiveDiscoveryInterval # 0
    StaleDADetection,    \* net.slp.staleDACheckPeriod # 0
    Timeouts,            \* net.slp.unicastTimeouts, in seconds
    Signals,             \* the signals the agent may get
    Ports,               \* bound: the UDP sockets it may have open at a time
    MaxBoot              \* bound: how often a DA is started

ASSUME ForwardingAssumption ==
    /\ UseScopes \subseteq Scope
    /\ IsDA \in BOOLEAN
    /\ AgentAddr \in Peer \ Loopback
    /\ RegMsg \subseteq {m \in SrvReg : m.peer # Unspec}
    /\ DeregMsg \subseteq SrvDereg
    /\ Xid \subseteq Nat
    /\ Multicast \subseteq BOOLEAN
    /\ StaticRegs \in Seq({m \in SrvReg : m.peer = Unspec})
    /\ DaScopes \in [Da -> SUBSET Scope]
    /\ IsFiniteSet(Da)
    /\ PassiveDADetection \in BOOLEAN
    /\ ActiveDiscovery \in BOOLEAN
    /\ StaleDADetection \in BOOLEAN
    /\ Timeouts \in Seq(Nat) /\ Timeouts # <<>>
    /\ Signals \subseteq {"HUP", "TERM"}
    /\ IsFiniteSet(Ports)
    /\ MaxBoot \in Nat

VARIABLES
    running,   \* slpd has not been terminated
    database,  \* its registrations
    known,     \* the bootstamp of each DA it knows, 0 for one it does not
    sock,      \* its open sockets: whom they talk to and what is unanswered
    net,       \* the packets on their way
    boot,      \* the bootstamp of each DA, 0 before its first start
    up,        \* the DAs that are up
    dadb       \* the registrations each DA holds

vars == <<running, database, known, sock, net, boot, up, dadb>>

\* Where an answer goes whose socket has been closed.
Closed == 0

ASSUME PortAssumption == Closed \notin Ports

MaxRetransmits == Len(Timeouts)
-----------------------------------------------------------------------------
(* What a send list holds: a SrvReg or a SrvDereg.                         *)
Reg(m) == [function |-> "SRVREG", xid |-> m.xid, msg |-> m]

Dereg(m) == [function |-> "SRVDEREG", xid |-> m.xid, msg |-> m]

Request(port, da, item) ==
    [type |-> "request", port |-> port, da |-> da, item |-> item]

Ack(port, xid) == [type |-> "SrvAck", port |-> port, xid |-> xid]

DAAdvert(da, bootstamp, solicited) ==
    [type |-> "DAAdvert", da |-> da, boot |-> bootstamp, solicited |-> solicited]

Knows == {d \in Da : known[d] # 0}

(* The buffer of an entry, as it came from the client: the lifetime the    *)
(* client asked for, and the client's transaction id.                      *)
BufferOf(e) ==
    [url |-> e.url, type |-> e.type, scopes |-> e.scopes, wire |-> e.wire,
     peer |-> e.peer, pid |-> e.pid, xid |-> e.xid]

(* MakeSrvderegFromSrvReg: a new transaction id for every message.         *)
DeregOf(e, n) ==
    [url |-> e.url, scopes |-> e.scopes, peer |-> AgentAddr, xid |-> -n]

(* The entries RegisterAll and DeregisterAll enumerate for a DA.           *)
OwnEntries(db, d, immortalonly) ==
    Dropping(db, LAMBDA e : \/ immortalonly /\ e.lifetime < MaxLifetime
                        \/ e.source = "REMOTE"
                        \/ e.scopes \cap DaScopes[d] = {})

RegisterAll(db, d, immortalonly) ==
    LET own == OwnEntries(db, d, immortalonly)
    IN  [n \in DOMAIN own |-> Reg(BufferOf(own[n]))]

DeregisterAll(db, d) ==
    LET own == OwnEntries(db, d, FALSE)
    IN  [n \in DOMAIN own |-> Dereg(DeregOf(own[n], n))]
-----------------------------------------------------------------------------
(* SLPDOutgoingConnect for each DA of a load, then each message linked to  *)
(* the send list of its socket and written once.                           *)
PortFor(D, open) ==
    CHOOSE port \in [D -> Ports \ open] :
        \A d, e \in D : port[d] = port[e] => d = e

CanOpen(D, open) == Cardinality(D) <= Cardinality(Ports \ open)

Opened(load, socks) ==
    LET port == PortFor(DOMAIN load, DOMAIN socks)
    IN  [p \in {port[d] : d \in DOMAIN load} |->
            LET d == CHOOSE x \in DOMAIN load : port[x] = p
            IN  [da |-> d, sendlist |-> load[d], age |-> 0, reconns |-> 0]]

\* The packets a round of writing puts on the network.
Written(socks) ==
    UNION {{Request(p, socks[p].da, i) : i \in ToSet(socks[p].sendlist)} :
              p \in DOMAIN socks}

(* A closed socket gets no answer any more, whatever is still on its way.  *)
Orphaned(packets, ports) ==
    {IF p.type = "request" /\ p.port \in ports THEN [p EXCEPT !.port = Closed] ELSE p :
        p \in {q \in packets : ~(q.type = "SrvAck" /\ q.port \in ports)}}

Send(load) ==
    /\ CanOpen(DOMAIN load, DOMAIN sock)
    /\ LET new == Opened(load, sock)
       IN  /\ sock' = [p \in DOMAIN new \cup DOMAIN sock |->
                         IF p \in DOMAIN new THEN new[p] ELSE sock[p]]
           /\ net' = net \cup Written(new)
-----------------------------------------------------------------------------
\* What SLPDDatabaseReg leaves of a list, whether it takes the message or not.
DatabaseReg(db, m) ==
    IF RegResult(db, m) = "OK" THEN Registered(db, m) ELSE db

\* The second loop of SLPDDatabaseReInit: record by record, whatever becomes of it.
RegfileRead(db) == FoldLeft(DatabaseReg, db, StaticRegs)

\* SLPDKnownDAEcho: the DAs a client's message is passed on to.
EchoTo(m) ==
    IF IsDA /\ m.peer \notin Loopback THEN {}
    ELSE {d \in Knows : m.scopes \cap DaScopes[d] # {}}

\* Either handler answers a multicast message with success and does nothing.
ProcessSrvReg(m) ==
    /\ running
    /\ \E mcast \in Multicast :
         /\ \/ mcast
            \/ m.scopes \cap UseScopes # {} /\ RegResult(database, m) = "OK"
         /\ database' = IF mcast THEN database ELSE Registered(database, m)
    /\ Send([d \in EchoTo(m) |-> <<Reg(m)>>])
    /\ UNCHANGED <<running, known, boot, up, dadb>>

ProcessSrvDeReg(m) ==
    /\ running
    /\ \E mcast \in Multicast :
         /\ \/ mcast
            \/ m.scopes \cap UseScopes # {} /\ DeRegResult(database, m) = "OK"
         /\ database' = IF mcast THEN database ELSE Deregistered(database, m)
    /\ Send([d \in EchoTo(m) |-> <<Dereg(m)>>])
    /\ UNCHANGED <<running, known, boot, up, dadb>>

(* ProcessDAAdvert and SLPDKnownDAAdd.  An advertisement with a new        *)
(* bootstamp, and one of a DA not known, make slpd register everything;    *)
(* bootstamp 0 takes leave.                                                *)
Heeded(solicited) == IF solicited THEN ActiveDiscovery ELSE PassiveDADetection

\* A bug: a restarted DA is taken for the one that is known already.
MustRegister_NewOnly(p) == p.boot # 0 /\ known[p.da] = 0

MustRegister(p) == p.boot # 0 /\ known[p.da] # p.boot

ProcessDAAdvert(p) ==
    /\ running
    /\ p \in net
    /\ p.type = "DAAdvert"
    /\ Heeded(p.solicited)
    /\ known' = [known EXCEPT ![p.da] = p.boot]
    /\ IF MustRegister(p) /\ database # <<>>
       THEN Send([d \in {p.da} |-> RegisterAll(database, d, FALSE)])
       ELSE UNCHANGED <<sock, net>>
    /\ UNCHANGED <<running, database, boot, up, dadb>>

(* SLPDProcessMessage, called by OutgoingDatagramRead: whatever the answer *)
(* says, every message of the send list with its transaction id goes.      *)
Pruned(s, xid) ==
    [s EXCEPT !.sendlist = Dropping(@, LAMBDA i : i.xid = xid)]

\* A bug: any answer shows that the DA is alive, and the retries start again.
ProcessSrvAck_Restarts(p) ==
    /\ running
    /\ p \in net
    /\ p.type = "SrvAck"
    /\ p.port \in DOMAIN sock
    /\ sock' = [sock EXCEPT ![p.port] = [Pruned(@, p.xid) EXCEPT !.age = 0, !.reconns = 0]]
    /\ UNCHANGED <<running, database, known, net, boot, up, dadb>>

ProcessSrvAck(p) ==
    /\ running
    /\ p \in net
    /\ p.type = "SrvAck"
    /\ p.port \in DOMAIN sock
    /\ sock' = [sock EXCEPT ![p.port] = Pruned(@, p.xid)]
    /\ UNCHANGED <<running, database, known, net, boot, up, dadb>>

(* SLPDOutgoingRetry, a second after the last one.  A socket with nothing  *)
(* left to send is closed, one whose timeout has passed sends again, and   *)
(* at the last timeout it is closed and its DA forgotten.                  *)
Due(s) == s.age + 1 >= Timeouts[s.reconns + 1]

GivesUp(s) == s.sendlist # <<>> /\ Due(s) /\ s.reconns + 1 >= MaxRetransmits

\* A bug: the DA that did not answer stays in the list.
Forgotten_None(givesup) == {}

Forgotten(givesup) == {sock[p].da : p \in givesup}

Retry ==
    /\ running
    /\ DOMAIN sock # {}
    /\ LET done     == {p \in DOMAIN sock : sock[p].sendlist = <<>>}
           givesup  == {p \in DOMAIN sock : GivesUp(sock[p])}
           waiting  == DOMAIN sock \ (done \cup givesup)
           resends  == {p \in waiting : Due(sock[p])}
       IN  /\ sock' = [p \in waiting |->
                         IF p \in resends
                         THEN [sock[p] EXCEPT !.age = 0, !.reconns = @ + 1]
                         ELSE [sock[p] EXCEPT !.age = @ + 1]]
           /\ known' = [d \in Da |-> IF d \in Forgotten(givesup) THEN 0 ELSE known[d]]
           /\ net' = Orphaned(net, done \cup givesup)
                       \cup Written([p \in resends |-> sock[p]])
    /\ UNCHANGED <<running, database, boot, up, dadb>>

(* SLPDKnownDAImmortalRefresh, when its time has come (18 hours).          *)
ImmortalRefresh ==
    /\ running
    /\ database # <<>>
    /\ Send([d \in Knows |-> RegisterAll(database, d, TRUE)])
    /\ UNCHANGED <<running, database, known, boot, up, dadb>>

(* SLPDKnownDAStaleDACheck: a DA not heard of for the whole check period   *)
(* is forgotten.  Its advertisements may all have been lost.               *)
StaleDACheck ==
    /\ running
    /\ StaleDADetection
    /\ \E d \in Knows : known' = [known EXCEPT ![d] = 0]
    /\ UNCHANGED <<running, database, sock, net, boot, up, dadb>>
-----------------------------------------------------------------------------
(* HandleSigHup: take everything back from every DA, forget them all, and  *)
(* read the reg file again.  The open sockets stay open.                   *)
HandleSigHup ==
    /\ running
    /\ "HUP" \in Signals
    /\ IF database = <<>> THEN UNCHANGED <<sock, net>>
       ELSE Send([d \in Knows |-> DeregisterAll(database, d)])
    /\ known' = [d \in Da |-> 0]
    /\ database' = RegfileRead(ClientsOnly(database))
    /\ UNCHANGED <<running, boot, up, dadb>>

(* HandleSigTerm: take everything back, then close the outgoing sockets.   *)
(* SLPDOutgoingDeinit keeps those in a pending I/O state open for a while, *)
(* and a UDP socket is never in one, so each message is written once.      *)
HandleSigTerm ==
    /\ running
    /\ "TERM" \in Signals
    /\ running' = FALSE
    /\ net' = Orphaned(net, Ports) \cup
              UNION {{Request(Closed, d, i) : i \in ToSet(DeregisterAll(database, d))} :
                        d \in Knows}
    /\ sock' = <<>>
    /\ known' = [d \in Da |-> 0]
    /\ UNCHANGED <<database, boot, up, dadb>>
-----------------------------------------------------------------------------
(* A directory agent processes a request and answers it.                   *)
AtDa(m) == [m EXCEPT !.peer = AgentAddr]

DaRegistered(d, m) ==
    IF m.scopes \cap DaScopes[d] # {} THEN DatabaseReg(dadb[d], m) ELSE dadb[d]

DaDeregistered(d, m) ==
    IF m.scopes \cap DaScopes[d] # {} /\ DeRegResult(dadb[d], m) = "OK"
    THEN Deregistered(dadb[d], m) ELSE dadb[d]

DaProcess(p) ==
    /\ p \in net
    /\ p.type = "request"
    /\ p.da \in up
    /\ dadb' = [dadb EXCEPT ![p.da] =
                  IF p.item.function = "SRVREG"
                  THEN DaRegistered(p.da, AtDa(p.item.msg))
                  ELSE DaDeregistered(p.da, AtDa(p.item.msg))]
    /\ net' = net \cup (IF p.port = Closed THEN {} ELSE {Ack(p.port, p.item.xid)})
    /\ UNCHANGED <<running, database, known, sock, boot, up>>

(* It advertises itself, unasked (its heartbeat) or in answer to a         *)
(* discovery request, starts with a new bootstamp and an empty list,       *)
(* crashes, or takes leave with an advertisement of bootstamp 0.  An       *)
(* advertisement the agent will not heed is as good as lost.               *)
DaAdvertise(d, solicited) ==
    /\ d \in up
    /\ Heeded(solicited)
    /\ net' = net \cup {DAAdvert(d, boot[d], solicited)}
    /\ UNCHANGED <<running, database, known, sock, boot, up, dadb>>

DaStart(d) ==
    /\ d \notin up
    /\ boot[d] < MaxBoot
    /\ up' = up \cup {d}
    /\ boot' = [boot EXCEPT ![d] = @ + 1]
    /\ dadb' = [dadb EXCEPT ![d] = <<>>]
    /\ UNCHANGED <<running, database, known, sock, net>>

DaStop(d) ==
    /\ d \in up
    /\ up' = up \ {d}
    /\ \/ net' = net
       \/ Heeded(FALSE) /\ net' = net \cup {DAAdvert(d, 0, FALSE)}
    /\ UNCHANGED <<running, database, known, sock, boot, dadb>>

\* The network drops a packet.
Lose(p) ==
    /\ p \in net
    /\ net' = net \ {p}
    /\ UNCHANGED <<running, database, known, sock, boot, up, dadb>>
-----------------------------------------------------------------------------
Init ==
    /\ running = TRUE
    /\ database = RegfileRead(<<>>)
    /\ known = [d \in Da |-> 0]
    /\ sock = <<>>
    /\ net = {}
    /\ boot = [d \in Da |-> 0]
    /\ up = {}
    /\ dadb = [d \in Da |-> <<>>]

Next ==
    \/ \E m \in RegMsg : ProcessSrvReg(m)
    \/ \E m \in DeregMsg : ProcessSrvDeReg(m)
    \/ \E p \in net : ProcessDAAdvert(p)
    \/ \E p \in net : ProcessSrvAck(p)
    \/ Retry
    \/ ImmortalRefresh
    \/ StaleDACheck
    \/ HandleSigHup
    \/ HandleSigTerm
    \/ \E p \in net : DaProcess(p)
    \/ \E d \in Da, solicited \in BOOLEAN : DaAdvertise(d, solicited)
    \/ \E d \in Da : DaStart(d) \/ DaStop(d)
    \/ \E p \in net : Lose(p)

Spec == Init /\ [][Next]_vars

(* The main loop of slpd runs the retries, and whatever has come in.  The  *)
(* network and the DA are assumed fair: what is sent again and again is    *)
(* received, processed and answered, and a DA goes on advertising itself.  *)
ClientMessage ==
    \/ \E m \in RegMsg : ProcessSrvReg(m)
    \/ \E m \in DeregMsg : ProcessSrvDeReg(m)

RetrySpec == Spec /\ WF_vars(Retry)

FairSpec ==
    /\ RetrySpec
    /\ \A d \in Da :
         /\ WF_vars(DaAdvertise(d, FALSE))
         /\ SF_vars(\E p \in net : p.type = "DAAdvert" /\ p.da = d /\ p.boot = boot[d]
                                    /\ ProcessDAAdvert(p))
         /\ \A x \in Xid :
              SF_vars(\E p \in net : p.type = "request" /\ p.da = d /\ p.item.xid = x
                                       /\ p.port # Closed /\ DaProcess(p))
    /\ \A port \in Ports, x \in Xid :
         SF_vars(\E p \in net : p.type = "SrvAck" /\ p.port = port /\ p.xid = x
                                  /\ ProcessSrvAck(p))
-----------------------------------------------------------------------------
Item == [function : {"SRVREG"}, xid : Int, msg : SrvReg]
          \cup [function : {"SRVDEREG"}, xid : Int,
                msg : [url : Url, scopes : ScopeList, peer : Peer, xid : Int]]

Packet ==
    [type : {"request"}, port : Ports \cup {Closed}, da : Da, item : Item]
      \cup [type : {"SrvAck"}, port : Ports, xid : Int]
      \cup [type : {"DAAdvert"}, da : Da, boot : 0..MaxBoot, solicited : BOOLEAN]

Socket == [da : Da, sendlist : Seq(Item), age : Nat, reconns : 0..(MaxRetransmits - 1)]

(* The variables stay in their types; above all no socket goes on past the *)
(* last retransmission (SLPDOutgoingRetry indexes unicastTimeouts with the *)
(* count of them), and an answer on its way names an open socket.          *)
TypeOK ==
    /\ running \in BOOLEAN
    /\ database \in Seq(Entry)
    /\ known \in [Da -> 0..MaxBoot]
    /\ DOMAIN sock \subseteq Ports
    /\ \A p \in DOMAIN sock : sock[p] \in Socket
    /\ net \subseteq Packet
    /\ \A p \in net : p.type = "SrvAck" => p.port \in DOMAIN sock
    /\ boot \in [Da -> 0..MaxBoot]
    /\ up \subseteq Da
    /\ dadb \in [Da -> Seq(Entry)]

\* The agent knows this incarnation of the DA, and the DA is there.
InTouch(d) == running /\ d \in up /\ known[d] = boot[d]

Serves(d, e) == e.source # "REMOTE" /\ e.scopes \cap DaScopes[d] # {}

\* What the DA holds, or will when it has got what is in the send lists.
HeldBy(d, e) ==
    \E h \in ToSet(dadb[d]) : h.url = e.url /\ h.scopes = e.scopes

PendingFor(d, e) ==
    \E p \in DOMAIN sock :
        /\ sock[p].da = d
        /\ \E i \in ToSet(sock[p].sendlist) :
              i.function = "SRVREG" /\ i.msg.url = e.url /\ i.msg.scopes = e.scopes

(* A service of this agent is registered with every DA it knows that       *)
(* serves its scopes, or its registration is still in a send list: no      *)
(* crash, restart, lost packet or forgotten DA makes SLPDKnownDAAdd, the   *)
(* echo and the retries together lose one.                                 *)
RegisteredOrPending ==
    \A d \in Da : InTouch(d) =>
        \A e \in ToSet(database) :
            Serves(d, e) => HeldBy(d, e) \/ PendingFor(d, e)

(* A socket is closed with a message unacknowledged only together with the *)
(* removal of its DA from the list, so that the next advertisement of the  *)
(* DA has everything registered again; closing it any other way would      *)
(* lose the message for good.                                              *)
UnansweredIsForgotten ==
    [][running' => \A p \in DOMAIN sock \ DOMAIN sock' :
         sock[p].sendlist # <<>> => known'[sock[p].da] = 0]_vars

(* No socket stays open forever, whether its DA answers, answers part of   *)
(* what was sent, or never does: SLPDOutgoingRetry gets to the last        *)
(* timeout of every one of them.                                           *)
SocketsClose == \A p \in Ports : []<>(p \notin DOMAIN sock)

(* A DA that stays up comes to hold every service of this agent it serves, *)
(* and keeps it, once the clients of the agent have fallen silent: through *)
(* lost packets, a DA given up too early or declared stale, and restarts   *)
(* on the way there.                                                       *)
ServicesReachTheDA ==
    \A d \in Da :
        /\ <>[](d \in up)
        /\ <>[][~ClientMessage]_vars
        => <>[](\A e \in ToSet(database) : Serves(d, e) => HeldBy(d, e))
-----------------------------------------------------------------------------
(* What the agent withdraws is withdrawn from the DAs: an entry of a DA it *)
(* knows is still registered, or its deregistration is still being sent.   *)
WithdrawnOrPending ==
    \A d \in Da : InTouch(d) =>
        \A h \in ToSet(dadb[d]) :
            \/ \E e \in ToSet(database) : e.url = h.url /\ e.scopes = h.scopes
            \/ \E p \in DOMAIN sock :
                  /\ sock[p].da = d
                  /\ \E i \in ToSet(sock[p].sendlist) :
                        i.function = "SRVDEREG" /\ i.msg.url = h.url

(* A SrvReg that is passed on is one that was put into the database: a     *)
(* multicast one is not processed.                                         *)
ForwardsOnlyRegistered ==
    [][\A p \in DOMAIN sock' \ DOMAIN sock :
         \A i \in ToSet(sock'[p].sendlist) :
           i.function = "SRVREG" =>
             \E e \in ToSet(database') : e.url = i.msg.url /\ e.scopes = i.msg.scopes]_vars

(* At shutdown the agent waits for what it has still to send: no socket is *)
(* closed with a message that no DA acknowledged and that is not given up. *)
PendingIsNotDropped ==
    [][\A p \in DOMAIN sock \ DOMAIN sock' :
         sock[p].sendlist # <<>> => GivesUp(sock[p])]_vars
=============================================================================
