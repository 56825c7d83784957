---------------------------- MODULE SlpUserAgent ----------------------------
(***************************************************************************)
(* One handle of the user agent library (src/openslp/libslp) and the       *)
(* network it asks: how SLPFindSrvs chooses between one named agent, the   *)
(* directory agents of its cache and multicast, the three request engines  *)
(* of libslp_network.c with their retransmissions and timeouts, and the    *)
(* registration stream to the local daemon.  SLPFindAttrs, SLPFindSrvTypes *)
(* and SLPDereg run through the same engines.                              *)
(*                                                                         *)
(* A service stands for the scope it is registered in: the answer of a     *)
(* server to a request is the set of the scopes asked that it serves.  A   *)
(* message carries the exchange identifier only as "does it match": mine   *)
(* is true until the library starts another exchange.  A message that is   *)
(* never received is a message lost.                                       *)
(***************************************************************************)
EXTENDS Integers, FiniteSets, Sequences, SequencesExt

CONSTANTS DA,           \* the directory agents
          SA,           \* the agents that only answer multicast
          Local,        \* the daemon of this host
          Scope,        \* the scopes
          Scopes,       \* the scopes each server serves
          Big,          \* the servers whose answer exceeds a datagram
          Calls,        \* the calls the user may make
          MaxCalls,     \* how many calls it makes
          MaxXmit,      \* transmissions before the maximum wait
          Groups,       \* the multicast addresses tried in turn
          MaxResults,   \* net.slp.maxResults
          MaxDups,      \* messages the network may duplicate
          MaxSwitches,  \* times a server may go down or come back
          TcpMayFail,   \* a DA may go down before it answered by a stream
          None, NoMore  \* no server; what SLP_LAST_CALL tells

Server == DA \cup SA

ASSUME UserAgentAssumption ==
    /\ IsFiniteSet(DA) /\ IsFiniteSet(Scope)
    /\ Scopes \in [Server \cup {Local} -> SUBSET Scope]
    /\ Big \subseteq Server
    /\ Local \notin Server
    /\ None \notin Server /\ NoMore \notin Scope \cup DA
    /\ MaxXmit \in Nat \ {0} /\ Groups \in Nat \ {0}
    /\ MaxResults \in Nat /\ MaxDups \in Nat /\ MaxSwitches \in Nat
    /\ MaxCalls \in Nat /\ TcpMayFail \in BOOLEAN
    /\ Calls # {}
    /\ \A c \in Calls : /\ c.op \in {"find", "sas", "das", "reg"}
                        /\ c.scopes \subseteq Scope /\ c.scopes # {}
                        /\ c.wants \in Nat \ {0}
                        /\ c.uc \in Server \cup {None}

VARIABLES
    ipv4,     \* whether IPv4 is on, which the list of several DAs needs
    up,       \* the servers that run
    switches, \* how often servers went down or came back
    cache,    \* G_KnownDACache, in the order of its list
    quiet,    \* the cache was refreshed in the last MINIMUM_DISCOVERY_INTERVAL
    da,       \* dasock, daaddr and dascope of the handle
    sa,       \* sasock and sascope of the handle
    found,    \* collatedsrvurls of the handle
    count,    \* callbackcount of the handle
    call,     \* the call in progress, or the last one
    calls,    \* how many calls were made
    told,     \* what the callback of the user was told in this call
    ret,      \* what the call returned
    pc,       \* where the call is
    x,        \* the locals of the request engine
    net,      \* the messages under way to the sockets of the handle
    dups      \* how many messages were duplicated

known == <<cache, quiet>>
socks == <<da, sa>>
heard == <<told, found, count>>
user  == <<call, calls>>
agent == <<known, socks, heard, user, ret, pc, x>>
world == <<ipv4, up, switches>>
vars  == <<agent, world, net, dups>>

\* The locals of an engine: the socket, the peer, the transmissions made,
\* the replies counted, and for several peers their connections.
Exchange(what, sock, to) ==
    [what |-> what, sock |-> sock, to |-> to, xmit |-> 0, got |-> FALSE,
     result |-> "ok", pr |-> {}, period |-> FALSE, group |-> 0,
     conn |-> [d \in DA |-> "none"]]

Idle == Exchange("none", "none", None)

Locals == [what : {"find", "probe", "reg", "none"},
           sock : {"da", "uc", "mc", "md", "sa", "none"},
           to : Server \cup {Local, None}, xmit : 0..MaxXmit, got : BOOLEAN,
           result : {"ok", "timeout", "neterr", "retry"},
           pr : SUBSET (Server \cup {Local}), period : BOOLEAN, group : 0..Groups,
           conn : [DA -> {"none", "udp", "connect", "receive", "complete", "failed"}]]

Message == [sock : {"da", "uc", "mc", "md", "sa"}, from : Server \cup {Local},
            asked : SUBSET Scope, mine : BOOLEAN]

\* A new identifier: what is under way no longer matches.
Stale(msgs) == {[m EXCEPT !.mine = FALSE] : m \in msgs}

Without(msgs, sock) == {m \in msgs : m.sock # sock}

\* The answers a transmission may bring, each of the agents it reaches
\* answering or not.
Answers(sock, agents) ==
    {{[sock |-> sock, from |-> s, asked |-> call.scopes, mine |-> TRUE]
        : s \in who} : who \in SUBSET agents}

UserAgentInit ==
    /\ ipv4 \in BOOLEAN
    /\ up = Server \cup {Local} /\ switches = 0
    /\ cache = <<>> /\ quiet = FALSE
    /\ da = [open |-> FALSE, addr |-> None, scope |-> {}]
    /\ sa = [state |-> "closed", scope |-> {}]
    /\ found = {} /\ count = 0
    /\ call = (CHOOSE c \in Calls : TRUE) /\ calls = 0 /\ told = <<>> /\ ret = "none"
    /\ pc = "idle" /\ x = Idle
    /\ net = {} /\ dups = 0

-----------------------------------------------------------------------------
(* The callback of SLPFindSrvs.                                            *)

\* A bug: what was collated stays when the user has enough.
Collate_Keeps(h, u) ==
    IF ~h.more THEN h
    ELSE IF h.count > MaxResults
    THEN [told |-> Append(h.told, NoMore), found |-> {}, count |-> 0, more |-> FALSE]
    ELSE IF u \in h.found THEN [h EXCEPT !.count = @ + 1]
    ELSE [told |-> Append(h.told, u), found |-> h.found \cup {u},
          count |-> h.count + 1, more |-> Len(h.told) + 1 # call.wants]

\* CollateToSLPSrvURLCallback for one URL.  The user stops by returning
\* SLP_FALSE when it has all it wants.
Collate(h, u) ==
    IF ~h.more THEN h
    ELSE IF h.count > MaxResults
    THEN [told |-> Append(h.told, NoMore), found |-> {}, count |-> 0, more |-> FALSE]
    ELSE IF u \in h.found THEN [h EXCEPT !.count = @ + 1]
    ELSE IF Len(h.told) + 1 = call.wants
    THEN [told |-> Append(h.told, u), found |-> {}, count |-> 0, more |-> FALSE]
    ELSE [told |-> Append(h.told, u), found |-> h.found \cup {u},
          count |-> h.count + 1, more |-> TRUE]

\* ProcessSrvRplyCallback: the URLs of one reply.
Reply(m) ==
    FoldLeft(Collate,
             [told |-> told, found |-> found, count |-> count, more |-> TRUE],
             SetToSeq(m.asked \cap Scopes[m.from]))

\* The same callback told SLP_LAST_CALL.
LastCall(h) ==
    IF h.more
    THEN [told |-> Append(h.told, NoMore), found |-> {}, count |-> 0, more |-> FALSE]
    ELSE h

Telling(h) == told' = h.told /\ found' = h.found /\ count' = h.count
Silent == UNCHANGED heard

\* The call returns to the user.
Return(result) == pc' = "idle" /\ x' = Idle /\ ret' = result
Go(where, exchange) == pc' = where /\ x' = exchange /\ UNCHANGED ret

-----------------------------------------------------------------------------
(* The cache of directory agents.                                          *)

\* KnownDAListFind: where in the cache a DA serves all the scopes.
Serving == {i \in DOMAIN cache : call.scopes \subseteq Scopes[cache[i]]}

\* KnownDASpanningListFind: a DA is taken for the scopes that are left.
Spanned(r, d) ==
    IF Scopes[d] \cap r.left = {} THEN r
    ELSE [left |-> r.left \ Scopes[d], das |-> r.das \cup {d}]

\* DAs that serve the scopes between them, or none.
SpanningList ==
    LET r == FoldLeft(Spanned, [left |-> call.scopes, das |-> {}], cache)
    IN IF r.left = {} THEN r.das ELSE {}

\* KnownDAAdd: an entry of the same DA is replaced by one at the end.
KnownDAAdd(d) == cache' = Append(RemoveFirst(cache, d), d)

\* A bug: the entry stays.
KnownDABadDA_Keeps(d) == cache' = IF d = None THEN <<>> ELSE cache

\* KnownDABadDA.
KnownDABadDA(d) == cache' = IF d \in DA THEN RemoveFirst(cache, d) ELSE cache

\* KnownDADiscoverFromIPC and what follows when it finds nothing: the cache is
\* cleared and filled with the DAs the daemon lists, which may be out of date,
\* or without the daemon with DAs that answer.
Discover ==
    LET there == IF Local \in up THEN DA ELSE DA \cap up
    IN \E s \in SetToAllKPermutations(there) : cache' = s

\* KnownDARefreshCache, when it is time.  The search that called for it is
\* made again, now within the interval.
RefreshCache ==
    /\ ~quiet /\ quiet' = TRUE
    /\ Discover
    /\ UNCHANGED <<socks, heard, user, ret, pc, x>>

-----------------------------------------------------------------------------
(* The user.                                                               *)

SLPFindSrvs(c) ==
    /\ pc = "idle" /\ calls < MaxCalls /\ calls' = calls + 1
    /\ call' = c /\ told' = <<>> /\ ret' = "none" /\ x' = Idle
    /\ pc' = CASE c.op = "das" -> "das"
               [] c.op = "reg" -> "sa"
               [] OTHER        -> "path"
    /\ UNCHANGED <<known, socks, found, count, net>>

\* KnownDAProcessSrvRqst: discover, then tell every DA of the cache.  The last
\* call is made even to a user that has said it wants no more.
KnownDAProcessSrvRqst ==
    /\ pc = "das"
    /\ Discover
    /\ told' = Append(SubSeq(cache', 1, IF Len(cache') < call.wants
                                        THEN Len(cache') ELSE call.wants), NoMore)
    /\ Return("ok")
    /\ UNCHANGED <<quiet, socks, found, count, user, net>>

\* ProcessSrvRqst: one agent the handle was told to ask, the DAs that serve
\* the scopes between them, one DA that serves them all, or multicast.
ProcessSrvRqst ==
    /\ pc = "path"
    /\ IF call.uc # None THEN Go("send", Exchange("find", "uc", call.uc))
       ELSE IF ipv4 /\ SpanningList # {}
       THEN Go("usend", [Exchange("find", "md", None) EXCEPT
                !.conn = [d \in DA |-> IF d \in SpanningList THEN "udp" ELSE "none"]])
       ELSE /\ ipv4 => quiet
            /\ IF call.op = "sas" THEN Go("msend", Exchange("find", "mc", None))
               ELSE Go("connect", Idle)
    /\ net' = IF pc' = "connect" THEN net ELSE Stale(net)
    /\ UNCHANGED <<known, socks, heard, user>>

RefreshForSpan ==
    /\ pc = "path" /\ call.uc = None /\ ipv4 /\ SpanningList = {}
    /\ RefreshCache
    /\ UNCHANGED net

\* A bug: one of the scopes is enough.
Reusable_OneScope == da.open /\ call.scopes \cap da.scope # {}

Reusable == da.open /\ call.scopes \subseteq da.scope

\* NetworkConnectToDA: the socket is used again for scopes it was opened for,
\* unless NetworkCheckConnection finds something to read on it.
NetworkConnectToDA ==
    /\ pc = "connect"
    /\ \/ /\ Reusable
          /\ Go("send", Exchange("find", "da", da.addr))
          /\ net' = Stale(net) /\ UNCHANGED da
       \/ /\ ~Reusable \/ \E m \in net : m.sock = "da"
          /\ da' = [da EXCEPT !.open = FALSE]
          /\ net' = Without(net, "da")
          /\ Go("probe", Idle)
    /\ UNCHANGED <<known, sa, heard, user>>

\* KnownDAConnect: the first DA of the cache that serves the scopes is asked
\* whether it is there; without one the request is multicast.
KnownDAConnect ==
    /\ pc = "probe"
    /\ IF Serving # {}
       THEN LET first == cache[Min(Serving)]
            IN /\ da' = [da EXCEPT !.addr = first]
               /\ Go("send", Exchange("probe", "da", first))
       ELSE /\ quiet
            /\ da' = [da EXCEPT !.addr = None]
            /\ Go("msend", Exchange("find", "mc", None))
    /\ net' = Stale(net)
    /\ UNCHANGED <<known, sa, heard, user>>

RefreshForDA ==
    /\ pc = "probe" /\ Serving = {}
    /\ RefreshCache
    /\ UNCHANGED net

\* NetworkConnectToSA, then the request of ProcessSrvReg: the stream to the
\* daemon is used again for scopes it was opened for, unless it was closed.
NetworkConnectToSA ==
    /\ pc = "sa"
    /\ \/ /\ sa.state = "open" /\ call.scopes \subseteq sa.scope
          /\ Go("send", Exchange("reg", "sa", Local))
          /\ net' = Stale(net) /\ UNCHANGED sa
       \/ /\ \/ sa.state # "open" \/ ~(call.scopes \subseteq sa.scope)
             \/ \E m \in net : m.sock = "sa"
          /\ net' = Stale(Without(net, "sa"))
          /\ IF Local \in up
             THEN /\ sa' = [state |-> "open", scope |-> call.scopes]
                  /\ Go("send", Exchange("reg", "sa", Local))
             ELSE /\ sa' = [sa EXCEPT !.state = "closed"]
                  /\ Return("noserver")
    /\ UNCHANGED <<known, da, heard, user>>

-----------------------------------------------------------------------------
(* NetworkRqstRply: one peer, over a datagram socket or the stream.        *)

Stream == x.sock = "sa"

\* The head of the retransmission loop and the transmission.
RqstSend ==
    /\ pc = "send" /\ x.xmit < MaxXmit
    /\ Go("recv", [x EXCEPT !.xmit = IF Stream THEN MaxXmit ELSE @ + 1])
    /\ \E new \in Answers(x.sock, IF Stream /\ sa.state # "open" THEN {}
                                 ELSE up \cap {x.to}) : net' = net \cup new
    /\ UNCHANGED <<known, socks, heard, user>>

\* The transmission fails, for want of a route or as the stream is closed.
RqstSendFails ==
    /\ pc = "send" /\ x.xmit < MaxXmit
    /\ Go("back", [x EXCEPT !.result = "neterr"])
    /\ UNCHANGED <<known, socks, heard, user, net>>

RqstGivesUp ==
    /\ pc = "send" /\ x.xmit = MaxXmit
    /\ Go("back", [x EXCEPT !.result = "timeout"])
    /\ UNCHANGED <<known, socks, heard, user, net>>

\* A message is on the socket of the engine.
Arrived(m) == m \in net /\ m.sock = x.sock

\* The sockets an engine opened for itself are closed as the call returns.
Kept == IF pc' = "idle" THEN {m \in net : m.sock \in {"da", "uc", "sa"}} ELSE net

\* It is taken from there, perhaps leaving a copy.
Taken(m) ==
    \/ net' = Kept \ {m} /\ UNCHANGED dups
    \/ dups < MaxDups /\ dups' = dups + 1 /\ net' = Kept

\* A bug: the identifier is not compared.
Accepts_Any(m) == m.from # None

\* AS_UINT16(recvbuf->start + 10) == xid.
Accepts(m) == m.mine

\* KnownDADiscoveryCallback: a DA that answers a probe is known anew; the
\* engine goes on listening until the time is out.
ProbeReceive(m) ==
    /\ pc = "recv" /\ x.what = "probe" /\ Accepts(m) /\ Arrived(m)
    /\ KnownDAAdd(m.from)
    /\ Go("recv", [x EXCEPT !.got = TRUE])
    /\ Taken(m)
    /\ UNCHANGED <<quiet, socks, heard, user>>

\* The answer to a search ends the engine with the last call.
FindReceive(m) ==
    /\ pc = "recv" /\ x.what = "find" /\ Accepts(m) /\ Arrived(m)
    /\ Telling(LastCall(Reply(m)))
    /\ Go("back", [x EXCEPT !.got = TRUE])
    /\ Taken(m)
    /\ UNCHANGED <<known, socks, user>>

\* On the stream the first message ends the engine, and is handed to
\* CallbackSrvReg whatever its identifier.
RegReceive(m) ==
    /\ pc = "recv" /\ Stream /\ Arrived(m)
    /\ net' = net \ {m} /\ UNCHANGED dups
    /\ told' = Append(told, IF m.asked \subseteq Scopes[Local] THEN "ok" ELSE "refused")
    /\ Go("back", [x EXCEPT !.got = Accepts(m)])
    /\ UNCHANGED <<known, socks, found, count, user>>

RqstIgnores(m) ==
    /\ pc = "recv" /\ ~Stream /\ ~Accepts(m) /\ Arrived(m)
    /\ UNCHANGED agent
    /\ Taken(m)

\* The wait is over: the datagram is sent again unless there was a reply.
RqstTimeOut ==
    /\ pc = "recv"
    /\ IF x.got \/ Stream
       THEN Go("back", [x EXCEPT !.result = IF x.got THEN "ok" ELSE "timeout"])
       ELSE Go("send", x)
    /\ UNCHANGED <<known, socks, heard, user, net>>

\* The daemon closed the stream.
StreamEnds ==
    /\ pc = "recv" /\ Stream /\ sa.state = "broken"
    /\ Go("back", [x EXCEPT !.result = "neterr"])
    /\ UNCHANGED <<known, socks, heard, user, net>>

\* Back in KnownDAConnect: a DA that did not answer the probe is forgotten.
ProbeBack ==
    /\ pc = "back" /\ x.what = "probe"
    /\ IF x.got
       THEN /\ da' = [da EXCEPT !.open = TRUE, !.scope = call.scopes]
            /\ Go("send", Exchange("find", "da", x.to))
            /\ net' = Stale(net) /\ UNCHANGED cache
       ELSE /\ KnownDABadDA(x.to)
            /\ net' = Without(net, "da")
            /\ Go("probe", Idle) /\ UNCHANGED da
    /\ UNCHANGED <<quiet, sa, heard, user>>

\* Back in ProcessSrvRqst: NetworkDisconnectDA after any error, and after a
\* failing network the next choice.
FindBack ==
    /\ pc = "back" /\ x.what = "find" /\ x.sock = "da"
    /\ IF x.result = "ok" THEN UNCHANGED <<da, cache, net>>
       ELSE /\ da' = [da EXCEPT !.open = FALSE]
            /\ net' = Without(net, "da")
            /\ KnownDABadDA(da.addr)
    /\ IF x.result = "neterr" THEN Go("path", Idle) ELSE Return(x.result)
    /\ UNCHANGED <<quiet, sa, heard, user>>

\* NetworkUcastRqstRply keeps its socket, whatever comes.
UcastBack ==
    /\ pc = "back" /\ x.sock = "uc"
    /\ Return(x.result)
    /\ UNCHANGED <<known, socks, heard, user, net>>

\* Back in ProcessSrvReg: NetworkDisconnectSA after any error.
RegBack ==
    /\ pc = "back" /\ x.what = "reg"
    /\ IF x.result = "ok" THEN UNCHANGED <<sa, net>>
       ELSE sa' = [sa EXCEPT !.state = "closed"] /\ net' = Without(net, "sa")
    /\ Return(x.result)
    /\ UNCHANGED <<known, da, heard, user>>

-----------------------------------------------------------------------------
(* NetworkMcastRqstRply: everybody, in periods.                            *)

\* A period begins: the agents not listed as responders may answer.
McastSend ==
    /\ pc = "msend" /\ x.group < Groups
    /\ Go("mrecv", [x EXCEPT !.xmit = @ + 1, !.period = FALSE,
                                 !.result = "ok"])
    /\ \E new \in Answers("mc", (up \cap Server) \ x.pr) : net' = net \cup new
    /\ UNCHANGED <<known, socks, heard, user>>

\* An answer is told, and its sender listed.  A user that wants no more ends
\* the engine without a last call.
McastAnswer(m) ==
    LET h == Reply(m)
    IN /\ Telling(h)
       /\ IF h.more
          THEN Go("mrecv", [x EXCEPT !.got = TRUE, !.period = TRUE, !.result = "ok",
                                     !.pr = @ \cup {m.from}])
          ELSE Return("ok")

McastReceive(m) ==
    /\ pc = "mrecv" /\ m.from \notin Big /\ Arrived(m)
    /\ IF Accepts(m) THEN McastAnswer(m)
       ELSE UNCHANGED <<heard, ret, pc, x>>
    /\ Taken(m)
    /\ UNCHANGED <<known, socks, user>>

\* The end of a period: its sockets are closed.  One without replies that is
\* not the first ends with this multicast address.
PeriodEnds(result) ==
    LET done == x.xmit = MaxXmit \/ (~x.period /\ x.xmit > 1)
    IN /\ net' = Without(net, "mc")
       /\ Go("msend", [x EXCEPT !.result = result,
                                !.group = IF done THEN @ + 1 ELSE @,
                                !.xmit = IF done THEN 0 ELSE @])

McastTimeOut ==
    /\ pc = "mrecv"
    /\ PeriodEnds("timeout")
    /\ UNCHANGED <<known, socks, heard, user>>

\* An answer that does not fit a datagram: its sender is asked again over a
\* stream, whatever the identifier of the datagram, under a new identifier
\* which what is under way does not match.  An error ends the period; errno
\* then may be that of an earlier call.
McastBig(m) ==
    /\ pc = "mrecv" /\ Arrived(m) /\ m.from \in Big
    /\ \/ /\ m.from \in up
          /\ McastAnswer([m EXCEPT !.asked = call.scopes])
          /\ net' = Stale(Kept \ {m})
       \/ /\ \E e \in {"timeout", "neterr"} : PeriodEnds(e)
          /\ Silent
    /\ UNCHANGED <<known, socks, user, dups>>

\* All addresses are tried.
McastEnds ==
    /\ pc = "msend" /\ x.group = Groups
    /\ IF x.got \/ x.result = "timeout"
       THEN Telling(LastCall([told |-> told, found |-> found, count |-> count,
                              more |-> TRUE])) /\ Return("ok")
       ELSE Silent /\ Return("neterr")
    /\ UNCHANGED <<known, socks, user, net>>

-----------------------------------------------------------------------------
(* NetworkMultiUcastRqstRply: several DAs at once over one datagram socket, *)
(* with a stream for each answer that does not fit.                         *)

In(states) == {d \in DA : x.conn[d] \in states}

MultiSend ==
    /\ pc = "usend"
    /\ Go("urecv", x)
    /\ \E new \in Answers("md", up \cap In({"udp"})) : net' = net \cup new
    /\ UNCHANGED <<known, socks, heard, user>>

\* The answer of a DA completes its connection, and is told if no error is
\* left over from another connection.
MultiAnswer(d, result) ==
    LET h == Reply([from |-> d, asked |-> call.scopes])
        y == [x EXCEPT !.conn[d] = "complete", !.got = TRUE, !.result = result]
    IN IF result = "ok"
       THEN /\ Telling(h)
            /\ IF h.more THEN Go("urecv", y) ELSE Return("ok")
       ELSE Silent /\ Go("urecv", y)

\* A datagram that fits; one of a DA that was heard already is passed over.
MultiReceive(m) ==
    /\ pc = "urecv" /\ m.from \notin Big /\ Arrived(m)
    /\ IF x.conn[m.from] = "udp" /\ Accepts(m) THEN MultiAnswer(m.from, "ok")
       ELSE Silent /\ Go("urecv", [x EXCEPT !.result = "ok"])
    /\ Taken(m)
    /\ UNCHANGED <<known, socks, user>>

\* A truncated datagram: its sender is connected to.  For one that is being
\* connected to already SLP_ERROR_RETRY_UNICAST stays the result.
MultiBig(m) ==
    /\ pc = "urecv" /\ m.from \in Big /\ Arrived(m)
    /\ Go("urecv", IF x.conn[m.from] = "udp"
                   THEN [x EXCEPT !.conn[m.from] = "connect", !.result = "ok"]
                   ELSE [x EXCEPT !.result = "retry"])
    /\ Taken(m)
    /\ UNCHANGED <<known, socks, heard, user>>

\* The stream is writable: the request is sent, or the connection had failed,
\* which leaves the result as it is.
MultiConnected(d) ==
    /\ pc = "urecv" /\ x.conn[d] = "connect"
    /\ Go("urecv", [x EXCEPT !.conn[d] = IF d \in up THEN "receive" ELSE "failed"])
    /\ UNCHANGED <<known, socks, heard, user, net>>

MultiStreamAnswer(d) ==
    /\ pc = "urecv" /\ x.conn[d] = "receive" /\ d \in up
    /\ MultiAnswer(d, x.result)
    /\ net' = Kept
    /\ UNCHANGED <<known, socks, user>>

\* What is done at FINISHED.  KnownDABadDA is called for every DA that did not
\* complete, but with the bare address where it compares socket addresses, so
\* that no entry is found.
MultiFinish(result) ==
    /\ net' = Without(net, "md")
    /\ IF x.got
       THEN Telling(LastCall([told |-> told, found |-> found, count |-> count,
                              more |-> TRUE])) /\ Return("ok")
       ELSE Silent /\ Return(result)
    /\ UNCHANGED <<known, socks, user>>

MultiSendFails == pc = "usend" /\ MultiFinish("neterr")

MultiAllDone ==
    /\ pc = "urecv" /\ In({"udp", "connect", "receive"}) = {}
    /\ MultiFinish(x.result)

\* Nothing in the rest of the period.  A stream its peer has closed is always
\* readable, so that while there is one no period ends.
MultiTimeOut ==
    /\ pc = "urecv" /\ In({"udp", "connect", "receive"}) # {}
    /\ In({"receive"}) \subseteq up
    /\ IF x.xmit + 1 = MaxXmit THEN MultiFinish("timeout")
       ELSE /\ Go("usend", [x EXCEPT !.xmit = @ + 1])
            /\ UNCHANGED <<known, socks, heard, user, net>>

-----------------------------------------------------------------------------
(* The servers.                                                            *)

\* The DAs whose answer takes a stream of NetworkMultiUcastRqstRply.
Streaming == Big \cap In({"udp", "connect", "receive"})

Stop(s) ==
    /\ s \in up /\ switches < MaxSwitches /\ switches' = switches + 1
    /\ TcpMayFail \/ s \notin Streaming
    /\ up' = up \ {s}
    /\ sa' = IF s = Local /\ sa.state = "open" THEN [sa EXCEPT !.state = "broken"] ELSE sa
    /\ UNCHANGED <<ipv4, known, da, heard, user, ret, pc, x, net, dups>>

Start(s) ==
    /\ s \notin up /\ switches < MaxSwitches /\ switches' = switches + 1
    /\ up' = up \cup {s}
    /\ UNCHANGED <<ipv4, agent, net, dups>>

\* The daemon closes a stream it finds too old.
DaemonCloses ==
    /\ sa.state = "open" /\ sa' = [sa EXCEPT !.state = "broken"]
    /\ UNCHANGED <<world, known, da, heard, user, ret, pc, x, net, dups>>

\* MINIMUM_DISCOVERY_INTERVAL passes between calls, which end sooner.
IntervalPasses ==
    /\ pc = "idle" /\ calls < MaxCalls /\ quiet /\ quiet' = FALSE
    /\ UNCHANGED <<world, cache, socks, heard, user, ret, pc, x, net, dups>>

-----------------------------------------------------------------------------

Choosing ==
    \/ KnownDAProcessSrvRqst
    \/ ProcessSrvRqst \/ RefreshForSpan
    \/ NetworkConnectToDA \/ KnownDAConnect \/ RefreshForDA
    \/ NetworkConnectToSA

Engines ==
    \/ RqstSend \/ RqstSendFails \/ RqstGivesUp \/ RqstTimeOut \/ StreamEnds
    \/ ProbeBack \/ FindBack \/ UcastBack \/ RegBack
    \/ McastSend \/ McastTimeOut \/ McastEnds
    \/ MultiSend \/ MultiSendFails \/ MultiAllDone \/ MultiTimeOut
    \/ \E d \in DA : MultiConnected(d) \/ MultiStreamAnswer(d)

Receives ==
    \E m \in net :
        \/ ProbeReceive(m) \/ FindReceive(m) \/ RegReceive(m) \/ RqstIgnores(m)
        \/ McastReceive(m) \/ McastBig(m)
        \/ MultiReceive(m) \/ MultiBig(m)

\* What the library does by itself within a call: it never waits for ever.
Library ==
    \/ (Choosing \/ Engines) /\ UNCHANGED <<world, dups>>
    \/ Receives /\ UNCHANGED world

UserAgentNext ==
    \/ Library
    \/ (\E c \in Calls : SLPFindSrvs(c)) /\ UNCHANGED <<world, dups>>
    \/ \E s \in Server \cup {Local} : Stop(s) \/ Start(s)
    \/ DaemonCloses \/ IntervalPasses

UserAgentSpec == UserAgentInit /\ [][UserAgentNext]_vars /\ WF_vars(Library)

-----------------------------------------------------------------------------
(* Properties.                                                             *)

TypeOK ==
    /\ ipv4 \in BOOLEAN /\ up \subseteq Server \cup {Local}
    /\ cache \in Seq(DA) /\ IsInjective(cache) /\ quiet \in BOOLEAN
    /\ da \in [open : BOOLEAN, addr : DA \cup {None}, scope : SUBSET Scope]
    /\ sa \in [state : {"closed", "open", "broken"}, scope : SUBSET Scope]
    /\ found \subseteq Scope /\ count \in 0..MaxResults + 1
    /\ call \in Calls /\ calls \in 0..MaxCalls
    /\ pc \in {"idle", "das", "sa", "path", "connect", "probe", "send", "recv",
               "back", "msend", "mrecv", "usend", "urecv"}
    /\ x \in Locals
    /\ net \subseteq Message

\* What the user is told in a call are answers to that call: URLs it asked for,
\* each once, none after the last call; and of a registration what the daemon
\* makes of this one.  An answer to an earlier request that arrives late on a
\* socket used again is told to nobody (libslp_network.c, the check of the
\* identifier, NetworkCheckConnection and NetworkDisconnectSA).
AnswersAreMine ==
    /\ call.op \in {"find", "sas"} =>
         /\ \A i \in DOMAIN told : told[i] \in call.scopes \cup {NoMore}
         /\ IsInjective(told)
         /\ \A i \in DOMAIN told : told[i] = NoMore => i = Len(told)
    /\ call.op = "reg" =>
         \A i \in DOMAIN told :
            /\ i = 1
            /\ told[i] = IF call.scopes \subseteq Scopes[Local] THEN "ok" ELSE "refused"

\* A call that returns success has told the user that it is over, or was told
\* by the user; it leaves nothing collated on the handle, which would hide URLs
\* from the next call (CollateToSLPSrvURLCallback and the last callback of each
\* engine).
EndsAsPromised ==
    pc = "idle" =>
        /\ ret = "ok" /\ call.op \in {"find", "sas"} =>
              told # <<>> /\ (told[Len(told)] = NoMore \/ Len(told) = call.wants)
        /\ ret = "ok" /\ call.op = "reg" => Len(told) = 1
        /\ ret \in {"timeout", "neterr", "noserver"} => told = <<>>
        /\ found = {} /\ count = 0

\* The agents a search is put to by unicast serve between them every scope the
\* user asked for, also when a socket of an earlier call is used again, so that
\* no scope is passed over (NetworkConnectToDA, KnownDAListFind,
\* KnownDASpanningListFind).
EveryScopeIsAsked ==
    x.what = "find" =>
        /\ x.sock = "da" => call.scopes \subseteq Scopes[x.to]
        /\ x.sock = "md" =>
              call.scopes \subseteq UNION {Scopes[d] : d \in DA \ In({"none"})}

\* Every call returns, whatever the servers and the network do: each engine
\* ends by its timeouts, and a DA that did not answer leaves the cache, so that
\* KnownDAConnect and the loop over network errors run out of DAs.
CallsReturn == (pc # "idle") ~> (pc = "idle")

\* "Mark any failed DAs as bad so we don't use them again" says the comment at
\* the end of NetworkMultiUcastRqstRply.
FailedDAsAreDropped ==
    [][pc = "urecv" /\ pc' = "idle" =>
         \A i \in DOMAIN cache' : x.conn[cache'[i]] \notin {"udp", "failed"}]_vars
=============================================================================
