---------------------------- MODULE SlpdIncoming ----------------------------
(***************************************************************************)
(* The incoming sockets of slpd (slpd_incoming.c): the sockets listened    *)
(* on, which are opened at the start and at every SIGHUP, and the TCP      *)
(* connections accepted from them, each of which reads a message, has it   *)
(* processed, writes the reply and reads the next one, until it is closed  *)
(* by an error or by its age.                                              *)
(*                                                                         *)
(* The bytes of a connection are counted in units.  A client sends a plan  *)
(* of messages, of which only the lengths matter; what processing one      *)
(* answers is a length too, 0 standing for no answer and for the errors    *)
(* that give none.                                                         *)
(***************************************************************************)
EXTENDS Naturals, SequencesExt

CONSTANTS
    Client,           \* the TCP connections made to the daemon
    Server,           \* the address each is made to
    Plans,            \* the sequences of message lengths each may send
    ReplyLength,      \* the lengths of answers, 0 for none
    Header,           \* what has to be there for a first look at a message
    LowWater,         \* SO_RCVLOWAT: below it poll calls nothing readable
    Addr,             \* the addresses slpd may listen on
    Loopback,         \* those of them it always listens on
    Interfaces,       \* the values net.slp.interfaces may have, sets of addresses
    IPv6,             \* those of the addresses that are IPv6 addresses
    LinkLocal,        \* those of them that are link-local
    IsDA,             \* net.slp.isDA
    MayFail,          \* the kinds of socket that may be refused by the system
    MaxSockets,       \* SLPD_MAX_SOCKETS
    ComfortSockets,   \* SLPD_COMFORT_SOCKETS
    CloseConn,        \* SLPD_CONFIG_CLOSE_CONN, in aging intervals
    BusyCloseConn     \* SLPD_CONFIG_BUSY_CLOSE_CONN, in aging intervals

(* The kinds of socket opened for an address: a listening one and one for   *)
(* unicast datagrams, and but for the loopback addresses one for each       *)
(* multicast group.  The SLPv1 groups are joined on every interface.        *)
CommonKinds == {"LISTEN", "UNICAST"}

IPv4Kinds == {"SRVLOC"}

IPv6Kinds(a) ==
    {"SRVLOC_NODE", "SRVLOCDA_NODE", "SRVLOC_LINK", "SRVLOCDA_LINK"}
        \cup IF a \in LinkLocal THEN {} ELSE {"SRVLOC_SITE", "SRVLOCDA_SITE"}

SLPv1Kinds == {"V1_SL"} \cup IF IsDA THEN {"V1_DA"} ELSE {}

KindsOf(a) ==
    CommonKinds \cup
        IF a \in Loopback THEN {}
        ELSE SLPv1Kinds \cup IF a \in IPv6 THEN IPv6Kinds(a) ELSE IPv4Kinds

Kind == UNION {KindsOf(a) : a \in Addr}

ASSUME IncomingAssumption ==
    /\ Server \in [Client -> Addr]
    /\ Plans \in [Client -> SUBSET Seq(Nat \ {0})]
    /\ ReplyLength \subseteq Nat
    /\ Header \in Nat \ {0} /\ LowWater \in Nat \ {0} /\ Header <= LowWater
    /\ Loopback \subseteq Addr
    /\ Interfaces \subseteq SUBSET (Addr \ Loopback)
    /\ LinkLocal \subseteq IPv6 /\ IPv6 \subseteq Addr
    /\ IsDA \in BOOLEAN
    /\ MayFail \subseteq Kind
    /\ {MaxSockets, ComfortSockets, CloseConn, BusyCloseConn} \subseteq Nat
    /\ BusyCloseConn <= CloseConn

VARIABLES
    fixed,     \* how many sockets of each kind are open for each address
    stream,    \* the connections: state, age, and what is left to read or write
    backlog,   \* the connections waiting to be accepted at each address
    plan,      \* what each client sends in all
    unsent,    \* how much of it is still with the client
    rcvq,      \* how much of it has arrived and was not read
    peer       \* the other end of each connection: "new", "open" or "gone"

incoming == <<fixed, stream, backlog, plan, unsent, rcvq, peer>>

Reading == {"STREAM_READ_FIRST", "STREAM_READ"}
Writing == {"STREAM_WRITE_FIRST", "STREAM_WRITE"}

StreamType ==
    [state : Reading \cup Writing \cup {"NONE", "SOCKET_CLOSE"},
     age : 0 .. CloseConn + 1, left : Nat]

(* In particular a connection is never older than the limit of             *)
(* SLPDIncomingAge and one interval.                                       *)
IncomingTypeOK ==
    /\ fixed \in [Addr -> [Kind -> Nat]]
    /\ stream \in [Client -> StreamType]
    /\ backlog \in [Addr -> Seq(Client)]
    /\ plan \in [Client -> UNION {Plans[c] : c \in Client}]
    /\ unsent \in [Client -> Nat] /\ rcvq \in [Client -> Nat]
    /\ peer \in [Client -> {"new", "open", "gone"}]

NoStream == [state |-> "NONE", age |-> 0, left |-> 0]

Streams == {c \in Client : stream[c] # NoStream}

Total(lengths) == FoldLeft(LAMBDA n, m : n + m, 0, lengths)

\* socklist->count: closed connections count until LoadFdSets frees them.
SocketCount(f, s) ==
    MapThenSumSet(LAMBDA a : MapThenSumSet(LAMBDA k : f[a][k], Kind), Addr)
      + Cardinality({c \in Client : s[c] # NoStream})
-----------------------------------------------------------------------------
(* Opening the listening sockets.                                          *)

Listening(f, a) == f[a]["LISTEN"] > 0

(* One socket of each kind the address needs, unless it is listened on     *)
(* already; a socket the system refuses is logged and passed over.         *)
Reopened(f, a, refused) ==
    IF Listening(f, a) THEN f[a]
    ELSE [k \in Kind |-> f[a][k] + IF k \in KindsOf(a) /\ <<a, k>> \notin refused THEN 1 ELSE 0]

Reinit(f, ifaces, refused) ==
    [a \in Addr |-> IF a \in Loopback \cup ifaces THEN Reopened(f, a, refused) ELSE f[a]]

NothingOpen == [a \in Addr |-> [k \in Kind |-> 0]]

IncomingReinit ==
    \E ifaces \in Interfaces, refused \in SUBSET (Addr \X MayFail) :
        fixed' = Reinit(fixed, ifaces, refused)

IncomingInit ==
    /\ \E ifaces \in Interfaces, refused \in SUBSET (Addr \X MayFail) :
          fixed = Reinit(NothingOpen, ifaces, refused)
    /\ stream = [c \in Client |-> NoStream]
    /\ backlog = [a \in Addr |-> <<>>]
    /\ plan \in {p \in [Client -> UNION {Plans[c] : c \in Client}] : \A c \in Client : p[c] \in Plans[c]}
    /\ unsent = [c \in Client |-> Total(plan[c])]
    /\ rcvq = [c \in Client |-> 0]
    /\ peer = [c \in Client |-> "new"]

(* SLPDIncomingDeinit.                                                     *)
IncomingDeinit ==
    /\ fixed' = NothingOpen
    /\ stream' = [c \in Client |-> NoStream]
    /\ backlog' = [a \in Addr |-> <<>>]
    /\ UNCHANGED <<plan, unsent, rcvq, peer>>
-----------------------------------------------------------------------------
(* What poll says of a connection.                                         *)

HasData(c) == rcvq[c] >= LowWater \/ peer[c] = "gone"

Readable(c) == stream[c].state \in Reading /\ HasData(c)

\* Whether there is room is the network's affair.
Writable(c) == stream[c].state \in Writing
-----------------------------------------------------------------------------
(* Reading and writing a connection.                                       *)

Closed(s) == [s EXCEPT !.state = "SOCKET_CLOSE"]

(* The length of the message that begins at the first unread unit; in the  *)
(* middle of a message any length may seem to stand there.                 *)
Consumed(c) == Total(plan[c]) - unsent[c] - rcvq[c]

Begins(c) == {n \in DOMAIN plan[c] : Total(SubSeq(plan[c], 1, n - 1)) = Consumed(c)}

LengthsSeen(c) ==
    IF Begins(c) = {} THEN UNION {{p[n] : n \in DOMAIN p} : p \in UNION {Plans[d] : d \in Client}}
    ELSE {plan[c][n] : n \in Begins(c)}

(* IncomingStreamWrite: n units are taken by the socket; with none taken   *)
(* the write would have blocked, or the connection is broken.              *)
\* A bug: an attempt to write counts as activity.
StreamWrite_Active(s, n, broken) ==
    IF broken \/ s.left = 0 THEN Closed(s)
    ELSE [state |-> IF n = s.left THEN "STREAM_READ_FIRST" ELSE "STREAM_WRITE",
          age |-> 0, left |-> s.left - n]
StreamWrite(s, n, broken) ==
    IF broken \/ s.left = 0 THEN Closed(s)
    ELSE [state |-> IF n = s.left THEN "STREAM_READ_FIRST" ELSE "STREAM_WRITE",
          age |-> IF n = 0 THEN s.age ELSE 0,
          left |-> s.left - n]

(* A message is complete: SLPDProcessMessage, and the reply is written at  *)
(* once as far as it goes.  No reply, like an error, closes the connection. *)
WithReply(s, r) == [s EXCEPT !.state = "STREAM_WRITE_FIRST", !.left = r]

Answered(s) ==
    UNION {{StreamWrite(WithReply(s, r), n, broken) :
               n \in 0 .. r, broken \in BOOLEAN} : r \in ReplyLength}

(* IncomingStreamRead.  The first read of a message looks at its length    *)
(* and needs a header's worth for it; any read takes what is there, up to  *)
(* the end of the message, and an empty one closes the connection.         *)
\* A bug: a read takes everything that has arrived.
ReadUnits_All(c, left) == rcvq[c]
ReadUnits(c, left) == Min({rcvq[c], left})

StreamRead(c, left) ==
    LET s == stream[c]
        n == ReadUnits(c, left)
    IN  IF n = 0 \/ (s.state = "STREAM_READ_FIRST" /\ rcvq[c] < Header) THEN {<<Closed(s), 0>>}
        ELSE IF n < left
        THEN {<<[state |-> "STREAM_READ", age |-> 0, left |-> left - n], n>>}
        ELSE {<<t, n>> : t \in Answered([s EXCEPT !.age = 0])}

IncomingStreamRead(c) ==
    \E left \in IF stream[c].state = "STREAM_READ_FIRST" THEN LengthsSeen(c)
                ELSE {stream[c].left} :
    \E r \in StreamRead(c, left) :
        /\ stream' = [stream EXCEPT ![c] = r[1]]
        /\ rcvq' = [rcvq EXCEPT ![c] = @ - r[2]]
        /\ UNCHANGED <<fixed, backlog, plan, unsent, peer>>

IncomingStreamWrite(c) ==
    /\ \E n \in 0 .. stream[c].left, broken \in BOOLEAN :
          stream' = [stream EXCEPT ![c] = StreamWrite(@, n, broken)]
    /\ UNCHANGED <<fixed, backlog, plan, unsent, rcvq, peer>>
-----------------------------------------------------------------------------
(* Accepting and aging connections.                                        *)

MayAccept == SocketCount(fixed, stream) < MaxSockets

(* IncomingSocketListen: the connection is a new one at the head of the    *)
(* list, so that the pass that accepts it does not come to it.             *)
IncomingSocketListen(a) ==
    /\ IF MayAccept /\ backlog[a] # <<>>
       THEN /\ stream' = [stream EXCEPT ![Head(backlog[a])] =
                             [state |-> "STREAM_READ_FIRST", age |-> 0, left |-> 0]]
            /\ backlog' = [backlog EXCEPT ![a] = Tail(@)]
       ELSE UNCHANGED <<stream, backlog>>
    /\ UNCHANGED <<fixed, plan, unsent, rcvq, peer>>

(* SLPDIncomingAge walks the list and frees as it goes, so that the count  *)
(* that decides falls during the walk; order is the list, newest first.    *)
AgeLimit(f, s) ==
    IF SocketCount(f, s) > ComfortSockets THEN BusyCloseConn ELSE CloseConn

AgedStream(f, s, c) ==
    IF s[c].state \notin Reading \cup Writing THEN s[c]
    ELSE IF s[c].age > AgeLimit(f, s) THEN NoStream
    ELSE [s[c] EXCEPT !.age = @ + 1]

AgedStreams(f, s, order) ==
    FoldLeft(LAMBDA t, c : [t EXCEPT ![c] = AgedStream(f, t, c)], s, order)

IncomingAge ==
    \E order \in SetToSeqs(Streams) :
        /\ stream' = AgedStreams(fixed, stream, order)
        /\ UNCHANGED <<fixed, backlog, plan, unsent, rcvq, peer>>

(* LoadFdSets frees the connections that were closed and lists for polling *)
(* the others, and the listening sockets while there is room.              *)
LoadedStreams ==
    [c \in Client |-> IF stream[c].state = "SOCKET_CLOSE" THEN NoStream ELSE stream[c]]

\* A bug: the last place is never given away.
PolledListeners_Short ==
    {a \in Addr : Listening(fixed, a) /\ SocketCount(fixed, LoadedStreams) + 1 < MaxSockets}
PolledListeners ==
    {a \in Addr : Listening(fixed, a) /\ SocketCount(fixed, LoadedStreams) < MaxSockets}
-----------------------------------------------------------------------------
(* The clients.                                                            *)

\* A connection is made while its address is listened on.
Connect(c) ==
    /\ peer[c] = "new" /\ Listening(fixed, Server[c])
    /\ peer' = [peer EXCEPT ![c] = "open"]
    /\ backlog' = [backlog EXCEPT ![Server[c]] = Append(@, c)]
    /\ UNCHANGED <<fixed, stream, plan, unsent, rcvq>>

\* Any part of what is left to send arrives.
Arrive(c) ==
    /\ peer[c] = "open" /\ stream[c] # NoStream
    /\ \E n \in 1 .. unsent[c] :
          /\ unsent' = [unsent EXCEPT ![c] = @ - n]
          /\ rcvq' = [rcvq EXCEPT ![c] = @ + n]
    /\ UNCHANGED <<fixed, stream, backlog, plan, peer>>

\* A client may go away at any time, and what it sent stays readable.
HangUp(c) ==
    /\ peer[c] = "open" /\ stream[c] # NoStream
    /\ peer' = [peer EXCEPT ![c] = "gone"]
    /\ UNCHANGED <<fixed, stream, backlog, plan, unsent, rcvq>>

ClientStep == \E c \in Client : Connect(c) \/ Arrive(c) \/ HangUp(c)
=============================================================================
