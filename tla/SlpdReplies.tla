----------------------------- MODULE SlpdReplies -----------------------------
(***************************************************************************)
(* How slpd answers the requests of SLPv2 and SLPv1 (slpd_process.c,       *)
(* slpd_v1process.c): what is refused before the database is asked, how an *)
(* agent tells of itself and of the directory agents it knows, and which   *)
(* results are worth a reply.                                              *)
(*                                                                         *)
(* A request has, besides what SlpdQueries looks at, its version, whether  *)
(* it came by multicast (mcast), names an address of this agent in its     *)
(* list of previous responders (prlist), asks for an SPI (spi), which a    *)
(* build without security does not support, and is from this host          *)
(* (loopback).                                                             *)
(***************************************************************************)
EXTENDS SlpdQueries

CONSTANTS
    UseScopes,      \* net.slp.useScopes
    KnownDAs        \* the directory agents of SLPDKnownDAEnum, in its order

ASSUME RqstAssumption == \A rq \in SrvRqst \cup SrvTypeRqst \cup AttrRqst :
    rq.version \in {1, 2} /\ {rq.mcast, rq.prlist, rq.spi, rq.loopback} \subseteq BOOLEAN

DirectoryAgent == 100   \* the abstract types "directory-agent"
ServiceAgent == 101     \* and "service-agent"

VARIABLES
    isDA,           \* net.slp.isDA
    reply           \* what is answered without the database: [err, adverts], <<>> for nothing

rvars == <<qvars, isDA, reply>>

-----------------------------------------------------------------------------
InScope(rq) == rq.scopes \cap UseScopes # {}
AsksFor(rq, agent) == rq.kind = "SrvRqst" /\ rq.type.abs = agent /\ (rq.type.svc = "" <=> rq.version = 1)
Asks(rq) == AsksFor(rq, DirectoryAgent) \/ (AsksFor(rq, ServiceAgent) /\ rq.version = 2)

\* An AttrRqst is looked at for its scope before its SPI, a SrvRqst the other way round.
Refusal(rq) ==
    CASE rq.version = 1 /\ ~isDA -> "VER_NOT_SUPPORTED"
      [] rq.prlist /\ (rq.version = 2 \/ isDA) -> "PREVIOUS_RESPONDER"
      [] OTHER ->
            IF rq.version = 2 /\ rq.spi /\ rq.kind = "SrvRqst" THEN "AUTHENTICATION_UNKNOWN"
            ELSE IF Asks(rq) THEN "OK"
            ELSE IF ~InScope(rq) THEN "SCOPE_NOT_SUPPORTED"
            ELSE IF rq.version = 2 /\ rq.spi /\ rq.kind = "AttrRqst" THEN "AUTHENTICATION_UNKNOWN"
            ELSE "OK"

Me == "me"
Terminator == "error"
ASSUME KnownDAsAssumption == KnownDAs \in Seq(STRING) /\ Terminator \notin ToSet(KnownDAs)

(***************************************************************************)
(* ProcessDASrvRqst, v1ProcessDASrvRqst and ProcessSASrvRqst.  libslp asks *)
(* the agent of its own host for all the directory agents it knows: it is  *)
(* told of the agent itself first, if it is one, and by a DAAdvert with an *)
(* error code that there are no more.                                      *)
(***************************************************************************)
\* A bug: the list has no end.
DirectoryList_NoEnd == (IF isDA THEN <<Me>> ELSE <<>>) \o KnownDAs
DirectoryList == (IF isDA THEN <<Me>> ELSE <<>>) \o KnownDAs \o <<Terminator>>

AgentReply(rq) ==
    LET heard == rq.scopes = {} \/ InScope(rq)
    IN  IF AsksFor(rq, ServiceAgent)
        THEN IF heard THEN [err |-> "OK", adverts |-> <<Me>>] ELSE [err |-> "SCOPE_NOT_SUPPORTED", adverts |-> <<>>]
        ELSE IF rq.version = 2 /\ rq.loopback THEN [err |-> "OK", adverts |-> DirectoryList]
        ELSE IF ~isDA THEN [err |-> "MESSAGE_NOT_SUPPORTED", adverts |-> <<>>]
        ELSE IF heard THEN [err |-> "OK", adverts |-> <<Me>>]
        ELSE [err |-> "SCOPE_NOT_SUPPORTED", adverts |-> <<>>]

-----------------------------------------------------------------------------
(***************************************************************************)
(* The reply.  Nothing that failed or is empty goes out by multicast, and  *)
(* nothing at all to a request whose previous responders name this agent.  *)
(* The send buffer is emptied before each message; v1ProcessSrvRqst leaves *)
(* it so when there is an error.  The reader of the socket sends what the  *)
(* buffer holds, but for two errors.                                       *)
(***************************************************************************)
\* The handlers look for the flag of SLPv2, which the eight flags of an SLPv1 header never hold.
ByMulticast == request.mcast /\ request.version = 2

Answered == request # NoRequest /\ (answer # <<>> \/ reply # <<>>)
ErrorCode == IF reply = <<>> THEN "OK" ELSE reply[1].err
Results == IF reply = <<>> THEN answer[1] ELSE reply[1].adverts

\* A bug: an empty result is sent by multicast too.
Kept_Empty ==
    /\ ErrorCode \notin {"VER_NOT_SUPPORTED", "PREVIOUS_RESPONDER"}
    /\ ByMulticast => ErrorCode = "OK"
    /\ request.version = 1 /\ request.kind = "SrvRqst" => ErrorCode = "OK"
\* Whether the send buffer holds a reply after the handler.
Kept ==
    /\ ErrorCode \notin {"VER_NOT_SUPPORTED", "PREVIOUS_RESPONDER"}
    /\ ByMulticast => ErrorCode = "OK" /\ Results # <<>>
    /\ request.version = 1 /\ request.kind = "SrvRqst" => ErrorCode = "OK"

Sent == Kept /\ ErrorCode \notin {"VER_NOT_SUPPORTED", "MESSAGE_NOT_SUPPORTED"}

-----------------------------------------------------------------------------
RInit == QInit /\ isDA \in BOOLEAN /\ reply = <<>>

Receive(rq) == Ask(rq) /\ UNCHANGED <<isDA, reply>>

\* The request gets its answer without the database,
Refuse ==
    /\ request # NoRequest /\ reply = <<>>
    /\ Refusal(request) # "OK" \/ Asks(request)
    /\ reply' = <<IF Refusal(request) # "OK" THEN [err |-> Refusal(request), adverts |-> <<>>] ELSE AgentReply(request)>>
    /\ UNCHANGED <<db, urlcount, typelistlen, request, answer, isDA>>

\* or from it.
Search ==
    /\ request # NoRequest /\ Refusal(request) = "OK" /\ ~Asks(request)
    /\ SrvRqstStart \/ SrvTypeRqstStart \/ AttrRqstStart
    /\ UNCHANGED <<isDA, reply>>

Respond ==
    /\ Answered
    /\ IF answer # <<>> THEN RqstEnd
       ELSE request' = NoRequest /\ UNCHANGED <<db, urlcount, typelistlen, answer>>
    /\ reply' = <<>> /\ UNCHANGED isDA

RNext == \/ request = NoRequest /\ \E e \in Entry : (Reg(e) \/ Unreg(e)) /\ UNCHANGED <<isDA, reply>>
         \/ request = NoRequest /\ \E rq \in SrvRqst \cup SrvTypeRqst \cup AttrRqst : Receive(rq)
         \/ Refuse \/ Search \/ Respond

RSpec == RInit /\ [][RNext]_rvars

-----------------------------------------------------------------------------
(* A request of SLPv2 by multicast never gets an error or an empty reply,  *)
(* whichever handler it went through, and gets one when a registration in  *)
(* scope satisfies it (slpd_process.c:504).                                *)
MulticastHearsResults ==
    Answered /\ ByMulticast =>
        /\ Sent => ErrorCode = "OK" /\ Results # <<>>
        /\ request.kind = "SrvRqst" /\ Refusal(request) = "OK" /\ ~Asks(request) =>
             \A e \in Matching(request) : Servable(request, e) => Sent

(* A unicast request of SLPv2 is always replied to, be it with an error,   *)
(* unless its sender has had the reply already or asks an agent that is no *)
(* directory agent for its advert (slpd_process.c:495).                    *)
UnicastIsAnswered ==
    Answered /\ request.version = 2 /\ ~request.mcast =>
        (Sent <=> ~request.prlist /\ ErrorCode # "MESSAGE_NOT_SUPPORTED")

(* Whether a request of SLPv2 is answered: by unicast always, by multicast *)
(* exactly when there is something to say (slpd_process.c:495, 504).       *)
RequestsAreAnswered == MulticastHearsResults /\ UnicastIsAnswered

(* What the agent tells a program on its host of the directory agents ends *)
(* with an advert that is none, and nothing follows it: libslp reads until *)
(* then (slpd_process.c:312).                                              *)
DirectoryListEnds ==
    Answered /\ AsksFor(request, DirectoryAgent) /\ request.version = 2 /\ request.loopback /\ ErrorCode = "OK" =>
        \A i \in DOMAIN Results : Results[i] = Terminator <=> i = Len(Results)
=============================================================================
