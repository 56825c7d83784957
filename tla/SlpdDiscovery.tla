---------------------------- MODULE SlpdDiscovery ----------------------------
(***************************************************************************)
(* How an agent finds a directory agent and finds it gone: the timers of   *)
(* slpd_knownda.c on both hosts, the settings of slpd_property.c that      *)
(* drive them, and which advertisements slpd_process.c heeds.              *)
(*                                                                         *)
(* Each daemon does its periodic work every AgeInterval seconds, at its    *)
(* own phase: the two alarms ring in turn.  An advertisement arrives       *)
(* before the next alarm or not at all.                                    *)
(***************************************************************************)
EXTENDS Integers

CONSTANTS Configs,    \* the configurations of the two hosts
          MaxFaults   \* how often a daemon starts, stops or is sent SIGHUP

(* net.slp.staleDACheckPeriod of the agent and of the DA, net.slp.DAHeartBeat, *)
(* net.slp.passiveDADetection of both, and of the agent activeDADetection, *)
(* DAActiveDiscoveryInterval and whether DAAddresses names the DA.         *)
Config == [saPeriod : Nat, daPeriod : Nat, heartBeat : Nat,
           saPassive : BOOLEAN, daPassive : BOOLEAN,
           active : BOOLEAN, interval : Nat, static : BOOLEAN]

ASSUME DiscoveryAssumption == Configs \subseteq Config /\ MaxFaults \in Nat

VARIABLES
    conf,         \* the configuration, which stays
    turn,         \* whose alarm rings next
    daUp,         \* the DA runs
    nextAdvert,   \* nextPassiveDAAdvert of the DA
    known,        \* the agent has an entry for the DA
    entryvalue,   \* the "time to stale" count of that entry
    xmits,        \* activeDiscoveryXmits of the agent
    nextActive,   \* nextActiveDiscovery of the agent
    asked,        \* the discovery requests the DA may still answer
    answered,     \* the configured DA answered since the agent last started
    missed,       \* heartbeats missed in a row, those of a stopped DA all
    faults        \* how many starts, stops and SIGHUPs there were

saVars == <<known, entryvalue, xmits, nextActive>>
daVars == <<daUp, nextAdvert>>
vars == <<conf, turn, daVars, saVars, asked, answered, missed, faults>>

AgeInterval == 15
HeartbeatsPerCheckPeriod == 3
DaFind == 900

\* Two or more heartbeats missed in a row.
Many == 2

-----------------------------------------------------------------------------
(* SLPDPropertyReinit.                                                     *)

StaleDACheckPeriod(p) ==
    IF p > 0 /\ p < (HeartbeatsPerCheckPeriod + 1) * AgeInterval
    THEN (HeartbeatsPerCheckPeriod + 1) * AgeInterval ELSE p

\* A bug: one heartbeat in a check period.
DAHeartBeat_OnePerPeriod(h, p) ==
    IF p > 0 /\ (h = 0 \/ h > p) THEN p
    ELSE IF h < AgeInterval THEN AgeInterval ELSE h

\* The heartbeat a DA was given is made faster for the stale DA check, and is
\* no faster than the alarm.
DAHeartBeat(h, p) ==
    LET max == p \div HeartbeatsPerCheckPeriod
        b == IF p > 0 /\ (h = 0 \/ h > max) THEN max ELSE h
    IN IF b < AgeInterval THEN AgeInterval ELSE b

HeartBeat == DAHeartBeat(conf.heartBeat, StaleDACheckPeriod(conf.daPeriod))

Period == StaleDACheckPeriod(conf.saPeriod)

DAActiveDiscoveryInterval ==
    IF ~conf.active THEN 0
    ELSE IF conf.interval > 1 /\ conf.interval < DaFind THEN DaFind ELSE conf.interval

-----------------------------------------------------------------------------
(* The agent.                                                              *)

\* ProcessDAAdvert: heartbeats have the transaction id 0, answers have not.
\* No outgoing socket is ever a stream, so that none counts as connected.
HeedsHeartbeats == conf.saPassive
HeedsAnswers == DAActiveDiscoveryInterval # 0

\* SLPDKnownDAAdd for an advertisement of a DA that is not going down.
KnownDAAdd == known' = TRUE /\ entryvalue' = Period \div AgeInterval

\* SLPDKnownDAActiveDiscovery: whether a request is sent, how many more are in
\* this series, and the time to the next series.
Discovers == DAActiveDiscoveryInterval # 0 /\ xmits >= 0 /\ nextActive <= 0

ActiveDiscovery ==
    /\ xmits' = IF ~Discovers THEN xmits
                ELSE IF xmits > 0 THEN xmits - 1
                ELSE IF DAActiveDiscoveryInterval = 1 THEN -2 ELSE 2
    /\ nextActive' = IF DAActiveDiscoveryInterval = 0 \/ xmits < 0 THEN nextActive
                     ELSE IF nextActive > 0 THEN nextActive - AgeInterval
                     ELSE IF xmits = 0 /\ DAActiveDiscoveryInterval # 1
                     THEN DAActiveDiscoveryInterval ELSE nextActive

\* A bug: the entry goes when its count falls below 0.
Stale_Below == known /\ Period # 0 /\ entryvalue < 0

\* SLPDKnownDAStaleDACheck finds an entry nothing was heard of.
Stale == known /\ Period # 0 /\ entryvalue = 0

\* HandleSigAlrm: the stale DA check, then active discovery, which lists the
\* DAs already known so that they do not answer.
SaAlarm ==
    /\ turn = "sa" /\ turn' = "da"
    /\ known' = (known /\ ~Stale)
    /\ entryvalue' = IF known /\ Period # 0 /\ entryvalue > 0 THEN entryvalue - 1
                     ELSE entryvalue
    /\ ActiveDiscovery
    /\ asked' = IF Discovers /\ ~known' THEN asked \cup {"multicast"}
                ELSE asked \ {"multicast"}
    /\ UNCHANGED <<conf, daVars, answered, missed, faults>>

\* SLPDOutgoingRetry: a configured DA that does not answer is given up.
GivesUp ==
    /\ "static" \in asked /\ asked' = asked \ {"static"}
    /\ known' = FALSE
    /\ UNCHANGED <<conf, turn, daVars, entryvalue, xmits, nextActive>>
    /\ UNCHANGED <<answered, missed, faults>>

\* HandleSigHup: the list is emptied and the timers are set as at the start;
\* SLPDKnownDAInit asks the DAs of net.slp.DAAddresses, then everybody.
HandleSigHup ==
    /\ faults < MaxFaults /\ faults' = faults + 1
    /\ known' = FALSE
    /\ xmits' = IF DAActiveDiscoveryInterval = 0 THEN 3 ELSE 2
    /\ nextActive' = 0
    /\ asked' = (IF conf.static THEN {"static"} ELSE {}) \cup
                (IF DAActiveDiscoveryInterval = 0 THEN {} ELSE {"multicast"})
    /\ answered' = FALSE
    /\ UNCHANGED <<conf, turn, daVars, entryvalue, missed>>

-----------------------------------------------------------------------------
(* The directory agent.                                                    *)

Advertises == conf.daPassive \/ StaleDACheckPeriod(conf.daPeriod) # 0

\* SLPDKnownDAPassiveDAAdvert is due.
Due == daUp /\ Advertises /\ nextAdvert - AgeInterval <= 0

\* The time to the next heartbeat, which keeps what the alarm came late.
NextAdvert == nextAdvert - AgeInterval + (IF Due THEN HeartBeat ELSE 0)

Heard == missed' = 0 /\ KnownDAAdd /\ UNCHANGED <<xmits, nextActive>>
NotHeard == missed' = IF missed < Many THEN missed + 1 ELSE Many

\* HandleSigAlrm of the DA: its heartbeat, if it is time, is heard or lost.
DaAlarm(heard) ==
    /\ turn = "da" /\ turn' = "sa"
    /\ nextAdvert' = IF daUp /\ Advertises THEN NextAdvert ELSE nextAdvert
    /\ IF Due THEN IF heard THEN HeedsHeartbeats /\ Heard
                            ELSE NotHeard /\ UNCHANGED saVars
       ELSE ~heard /\ UNCHANGED <<saVars, missed>>
    /\ UNCHANGED <<conf, daUp, asked, answered, faults>>

\* ProcessDASrvRqst: the DA answers a discovery request.  The answer ends the
\* request to a configured DA, also when ProcessDAAdvert ignores it.
DaAnswers(r) ==
    /\ daUp /\ r \in asked /\ asked' = asked \ {r}
    /\ answered' = (answered \/ r = "static")
    /\ IF HeedsAnswers THEN Heard ELSE UNCHANGED <<saVars, missed>>
    /\ UNCHANGED <<conf, turn, daVars, faults>>

DaStart ==
    /\ ~daUp /\ daUp' = TRUE /\ nextAdvert' = 0
    /\ faults < MaxFaults /\ faults' = faults + 1
    /\ UNCHANGED <<conf, turn, saVars, asked, answered, missed>>

\* SLPDPropertyReinit at a SIGHUP of the DA.
DaHup ==
    /\ daUp /\ nextAdvert' = 0
    /\ faults < MaxFaults /\ faults' = faults + 1
    /\ UNCHANGED <<conf, turn, daUp, saVars, asked, answered, missed>>

\* It crashes, or HandleSigTerm sends a last advertisement, with bootstamp 0,
\* which takes the entry away when it is heard.
DaStop ==
    /\ daUp /\ daUp' = FALSE /\ missed' = Many
    /\ faults < MaxFaults /\ faults' = faults + 1
    /\ known' \in {known, known /\ ~(Advertises /\ HeedsHeartbeats)}
    /\ UNCHANGED <<conf, turn, nextAdvert, entryvalue, xmits, nextActive>>
    /\ UNCHANGED <<asked, answered>>

-----------------------------------------------------------------------------
Init ==
    /\ conf \in Configs
    /\ turn \in {"sa", "da"}
    /\ daUp \in BOOLEAN /\ nextAdvert = 0
    /\ known = FALSE /\ entryvalue = 0
    /\ xmits = (IF DAActiveDiscoveryInterval = 0 THEN 3 ELSE 2) /\ nextActive = 0
    /\ asked = (IF conf.static THEN {"static"} ELSE {}) \cup
               (IF DAActiveDiscoveryInterval = 0 THEN {} ELSE {"multicast"})
    /\ answered = FALSE /\ missed = Many /\ faults = 0

Next ==
    \/ SaAlarm \/ GivesUp \/ HandleSigHup
    \/ \E heard \in BOOLEAN : DaAlarm(heard)
    \/ \E r \in {"static", "multicast"} : DaAnswers(r)
    \/ DaStart \/ DaHup \/ DaStop

Spec == Init /\ [][Next]_vars

\* The alarms ring, and of heartbeats without end some are heard.
FairSpec ==
    /\ Spec
    /\ WF_vars(SaAlarm) /\ WF_vars(\E heard \in BOOLEAN : DaAlarm(heard))
    /\ SF_vars(Due /\ DaAlarm(TRUE))

-----------------------------------------------------------------------------
(* Properties.                                                             *)

\* The DA advertises itself, with a check period no longer than that of the
\* agent or a heartbeat that fits into it, and the agent heeds it.
Agree ==
    /\ Advertises /\ HeedsHeartbeats /\ Period # 0
    /\ \/ conf.daPeriod # 0 /\ StaleDACheckPeriod(conf.daPeriod) <= Period
       \/ conf.heartBeat # 0 /\ HeartbeatsPerCheckPeriod * conf.heartBeat <= Period

\* Among hosts that agree, the stale DA check takes away no DA that runs and of
\* which no two heartbeats in a row were missed: for every period that divides
\* into alarms or not, and heartbeats that fall between alarms (the counts of
\* SLPDKnownDAStaleDACheck and SLPDKnownDAPassiveDAAdvert).
StaleMeansSilent ==
    [][Agree /\ SaAlarm /\ known /\ ~known' => missed = Many]_vars

\* A DA that is gone leaves the list, with or without its last advertisement,
\* where a check period is set; one that runs and advertises itself comes to be
\* known, though the agent missed its start, and where hosts agree it stays for
\* as long as it can be heard.
ListFollowsTheDA ==
    /\ Period # 0 => (<>[]~daUp => <>[]~known)
    /\ Advertises /\ HeedsHeartbeats => (<>[]daUp => []<>known)
    /\ Agree => (<>[](daUp /\ missed < Many) => <>[]known)

\* "do not ignore replies of our DiscoveryRequests made for static and dhcp
\* configured DAs" says ProcessDAAdvert: the answer of a configured DA makes it
\* known.
ConfiguredDAIsKnown == [][~answered /\ answered' => known']_vars
=============================================================================
