------------------------------ MODULE SlpdMain ------------------------------
(***************************************************************************)
(* The main loop of slpd (slpd_main.c) around the incoming sockets: flags  *)
(* set by the signal handler and tested once in a round, poll, the pass    *)
(* over the sockets it found ready, the handling of SIGHUP and of the      *)
(* alarm, and the end after SIGTERM.  A signal may come between any two    *)
(* steps.  pc is where the loop is; what it does to the registrations and  *)
(* the outgoing sockets is in SlpdDatabase and SlpdForwarding.             *)
(***************************************************************************)
EXTENDS SlpdIncoming

CONSTANTS
    StartQuiet,      \* no signal comes before the flags are zeroed
    MaxHup           \* bound: how many SIGHUPs the daemon gets

ASSUME MainAssumption == StartQuiet \in BOOLEAN /\ MaxHup \in Nat

VARIABLES
    pc,        \* where the main thread is
    flag,      \* the flags that are set: G_SIGALRM, G_SIGHUP, G_SIGTERM
    alarm,     \* the alarm: "off", "set", or "due" to ring at any time
    ready,     \* what poll found and the pass has not handled yet
    hups,      \* the SIGHUPs delivered so far
    unheeded   \* one of them was delivered after the last reload began

main == <<pc, flag, alarm, ready, hups, unheeded>>

vars == <<incoming, main>>

Places == {"alarm", "clear", "load", "poll", "handle", "hup", "huphandled",
           "alrm", "alrmhandled", "down"}

(* Where the tests of the flags lead after a pass: the signals to handle,  *)
(* SIGHUP first, or the next round.                                        *)
AfterPass(flags) ==
    IF "HUP" \in flags THEN "hup" ELSE IF "ALRM" \in flags THEN "alrm" ELSE "load"

Init ==
    /\ IncomingInit
    /\ pc = "alarm" /\ flag = {} /\ alarm = "off" /\ ready = {}
    /\ hups = 0 /\ unheeded = FALSE
-----------------------------------------------------------------------------
(* Signals.                                                                *)

(* SIGTERM and SIGHUP come from outside, the alarm when its time is up: as  *)
(* its seconds are more than the one that poll waits, not before a poll.    *)
Deliver(signal) ==
    /\ pc # "down"
    /\ StartQuiet => pc \notin {"alarm", "clear"}
    /\ flag' = flag \cup {signal}
    /\ alarm' = IF signal = "ALRM" THEN "off" ELSE alarm
    /\ hups' = IF signal = "HUP" THEN hups + 1 ELSE hups
    /\ unheeded' = (unheeded \/ signal = "HUP")
    /\ UNCHANGED <<incoming, pc, ready>>

AlarmRings == alarm = "due" /\ Deliver("ALRM")

Hup == hups < MaxHup /\ Deliver("HUP")

Term == "TERM" \notin flag /\ Deliver("TERM")
-----------------------------------------------------------------------------
(* The main thread.                                                        *)

At(here, there) == pc = here /\ pc' = there

SetAlarm ==
    /\ At("alarm", "clear")
    /\ alarm' = "set"
    /\ UNCHANGED <<incoming, flag, ready, hups, unheeded>>

ClearFlags ==
    /\ At("clear", "load")
    /\ flag' = {}
    /\ UNCHANGED <<incoming, alarm, ready, hups, unheeded>>

(* The top of the loop: the closed connections are freed, and poll is      *)
(* passed over when a signal has come already.                             *)
LoadFdSets ==
    /\ "TERM" \notin flag
    /\ At("load", IF AfterPass(flag) = "load" THEN "poll" ELSE AfterPass(flag))
    /\ stream' = LoadedStreams
    /\ ready' = IF pc' # "poll" THEN {}
                ELSE {<<"stream", c>> : c \in {d \in Client : LoadedStreams[d] # NoStream}}
                        \cup {<<"listen", a>> : a \in PolledListeners}
    /\ UNCHANGED <<fixed, backlog, plan, unsent, rcvq, peer, flag, alarm, hups, unheeded>>

Found(s) ==
    IF s[1] = "listen" THEN backlog[s[2]] # <<>> ELSE Readable(s[2]) \/ Writable(s[2])

(* poll comes back with the sockets that are ready, after a second with    *)
(* none, or because a signal interrupts it.                                *)
Poll ==
    /\ \/ /\ At("poll", "handle")
          /\ ready' = {s \in ready : Found(s)}
       \/ /\ flag # {} /\ At("poll", AfterPass(flag))
          /\ ready' = {}
    /\ alarm' = IF alarm = "set" THEN "due" ELSE alarm
    /\ UNCHANGED <<incoming, flag, hups, unheeded>>

(* SLPDIncomingHandler: each ready socket according to its state.          *)
Handle(s) ==
    /\ At("handle", "handle") /\ s \in ready
    /\ ready' = ready \ {s}
    /\ \/ s[1] = "listen" /\ IncomingSocketListen(s[2])
       \/ s[1] = "stream" /\ stream[s[2]].state \in Reading /\ IncomingStreamRead(s[2])
       \/ s[1] = "stream" /\ stream[s[2]].state \in Writing /\ IncomingStreamWrite(s[2])
    /\ UNCHANGED <<flag, alarm, hups, unheeded>>

HandlerDone ==
    /\ ready = {} /\ At("handle", AfterPass(flag))
    /\ UNCHANGED <<incoming, flag, alarm, ready, hups, unheeded>>

(* HandleSigHup, of which the listening sockets belong here.               *)
HandleSigHup ==
    /\ At("hup", "huphandled")
    /\ IncomingReinit
    /\ unheeded' = FALSE
    /\ UNCHANGED <<stream, backlog, plan, unsent, rcvq, peer, flag, alarm, ready, hups>>

\* A bug: every flag but that of the alarm is cleared.
ClearHup_All ==
    /\ At("huphandled", AfterPass(flag \ {"HUP"}))
    /\ flag' = flag \cap {"ALRM"}
    /\ UNCHANGED <<incoming, alarm, ready, hups, unheeded>>
ClearHup ==
    /\ At("huphandled", AfterPass(flag \ {"HUP"}))
    /\ flag' = flag \ {"HUP"}
    /\ UNCHANGED <<incoming, alarm, ready, hups, unheeded>>

(* HandleSigAlrm, of which the aging of connections belongs here.          *)
HandleSigAlrm ==
    /\ At("alrm", "alrmhandled")
    /\ IncomingAge
    /\ UNCHANGED <<flag, alarm, ready, hups, unheeded>>

ClearAlrm ==
    /\ At("alrmhandled", "load")
    /\ flag' = flag \ {"ALRM"}
    /\ alarm' = "set"
    /\ UNCHANGED <<incoming, ready, hups, unheeded>>

HandleSigTerm ==
    /\ "TERM" \in flag /\ At("load", "down")
    /\ IncomingDeinit
    /\ UNCHANGED <<flag, alarm, ready, hups, unheeded>>

MainStep ==
    \/ SetAlarm \/ ClearFlags \/ LoadFdSets \/ Poll
    \/ (\E s \in ready : Handle(s)) \/ HandlerDone
    \/ HandleSigHup \/ ClearHup \/ HandleSigAlrm \/ ClearAlrm \/ HandleSigTerm

Next ==
    \/ MainStep
    \/ AlarmRings \/ Hup \/ Term
    \/ pc # "down" /\ ClientStep /\ UNCHANGED main

(* The main thread runs, and an alarm rings when its time is up.  Nothing  *)
(* is asked of clients and of whoever sends the other signals.             *)
Fairness == WF_vars(MainStep) /\ WF_vars(AlarmRings)

Spec == Init /\ [][Next]_vars /\ Fairness
-----------------------------------------------------------------------------
(* Every state of the loop and of the sockets is well typed.               *)
TypeOK ==
    /\ IncomingTypeOK
    /\ pc \in Places
    /\ flag \subseteq {"ALRM", "HUP", "TERM"}
    /\ alarm \in {"off", "set", "due"}
    /\ ready \subseteq {"stream"} \X Client \cup {"listen"} \X Addr
    /\ hups \in 0 .. MaxHup /\ unheeded \in BOOLEAN

(* However a stream is cut into segments, IncomingStreamRead takes messages *)
(* off it whole: every message is looked for where one begins, and a read   *)
(* that is under way ends where its message does.                           *)
Boundaries(c) == {Total(SubSeq(plan[c], 1, n)) : n \in 0 .. Len(plan[c])}

Framed ==
    \A c \in Streams :
        IF stream[c].state = "STREAM_READ" THEN Consumed(c) + stream[c].left \in Boundaries(c)
        ELSE stream[c].state # "SOCKET_CLOSE" => Consumed(c) \in Boundaries(c)

(* A client that does nothing, or nothing any more, loses its connection.   *)
IdleConnectionsClose == \A c \in Client : (stream[c] # NoStream) ~> (stream[c] = NoStream)

(* A connection that waits at a listening socket is accepted at some time,  *)
(* though all sockets are in use when it comes and their clients do nothing. *)
WaitingIsAccepted ==
    \A c \in Client :
        (c \in ToSet(backlog[Server[c]])) ~> (c \notin ToSet(backlog[Server[c]]))

(* The alarm that drives all periodic work is set again each time, until    *)
(* SIGTERM ends the daemon.                                                 *)
AgingGoesOn == []<>(pc \in {"alrmhandled", "down"})

(* SIGTERM ends the daemon, whatever it is doing when the signal comes.     *)
TermIsHeeded == ("TERM" \in flag) ~> (pc = "down")

(* No flag of a signal is lost when that of another is cleared, and no      *)
(* alarm is the last one: the flags and alarm() of main, slpd_main.c:711-737. *)
AlarmAndTermAreHeeded == AgingGoesOn /\ TermIsHeeded

(* Every SIGHUP is followed by a reload that begins after it.               *)
HupIsHeeded == unheeded ~> (~unheeded \/ pc = "down")

(* A message that has arrived in full is read in full, while its client     *)
(* waits for the answer.                                                    *)
Complete(c) ==
    /\ stream[c].state = "STREAM_READ" /\ rcvq[c] >= stream[c].left /\ peer[c] = "open"

CompleteIsRead ==
    \A c \in Client :
        Complete(c) ~> (peer[c] = "gone" \/ stream[c].state \in Writing \cup {"STREAM_READ_FIRST", "SOCKET_CLOSE"} \/ pc = "down")
=============================================================================
