--------------------------- MODULE ServiceRegistry ---------------------------
(***************************************************************************)
(* What a registration database promises its clients, without the list it  *)
(* is kept in: a set of registrations with at most one for a service, where *)
(* a service is a URL in a scope.  A registration takes the place of the    *)
(* one it updates, a deregistration withdraws it, a client only touches     *)
(* what it may touch, and time removes what nobody refreshes.               *)
(***************************************************************************)
EXTENDS SlpdRegistrations

CONSTANTS IsDA, RegMsg, DeregMsg

VARIABLE registry

\* The registrations a message is about, and whether its sender may change them.
Held(m) == {e \in registry : Matches(e, m)}

Permitted(m) == \A e \in Held(m) : ~SourceMismatch(e.peer, m.peer)

Register(m) ==
    /\ Permitted(m)
    /\ registry' = (registry \ Held(m)) \cup {NewEntry(m)}

Deregister(m) ==
    /\ Held(m) # {}
    /\ Permitted(m)
    /\ registry' = registry \ Held(m)

(* One interval passes; live are the client processes that still exist.    *)
Tick(live) ==
    registry' = {Aged(e, IsDA) : e \in {f \in registry : ~Dropped(f, live, IsDA)}}

\* The static registrations are withdrawn, to be read again from their file.
Reload == registry' = {e \in registry : e.source # "STATIC"}

Init == registry = {}

Next ==
    \/ \E m \in RegMsg : Register(m)
    \/ \E m \in DeregMsg : Deregister(m)
    \/ \E live \in SUBSET Pid : Tick(live)
    \/ Reload

Spec == Init /\ [][Next]_registry
=============================================================================
