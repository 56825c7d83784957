--------------------------- MODULE MCSlpdForwarding ---------------------------
(***************************************************************************)
(* Small instances of SlpdForwarding for TLC: one agent, a client on its   *)
(* loopback interface, one directory agent.                                *)
(***************************************************************************)
EXTENDS SlpdForwarding

MCFamily == [p \in Peer |-> "inet"]

SrvRegOf(url, scopes, wire, peer, xid) ==
    [url |-> url, type |-> "t1", scopes |-> scopes, wire |-> wire,
     peer |-> peer, pid |-> NoPid, xid |-> xid]

(* A registration that never runs out.                                     *)
OneService == {SrvRegOf("u1", {"A"}, 5, "lo", 1)}

Withdrawals ==
    {[url |-> "u1", scopes |-> {"A"}, peer |-> "lo", xid |-> 3]}

\* The records of a reg file all have transaction id 0.
OneStatic == <<SrvRegOf("u2", {"A", "B"}, 5, Unspec, 0)>>

NoStatic == <<>>

MCDaScopes == [d \in Da |-> {"A"}]

\* net.slp.unicastTimeouts in whole seconds, and shorter ones.
DefaultTimeouts == <<0, 0, 1, 1, 2>>
ShortTimeouts == <<0, 1>>

\* How many packets may be on their way at a time, not counting lost ones.
TightNetBound == Cardinality(net) <= 2
=============================================================================
