--------------------------- MODULE MCSlpdDatabase ---------------------------
(***************************************************************************)
(* Small instances of SlpdDatabase for TLC.  AgeInterval is 2 and          *)
(* SLP_LIFETIME_MAXIMUM is 5, so that the lifetimes 1 to 4 meet both sides *)
(* of the fix-up (3 = MaxLifetime - AgeInterval is where it clamps) and an *)
(* entry lives for one or two agings.                                      *)
(***************************************************************************)
EXTENDS SlpdDatabase

MCFamily == [p \in Peer |-> IF p = "h6" THEN "inet6" ELSE "inet"]

\* Each type hashes to a group of its own.
MCGroup == [t \in SrvType |-> t]

Reg(url, type, scopes, wire, peer, pid) ==
    [url |-> url, type |-> type, scopes |-> scopes, wire |-> wire,
     peer |-> peer, pid |-> pid, xid |-> 0]

Dereg(url, scopes, peer) ==
    [url |-> url, scopes |-> scopes, peer |-> peer, xid |-> 0]

(* Clients that keep to one scope list per service: local ones (with and   *)
(* without a watched process), two hosts of one address family and one of  *)
(* the other; a change of type; a URL the syntax check refuses and a scope *)
(* the agent does not serve.                                               *)
KeptScopes ==
    {Reg("u1", "t1", {"A"}, 5, "lo", "p1"),
     Reg("u1", "t2", {"A"}, 3, "h1", NoPid),
     Reg("u1", "t1", {"A"}, 5, "h2", NoPid),
     Reg("u1", "t1", {"B"}, 4, "h2", NoPid),
     Reg("u2", "t1", {"A", "B"}, 5, "h1", NoPid),
     Reg("u2", "t1", {"A", "B"}, 0, "h6", "p1"),
     Reg("u2", "t2", {"C"}, 5, "h1", NoPid),
     Reg("bad", "t1", {"A"}, 5, "h1", NoPid)}

KeptScopesDereg ==
    {Dereg("u1", {"A"}, "lo"), Dereg("u1", {"A"}, "h1"), Dereg("u1", {"A"}, "h2"),
     Dereg("u1", {"B"}, "h1"), Dereg("u1", {"B"}, "h2"),
     Dereg("u2", {"A", "B"}, "h1"), Dereg("u2", {"C"}, "h1")}

Static1 == Reg("u1", "t1", {"A"}, 5, Unspec, NoPid)
Static2 == Reg("u2", "t2", {"A", "B"}, 3, Unspec, NoPid)

MCRegRecord == {Static1, Static2}

MCRegFile == {<<>>, <<Static1>>, <<Static1, Static2>>, <<Static2, BadRecord, Static1>>}

\* Re-reading the file opens sockets again: bound how often.
ListeningBound == \A g \in Groups : listening[g] <= 2
=============================================================================
