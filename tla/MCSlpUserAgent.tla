---------------------------- MODULE MCSlpUserAgent ----------------------------
(* Two directory agents, one agent that is only reached by multicast, and the *)
(* daemon, which serves one of the two scopes.                                *)
EXTENDS SlpUserAgent, TLC

CONSTANTS d1, d2, s1, local, a, b, none, nomore

MCDA == {d1, d2}
MCSA == {s1}
MCScope == {a, b}
MCScopes == (d1 :> {a, b}) @@ (d2 :> {b}) @@ (s1 :> {a}) @@ (local :> {a})
MCBig == {d2}

Find(scopes, wants, uc) == [op |-> "find", scopes |-> scopes, wants |-> wants, uc |-> uc]
Other(op, scopes) == [op |-> op, scopes |-> scopes, wants |-> 3, uc |-> none]

MCCalls == {Find({a, b}, 3, none), Find({b}, 3, none), Find({a, b}, 1, none),
            Find({a}, 3, d1), Find({b}, 3, d1),
            Other("sas", {a}), Other("das", {a}), Other("reg", {a}), Other("reg", {b})}
=============================================================================
