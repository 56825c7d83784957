---------------------------- MODULE MCSlpdReplies ----------------------------
(***************************************************************************)
(* Small instances of SlpdReplies for TLC: a tag x that is indexed and a   *)
(* tag k that is not, strings over a, b and A, and services that share     *)
(* types and scopes in part.                                               *)
(***************************************************************************)
EXTENDS SlpdReplies, SlpdPredicate

\* The real index and the real predicates.
Tree == INSTANCE SlpdIndex WITH index <- typeIndex, Record <- {}, Twice <- {}
MCEmptyTree == Tree!Nil
MCadd_to_index(tree, s, e) == Tree!AddToIndex(tree, s, e)
MCindex_tree_delete(tree, s, e) == Tree!IndexTreeDelete(tree, s, e)
MCfind_and_call(tree, s) == Tree!FindAndCall(tree, s)
MCfind_leading_and_call(tree, s) == Tree!FindLeadingAndCall(tree, s)
MCcreatePredicateParseTree(version, tokens, depth) == ParseTree(version, tokens, depth)
MCSLPDPredicateTestTree(kids, attrs) == TestTree(kids, attrs)

Text(s) == [i \in DOMAIN s |-> <<s[i]>>]
a == <<97>>
ab == <<97, 98>>
x == <<120>>
k == <<107>>

MCIndexed == <<[tag |-> x]>>

Type(svc, abs, na, conc) == [svc |-> svc, abs |-> abs, na |-> na, conc |-> conc]
Url(t, h) == [type |-> t, host |-> h]
EntryOf(t, h, scopes, items) == [url |-> Url(t, h), type |-> t, scopes |-> scopes, items |-> items]

Abstract == Type("service:", 1, 0, 0)
Concrete == Type("service:", 1, 0, 2)
Shouted == Type("SERVICE:", 1, 0, 2)
Acme == Type("", 3, 7, 0)

MCEntry ==
    {EntryOf(Concrete, 1, {"A"}, <<[tag |-> x, vals |-> <<Text(a), Text(ab)>>], [tag |-> k]>>),
     EntryOf(Concrete, 2, {"B"}, <<[tag |-> x, vals |-> <<Text(ab)>>]>>),
     EntryOf(Abstract, 3, {"A", "B"}, <<[tag |-> k], [tag |-> x, vals |-> <<Text(a)>>]>>),
     EntryOf(Shouted, 4, {"A"}, <<[tag |-> <<88>>, vals |-> <<Text(<<65, 98>>)>>]>>),
     EntryOf(Acme, 5, {"B"}, <<>>)}

Open == [k |-> "("]
Close == [k |-> ")"]
Leaf(tag, op, rhs) == [k |-> "leaf", tag |-> tag, op |-> op, rhs |-> rhs]
Test(tag, op, rhs) == <<Open, Leaf(tag, op, rhs), Close>>

Star == <<Wildcard>>
MCPredicate ==
    {<<>>,
     Test(x, "=", Text(a)),
     Test(x, "=", Text(<<65>>)),
     Test(x, "=", Text(a) \o Star),
     Test(x, "=", Star \o Text(<<98>>)),
     <<Open, [k |-> "&"]>> \o Test(k, "=", Star) \o Test(x, "=", <<<<54, 49>>>>) \o <<Close>>,
     <<Open, [k |-> "!"]>> \o Test(x, "=", Text(ab)) \o <<Close>>,
     <<Open, [k |-> "|"]>> \o Test(k, "=", Star) \o Test(x, ">=", Text(ab)) \o <<Close>>,
     Test(x, "=", Text(a)) \o <<Close>>}

\* The fields of a request, but for those that differ from a plain unicast one.
Request(fields) == fields @@ [mcast |-> FALSE, prlist |-> FALSE, spi |-> FALSE, loopback |-> FALSE, version |-> 2]
SrvRqstFor(t, s, p) == [kind |-> "SrvRqst", type |-> t, scopes |-> s, pred |-> p]
Agent(abs) == Type("service:", abs, 0, 0)
V1Agent == Type("", DirectoryAgent, 0, 0)

MCSrvRqst ==
    {Request(SrvRqstFor(t, {"A"}, p)) : t \in {Abstract, Concrete}, p \in MCPredicate}
    \cup {Request(SrvRqstFor(Abstract, {"A", "B"}, p) @@ [mcast |-> TRUE]) :
            p \in {<<>>, Test(x, "=", Text(a) \o Star), Test(x, "=", Text(a)) \o <<Close>>}}
    \cup {Request(SrvRqstFor(Shouted, s, Test(x, "==", Text(a))) @@ [version |-> 1, mcast |-> m]) :
            s \in {{"A"}, {"C"}}, m \in BOOLEAN}
    \cup {Request(SrvRqstFor(Acme, {"B"}, <<>>) @@ f) : f \in {[mcast |-> TRUE], [prlist |-> TRUE], [spi |-> TRUE]}}
    \cup {Request(SrvRqstFor(Agent(n), s, <<>>) @@ [mcast |-> m, loopback |-> ~m]) :
            n \in {DirectoryAgent, ServiceAgent}, s \in {{}, {"C"}}, m \in BOOLEAN}
    \cup {Request(SrvRqstFor(V1Agent, s, <<>>) @@ [version |-> 1, loopback |-> l]) : s \in {{"A"}, {"C"}}, l \in BOOLEAN}

\* A value with an escape of digits that are none.
MCIllEscaped == {Request(SrvRqstFor(Abstract, {"A"}, Test(x, "=", <<<<103, 49>>>>)))}

MCSrvTypeRqst ==
    {Request([kind |-> "SrvTypeRqst", na |-> n, scopes |-> s]) : n \in {AnyAuthority, 0, 7}, s \in {{"A"}, {"A", "B"}}}
    \cup {Request([kind |-> "SrvTypeRqst", na |-> 9, scopes |-> s, mcast |-> TRUE]) : s \in {{"B"}, {"C"}}}

MCAttrRqst ==
    {Request([kind |-> "AttrRqst", url |-> u, scopes |-> s, tags |-> t]) :
        u \in {Url(Concrete, 1), Url(Abstract, 3), Url(Shouted, 4), Url(Concrete, 0), Url(Abstract, 0)},
        s \in {{"A"}, {"B"}}, t \in {<<>>, <<x>>}}
    \cup {Request([kind |-> "AttrRqst", url |-> Url(Acme, 5), scopes |-> s, tags |-> <<>>] @@ f) :
        s \in {{"B"}, {"C"}}, f \in {[mcast |-> TRUE], [spi |-> TRUE]}}

MCUseScopes == {"A", "B"}
MCKnownDAs == <<"da1", "da2">>
=============================================================================
