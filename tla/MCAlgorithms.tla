----------------------------- MODULE MCAlgorithms -----------------------------
(***************************************************************************)
(* The data structures and formats on small inputs, side by side: in each  *)
(* behaviour one case of a pure function is evaluated, or the index, or an *)
(* attribute list, is put to use.                                          *)
(***************************************************************************)
EXTENDS SlpdFilters, SlpWire, SlpAttributeList, SlpdIndex

Seqs(S, n) == UNION {[1..k -> S] : k \in 0..n}

\* Codes: a 97, b 98, x 120, y 121, z 122, digits from 48.
X == <<120>>
Y == <<121>>
Z == <<122>>
Plainly(s) == [i \in DOMAIN s |-> <<s[i]>>]
Leaf(tag, op, rhs) == [op |-> op, tag |-> tag, rhs |-> rhs]

\* Filters of up to two operators on top of each other.
Leaves == {Leaf(X, "=", Plainly(<<97>>) \o <<Wildcard>>), Leaf(Y, ">=", Plainly(<<55>>)), Leaf(Z, "=", <<Wildcard>>),
           Leaf(X, "~=", Plainly(<<98>>))}
Ops(S, R) == [op : {"&", "|"}, args : S \X R] \cup [op : {"!"}, args : {<<f>> : f \in S}]
Once == Leaves \cup Ops(Leaves, Leaves)
MCFilters == Once \cup Ops(Once, Leaves) \cup Ops(Leaves, Once) \cup Ops(Ops(Leaves, Leaves), {Leaf(Z, "=", <<Wildcard>>)})
             \cup [op : {"|"}, args : Leaves \X Leaves \X Leaves]
MCAttrLists ==
    {Freshen(<<>>, items).attrs : items \in
        {<<>>, <<[tag |-> X, vals |-> <<Plainly(<<97, 98>>)>>], [tag |-> Z]>>,
         <<[tag |-> X, vals |-> <<Plainly(<<98>>), Plainly(<<97>>)>>], [tag |-> Y, vals |-> <<Plainly(<<49, 50>>)>>]>>}}

\* Texts of up to six pieces, the first a bracket, and any of up to three: a token,
\* or a leaf in brackets, of which the second has no operator.  A leaf is all there
\* is up to a bracket, so a bare one stands at the end or before a closing bracket.
MCLeaf(op, rhs) == [k |-> "leaf", tag |-> Z, op |-> op, rhs |-> rhs]
Present == MCLeaf("=", <<Wildcard>>)
Sign(k) == [k |-> k]
Pieces == {<<Sign(k)>> : k \in {"(", ")", "&", "|", "!"}} \cup {<<Present>>}
          \cup {<<Sign("("), leaf, Sign(")")>> : leaf \in {Present, MCLeaf("", <<>>)}}
LeavesEnd(ps) == \A i \in 1..(Len(ps) - 1) : ps[i] = <<Present>> => ps[i + 1] = <<Sign(")")>>
MCTokenTexts == {FlattenSeq(ps) : ps \in {qs \in Seqs(Pieces, 3) \cup {<<<<Sign("(")>>>> \o rs : rs \in Seqs(Pieces, 5)} :
                                            LeavesEnd(qs)}}
MCTextLists == {Freshen(<<>>, <<[tag |-> Z]>>).attrs}
MCPatterns == Seqs({<<97>>, <<98>>, Wildcard, <<54, 49>>}, 4)
MCStrings == Seqs({97, 98, 65}, 3)

Texts2 == Seqs({97, 65, 32, 9}, 3) \cup {<<32, 97, 92, 54, 49>>, <<92, 54, 49, 97>>, <<92, 52, 49>>, <<97, 32, 32, 98>>,
          <<97, 32, 98, 32>>, <<97, 32, 32, 32, 66>>}
Lists == {l \in Seqs({<<97>>, <<97, 98>>, <<66>>, <<98>>, <<99>>}, 3) : \A i, j \in DOMAIN l : i # j => Meant(l[i]) # Meant(l[j])}
Urls == [srvtype : {<<115>>, <<115, 58, 120>>}, host : {<<97>>, <<97, 46, 98>>, <<>>}, v6 : {FALSE}, port : {0, 80},
         remainder : {<<>>, <<120>>, <<47, 58>>}]
        \cup [srvtype : {<<115>>}, host : {<<97, 58, 58, 98>>, <<>>}, v6 : {TRUE}, port : {0, 80}, remainder : {<<>>, <<47, 58>>}]
\* The first and last characters of every length.
Chars == {0, 97, 127, 128, 2047, 2048, 65535, 65536, 2097151, 2097152, 67108863, 67108864, 2147483647}
Bytes == Seqs({0, 97, 127, 128, 191, 192, 193, 194, 224, 240, 255}, 3)

AuthBlock == <<0, 2, 0, 12, 0, 0, 0, 9, 0, 1, 120, 5>>
Message ==
    [mcast |-> FALSE, xid |-> 258, langtag |-> <<101, 110>>, prlist |-> <<>>, url |-> <<97, 58, 47, 47, 98>>, srvtype |-> <<97>>,
     scopelist |-> <<100>>, attrlist |-> <<>>, predicate |-> <<>>, spistr |-> <<>>, taglist |-> <<>>, namingauth |-> <<>>,
     srvtypelist |-> <<>>, lifetime |-> 300, auth |-> <<>>, pid |-> 0, errorcode |-> 0, bootstamp |-> 0, entries |-> <<>>]
Part == {<<>>, <<97>>, <<98, 46>>}
Entries == [lifetime : {9}, url : Part, auth : {<<>>}]

MessagesOf(writer) ==
    CASE writer = "SrvReg" -> {[Message EXCEPT !.attrlist = a, !.scopelist = s, !.auth = x, !.pid = p, !.langtag = l] :
                                a \in Part, s \in Part, x \in {<<>>, AuthBlock}, p \in {0, 300},
                                l \in {<<101, 110>>, <<101, 110, 45, 117, 115>>}}
      [] writer = "SrvDeReg" -> {[Message EXCEPT !.url = u, !.scopelist = s, !.auth = x] : u \in Part, s \in Part, x \in {<<>>, AuthBlock}}
      [] writer \in {"SrvRqst", "v1SrvRqst"} ->
            {[Message EXCEPT !.prlist = p, !.scopelist = s, !.predicate = x, !.spistr = y] : p, s, x \in Part, y \in {<<>>, <<97>>}}
      [] writer \in {"AttrRqst", "v1AttrRqst"} ->
            {[Message EXCEPT !.prlist = p, !.scopelist = s, !.taglist = x, !.spistr = y] : p, s, x \in Part, y \in {<<>>, <<97>>}}
      [] writer = "SrvTypeRqst" -> {[Message EXCEPT !.prlist = p, !.scopelist = s, !.namingauth = x] :
                                    p, s \in Part, x \in Part \cup {Asterisk}}
      [] writer = "SrvRply" -> {[Message EXCEPT !.entries = e] : e \in Seqs(Entries, 2)}
      [] writer = "SrvAck" -> {[Message EXCEPT !.errorcode = e] : e \in {0, 3, 300}}
      [] writer \in {"AttrRply", "v1AttrRply"} -> {[Message EXCEPT !.attrlist = a] : a \in Part}
      [] writer = "SrvTypeRply" -> {[Message EXCEPT !.srvtypelist = a] : a \in Part}
      [] writer \in {"SAAdvert", "DAAdvert", "v1DAAdvert"} ->
            {[Message EXCEPT !.url = u, !.scopelist = s, !.bootstamp = t] : u, s \in Part, t \in {0, 70000}}
      [] writer = "Discovery" -> {[Message EXCEPT !.prlist = p, !.mcast = TRUE] : p \in Part}
      [] writer = "v1SrvReg" -> {[Message EXCEPT !.scopelist = s] : s \in Part}
MessageCases ==
    UNION {[kind : {"message"}, writer : {w}, m : MessagesOf(w), cut : 0..3, slack : {0, 7}] : w \in DOMAIN Carried}

StringCases ==
    [kind : {"strings"}, s : Texts2, t : Texts2] \cup [kind : {"lists"}, list1 : Lists, list2 : Lists]
    \cup [kind : {"escape"}, s : Seqs({97, 92, 54, 49, 40, 9, 31, 127, 95}, 4), isTag : BOOLEAN]
    \cup [kind : {"url"}, url : Urls] \cup [kind : {"character"}, wc : Chars] \cup [kind : {"bytes"}, s : Bytes]

\* Or one of the data structures is used.
UseCases == {[kind |-> "index"], [kind |-> "attributes"]}

\* The index of seven strings, eight entries, two of them under one string.
MCRecord == {<<<<1>>, "p">>, <<<<1, 1>>, "p">>, <<<<1, 1>>, "q">>, <<<<1, 2>>, "p">>, <<<<2>>, "p">>, <<<<2, 1>>, "p">>,
             <<<<3>>, "p">>, <<<<3, 1>>, "p">>}
MCTwice == {<<<<1, 1>>, "p">>}
Keys == {r[1] : r \in MCRecord}

MCTag == {X, Y}
MCInts == {7, -3, 12}
MCStr == {<<97>>, <<44, 40, 97>>}
MCTexts == {<<Plainly(<<52, 50>>)>>, <<Plainly(<<97>>), <<<<98>>, <<50, 56>>>>>>}

-----------------------------------------------------------------------------
AInit == /\ \/ case \in FilterCases \/ case \in StringCases \/ case \in MessageCases \/ case \in UseCases
         /\ verdict = <<>>
         /\ IInit /\ ALInit

StringKinds == {"strings", "lists", "escape", "url", "character", "bytes"}

EvaluateString == /\ case.kind \in StringKinds /\ verdict = <<>>
                  /\ verdict' = <<StringVerdict(case)>> /\ UNCHANGED case
EvaluateMessage == /\ case.kind = "message" /\ verdict = <<>>
                   /\ verdict' = <<MessageVerdict(case)>> /\ UNCHANGED case

ANext == \/ EvaluateFilter /\ UNCHANGED <<index, attrs>>
         \/ EvaluateString /\ UNCHANGED <<index, attrs>>
         \/ EvaluateMessage /\ UNCHANGED <<index, attrs>>
         \/ case.kind = "index" /\ INext /\ UNCHANGED <<case, verdict, attrs>>
         \/ case.kind = "attributes" /\ ALNext /\ UNCHANGED <<case, verdict, index>>

ASpec == AInit /\ [][ANext]_<<case, verdict, index, attrs>>

Records == INSTANCE IndexedRecords WITH Record <- MCRecord, Key <- Keys, under <- [k \in Keys |-> FindAndCall(index, k)]
Interface == INSTANCE SlpdIndexing WITH EmptyTree <- Nil, add_to_index <- AddToIndex, index_tree_delete <- IndexTreeDelete,
                find_and_call <- FindAndCall, find_leading_and_call <- FindLeadingAndCall

(* A filter selects the services it means, in either interpreter of slpd,  *)
(* and with wildcards anywhere (slpd_predicate.c:352, 1191, 1464, 1896).   *)
FiltersSelect == FiltersMeanWhatTheySay /\ InterpretersAgree /\ WildcardsMatch


(* What is escaped, put together or encoded comes back as it was           *)
(* (libslp_parse.c:239, slp_parse.c:70, slp_utf8.c:137).                   *)
TextsComeBack == EscapesUnescape /\ UrlsComeApart /\ Utf8IsUnique

(* Between the library and the daemon a message means the same to its      *)
(* writer and its reader, or is refused (slp_v2message.c:985).             *)
MessagesComeThrough == SaysWhatWasMeant /\ CutsAreNoticed /\ DeregistersWhatWasRegistered

(* An attribute list is written as long as it was sized and read as it was *)
(* (libslpattr.c:1753, 2124).                                              *)
AttributesComeBack == RoundTrip /\ WrittenAsSized

(* The index tree keeps, for each string, the entries put under it, the    *)
(* newest first, finds them by its beginning too, and never rotates around *)
(* a sub-tree it has not, whatever insertions and deletions came before:   *)
(* what the database relies on (slpd_index.c:362, 462, 695, 859).          *)
KeepsItsInterface == case.kind = "index" => Interface!KeepsRecords(index, Keys, {r[2] : r \in MCRecord})
IndexKeepsItsRecords == Records!Spec /\ [](LeadingFindsAll /\ RotationsAreSound /\ KeepsItsInterface)
=============================================================================
