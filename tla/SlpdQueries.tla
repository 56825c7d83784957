----------------------------- MODULE SlpdQueries -----------------------------
(***************************************************************************)
(* The queries of slpd's database: service requests, service type requests *)
(* and attribute requests, answered by a scan of the registrations or by   *)
(* way of the indexes that net.slp.indexSrvtype and                        *)
(* net.slp.indexedAttributes ask for.                                      *)
(*                                                                         *)
(* A service type is [svc, abs, na, conc]: "service:" in one of its        *)
(* spellings or "", the abstract type, the naming authority and the        *)
(* concrete type, 0 where there is none.  A URL is a type and a host.  An  *)
(* entry is [url, type, scopes, items]; its attribute list, items, can be  *)
(* parsed (SlpAttributes).  What a predicate means is SlpdPredicate's, how *)
(* an index keeps its entries SlpdIndex's: here they are parameters.       *)
(***************************************************************************)
EXTENDS SlpdWildcards, SlpdIndexing, SlpLists, FiniteSets

CONSTANTS
    Entry,              \* the registrations that may be made
    SrvRqst,            \* [type, scopes, pred, version]
    SrvTypeRqst,        \* [na, scopes]
    AttrRqst,           \* [url, scopes, tags]; a url without a host is a type
    IndexedAttributes,  \* net.slp.indexedAttributes, parsed like attributes
    InitialUrlcount,    \* SLPDDATABASE_INITIAL_URLCOUNT
    InitialTypelistlen, \* SLPDDATABASE_INITIAL_SRVTYPELISTLEN
    MaxEntries,         \* bound: the registrations at a time
    MaxUrlcount,        \* bound: the urlcount stops growing here
    MaxTypelistlen,     \* bound: the typelistlen stops growing here
    RecursionDepth,     \* SLPD_PREDICATE_RECURSION_DEPTH
    createPredicateParseTree(_, _, _),  \* of a version, a predicate and a depth
    SLPDPredicateTestTree(_, _)         \* what such a tree says of attributes

ASSUME LimitsAssumption ==
    /\ {InitialUrlcount, MaxUrlcount, InitialTypelistlen, MaxTypelistlen} \subseteq Nat
    /\ InitialUrlcount <= MaxUrlcount /\ InitialTypelistlen <= MaxTypelistlen

AnyAuthority == 65535
NoRequest == [kind |-> "none"]

VARIABLES
    srvtypeIsIndexed,   \* net.slp.indexSrvtype, which only a restart changes
    entries,        \* the registrations, the newest first
    typeIndex,      \* srvtype_index_tree
    tagIndex,       \* the tree of each indexed tag
    urlcount,       \* G_SlpdDatabase.urlcount
    typelistlen,    \* G_SlpdDatabase.srvtypelistlen
    request,        \* the request that is being answered
    answer          \* what it has got, <<>> until it is done

db == <<srvtypeIsIndexed, entries, typeIndex, tagIndex>>
qvars == <<srvtypeIsIndexed, entries, typeIndex, tagIndex, urlcount, typelistlen, request, answer>>

-----------------------------------------------------------------------------
(***************************************************************************)
(* Service types.  Names are compared without regard to case, which the    *)
(* model has in the spelling of "service:" alone.                          *)
(***************************************************************************)
Colon == 58
ServiceType == [svc : {"", "service:", "SERVICE:"}, abs : Nat, na : Nat, conc : Nat]
Name(t) == <<t.abs>> \o (IF t.na = 0 THEN <<>> ELSE <<46, t.na>>)
           \o (IF t.conc = 0 THEN <<>> ELSE <<Colon, t.conc>>)
String(t) == (IF t.svc = "" THEN <<>> ELSE <<1, Colon>>) \o Name(t)

\* getNormalisedSrvtype strips the prefix only in lower case.
NormalisedSrvtype(t) == IF t.svc = "SERVICE:" THEN String(t) ELSE Name(t)

\* SLPCompareSrvType: an abstract type on the left matches its concrete ones.
CompareSrvType(l, r) ==
    Name(l) = IF Contains(Name(l), Colon) THEN Name(r) ELSE Name([r EXCEPT !.conc = 0])

\* SLPCompareNamingAuth: what follows the dot is compared, to the end of the type.
CompareNamingAuth(t, na) ==
    \/ na = AnyAuthority
    \/ na = 0 /\ t.na = 0
    \/ na # 0 /\ t.na = na /\ t.conc = 0

-----------------------------------------------------------------------------
(***************************************************************************)
(* Upkeep of the indexes (SLPDDatabaseReg and SLPDDatabaseRemove): only    *)
(* the string values of an indexed attribute are put into its tree.        *)
(***************************************************************************)
Attributes == [e \in Entry |-> Freshen(<<>>, e.items).attrs]

\* addTagIndex for each tag of a list that must hold nothing but keywords.
FindTagIndex(tag) == [j \in DOMAIN tag |-> Lower(tag[j])]
TagIndexes == {FindTagIndex(var.tag) : var \in ToSet(Freshen(<<>>, IndexedAttributes).attrs)}

\* The values of the attributes with the tag, in the order of the iterator.
ValuesOf(vars, tag) ==
    FlattenSeq([i \in DOMAIN vars |->
        IF vars[i].type = STR /\ FindTagIndex(vars[i].tag) = tag THEN vars[i].values ELSE <<>>])
IndexedValues == [e \in Entry |-> [tag \in TagIndexes |-> ValuesOf(Iterate(Attributes[e]), tag)]]

ASSUME EntryAssumption ==
    /\ \A e \in Entry : e.type \in ServiceType
    /\ \A e \in Entry, tag \in TagIndexes : IndexedValues[e][tag] \in Seq(Seq(Nat))

Added(tree, vs, e) == FoldLeft(LAMBDA t, v : add_to_index(t, v, e), tree, vs)
\* A bug: only the first value of an attribute is taken out of its index.
Deleted_First(tree, vs, e) == IF vs = <<>> THEN tree ELSE index_tree_delete(tree, vs[1], e)
Deleted(tree, vs, e) == FoldLeft(LAMBDA t, v : index_tree_delete(t, v, e), tree, vs)

Indexed(e) ==
    /\ typeIndex' = IF srvtypeIsIndexed THEN add_to_index(typeIndex, NormalisedSrvtype(e.type), e)
                    ELSE typeIndex
    /\ tagIndex' = [tag \in TagIndexes |-> Added(tagIndex[tag], IndexedValues[e][tag], e)]
Unindexed(e) ==
    /\ typeIndex' = IF srvtypeIsIndexed THEN index_tree_delete(typeIndex, NormalisedSrvtype(e.type), e)
                    ELSE typeIndex
    /\ tagIndex' = [tag \in TagIndexes |-> Deleted(tagIndex[tag], IndexedValues[e][tag], e)]

-----------------------------------------------------------------------------
(***************************************************************************)
(* Service requests.  SrvRqstTestEntry is the test of one registration; a  *)
(* search calls it for the entries it comes by and gives up at the first   *)
(* one the result has no room for.                                         *)
(***************************************************************************)
\* The parse of each request's predicate; one that cannot be parsed matches nothing.
ParseOf == [rq \in SrvRqst |->
    IF rq.pred = <<>> THEN [err |-> "PREDICATE_PARSE_OK", kids |-> <<>>]
    ELSE createPredicateParseTree(rq.version, rq.pred, RecursionDepth)]

\* What the tree says of the attributes parsed at the registration.
Verdict == [rq \in SrvRqst |-> [e \in Entry |-> SLPDPredicateTestTree(ParseOf[rq].kids, Attributes[e])]]

SrvRqstTestEntry(rq, e) ==
    CompareSrvType(rq.type, e.type) /\ e.scopes \cap rq.scopes # {} /\ Verdict[rq][e]

\* A bug: a result that has just become full is taken for too small.
Result_Full(urls) ==
    [err |-> Len(urls) >= urlcount, urls |-> SubSeq(urls, 1, IF Len(urls) < urlcount THEN Len(urls) ELSE urlcount)]
Result(urls) ==
    [err |-> Len(urls) > urlcount, urls |-> SubSeq(urls, 1, IF Len(urls) < urlcount THEN Len(urls) ELSE urlcount)]

StartIndexCallback(rq, found) == Result(Dropping(found, LAMBDA e : ~SrvRqstTestEntry(rq, e)))

SrvRqstStartScan(rq) == StartIndexCallback(rq, entries)

SrvRqstStartIndexType(rq) ==
    StartIndexCallback(rq, find_and_call(typeIndex, Name(rq.type)))

\* The text before the first wildcard, all of it if there is none.
TextBefore(rhs) ==
    LET wild == SelectInSeq(rhs, LAMBDA u : u = Wildcard)
    IN  IF wild = 0 THEN rhs ELSE SubSeq(rhs, 1, wild - 1)

\* An index is exact about case where the predicate is not.
SrvRqstStartIndexAttribute(rq, node) ==
    LET text == TextBefore(node.rhs)
        tree == tagIndex[FindTagIndex(node.tag)]
    IN  IF ~WellEscaped(text) THEN [err |-> TRUE, urls |-> <<>>]
        ELSE StartIndexCallback(rq,
                IF Wildcard \in ToSet(node.rhs) THEN find_leading_and_call(tree, UnescapeInto(text))
                ELSE find_and_call(tree, UnescapeInto(text)))

\* The node of the predicate whose index can be used: it, or an operand of "and".
TagNode(trees) ==
    LET usable(n) == n.type = "EQUAL" /\ FindTagIndex(n.tag) \in TagIndexes
                     /\ (n.rhs # <<>> => n.rhs[1] # Wildcard)
    IN  IF trees = <<>> THEN <<>>
        ELSE IF trees[1].type = "NODE_AND"
        THEN LET at == SelectInSeq(trees[1].kids, usable)
             IN  IF at = 0 THEN <<>> ELSE <<trees[1].kids[at]>>
        ELSE IF usable(trees[1]) THEN trees ELSE <<>>

\* A unit of a value is a character or the two digits of an escape.
Unit == {u \in Seq(Nat) : Len(u) \in {1, 2}}
ASSUME SrvRqstAssumption ==
    \A rq \in SrvRqst :
        /\ rq.kind = "SrvRqst" /\ rq.type \in ServiceType
        /\ LET node == TagNode(ParseOf[rq].kids) IN node # <<>> => node[1].rhs \in Seq(Unit)

\* A bug: the index of the service types is asked for an abstract type too.
SrvRqstSearch_Abstract(rq) ==
    LET node == TagNode(ParseOf[rq].kids)
    IN  IF ParseOf[rq].err # "PREDICATE_PARSE_OK" THEN [err |-> FALSE, urls |-> <<>>]
        ELSE IF srvtypeIsIndexed THEN SrvRqstStartIndexType(rq)
        ELSE IF node # <<>> THEN SrvRqstStartIndexAttribute(rq, node[1])
        ELSE SrvRqstStartScan(rq)
\* One turn of the loop.
SrvRqstSearch(rq) ==
    LET node == TagNode(ParseOf[rq].kids)
    IN  IF ParseOf[rq].err # "PREDICATE_PARSE_OK" THEN [err |-> FALSE, urls |-> <<>>]
        ELSE IF srvtypeIsIndexed /\ Contains(Name(rq.type), Colon) THEN SrvRqstStartIndexType(rq)
        ELSE IF node # <<>> THEN SrvRqstStartIndexAttribute(rq, node[1])
        ELSE SrvRqstStartScan(rq)

Doubled(n, max) == IF 2 * n > max THEN max ELSE 2 * n

SrvRqstStart ==
    /\ request.kind = "SrvRqst" /\ answer = <<>>
    /\ \E r \in {SrvRqstSearch(request)} :
        IF r.err THEN urlcount' = Doubled(urlcount, MaxUrlcount) /\ UNCHANGED answer
                 ELSE answer' = <<r.urls>> /\ UNCHANGED urlcount
    /\ UNCHANGED <<db, typelistlen, request>>

-----------------------------------------------------------------------------
(***************************************************************************)
(* Service type requests: the types of the matching entries, each once.    *)
(* There has to be room for a separator before every type, used or not.    *)
(***************************************************************************)
InTypeList(types, t) == \E i \in DOMAIN types : String(types[i]) = String(t)

\* One turn of the loop, with the types so far and the length of their list.
ListType(rq, r, e) ==
    LET len == Len(String(e.type))
    IN  IF r.err \/ ~CompareNamingAuth(e.type, rq.na) \/ rq.scopes \cap e.scopes = {} \/ InTypeList(r.types, e.type)
        THEN r
        ELSE IF r.len + len + 1 > typelistlen THEN [r EXCEPT !.err = TRUE]
        ELSE [r EXCEPT !.types = Append(@, e.type), !.len = IF @ = 0 THEN len ELSE @ + 1 + len]
NoTypes == [err |-> FALSE, types |-> <<>>, len |-> 0]
SrvTypeRqstSearch(rq) == FoldLeft(LAMBDA r, e : ListType(rq, r, e), NoTypes, entries)

SrvTypeRqstStart ==
    /\ request.kind = "SrvTypeRqst" /\ answer = <<>>
    /\ \E r \in {SrvTypeRqstSearch(request)} :
        IF r.err THEN typelistlen' = Doubled(typelistlen, MaxTypelistlen) /\ UNCHANGED answer
                 ELSE answer' = <<r.types>> /\ UNCHANGED typelistlen
    /\ UNCHANGED <<db, urlcount, request>>

-----------------------------------------------------------------------------
(***************************************************************************)
(* Attribute requests, by URL or by service type, for all the attributes   *)
(* or for those a tag list names.  A result is the attributes sent back    *)
(* and the entry they are of, <<>> while there is none.                    *)
(***************************************************************************)
Partial == [e \in Entry |-> [tags \in {rq.tags : rq \in AttrRqst} |-> FilterAttributes(e.items, tags).len]]

SameUrl(u, v) == String(u.type) = String(v.type) /\ u.host = v.host

ASSUME OtherRqstAssumption ==
    /\ \A rq \in SrvTypeRqst : rq.kind = "SrvTypeRqst"
    /\ \A rq \in AttrRqst : rq.kind = "AttrRqst" /\ rq.url.type \in ServiceType

AttrRqstProcessEntry(rq, e) ==
    IF /\ SameUrl(rq.url, e.url) \/ (rq.url.host = 0 /\ CompareSrvType(rq.url.type, e.type))
       /\ rq.scopes \cap e.scopes # {}
    THEN IF rq.tags = <<>> THEN <<[of |-> e, part |-> FALSE]>>
         ELSE IF Partial[e][rq.tags] = 0 THEN <<>> ELSE <<[of |-> e, part |-> TRUE]>>
    ELSE <<>>

Has(rq, e) == AttrRqstProcessEntry(rq, e) # <<>>

\* The scan ends at the first entry that has an answer,
AttrRqstStartScan(rq) ==
    LET at == SelectInSeq(entries, LAMBDA e : Has(rq, e))
    IN  IF at = 0 THEN <<>> ELSE AttrRqstProcessEntry(rq, entries[at])

\* while by the index each entry overwrites the answer of the one before it.
AttrRqstStartIndexType(rq) ==
    LET found == find_and_call(typeIndex, NormalisedSrvtype(rq.url.type))
        at == SelectLastInSeq(found, LAMBDA e : Has(rq, e))
    IN  IF at = 0 THEN <<>> ELSE AttrRqstProcessEntry(rq, found[at])

AttrRqstStart ==
    /\ request.kind = "AttrRqst" /\ answer = <<>>
    /\ answer' = <<IF srvtypeIsIndexed THEN AttrRqstStartIndexType(request) ELSE AttrRqstStartScan(request)>>
    /\ UNCHANGED <<db, urlcount, typelistlen, request>>

-----------------------------------------------------------------------------
QInit ==
    /\ srvtypeIsIndexed \in BOOLEAN
    /\ entries = <<>>
    /\ typeIndex = EmptyTree
    /\ tagIndex = [tag \in TagIndexes |-> EmptyTree]
    /\ urlcount = InitialUrlcount
    /\ typelistlen = InitialTypelistlen
    /\ request = NoRequest
    /\ answer = <<>>

Quiet == request = NoRequest /\ UNCHANGED <<srvtypeIsIndexed, urlcount, typelistlen, request, answer>>

\* What SlpdRegistrations models in full: an entry joins the list and its indexes,
Reg(e) == Quiet /\ Len(entries) < MaxEntries /\ ~Contains(entries, e) /\ entries' = <<e>> \o entries /\ Indexed(e)
\* and leaves them.
Unreg(e) == Quiet /\ Contains(entries, e) /\ entries' = Dropping(entries, LAMBDA f : f = e) /\ Unindexed(e)

Ask(rq) == request = NoRequest /\ request' = rq /\ UNCHANGED <<db, urlcount, typelistlen, answer>>

\* SLPDDatabase...RqstEnd, when the reply is written.
RqstEnd == answer # <<>> /\ request' = NoRequest /\ answer' = <<>> /\ UNCHANGED <<db, urlcount, typelistlen>>

-----------------------------------------------------------------------------
\* The entries a scan would find for a service request, were there room for all.
Matching(rq) ==
    {e \in ToSet(entries) : ParseOf[rq].err = "PREDICATE_PARSE_OK" /\ SrvRqstTestEntry(rq, e)}

(* A reply to a service request holds registrations that are still in the  *)
(* database and match the request, however they were found: what is taken  *)
(* out of the list is out of every index too (slpd_database.c:230).        *)
AnswersAreCurrent ==
    request.kind = "SrvRqst" /\ answer # <<>> => ToSet(answer[1]) \subseteq Matching(request)

(* An index is transparent to a request that it can serve: with string     *)
(* attributes in lower case, as the request gives them, and "service:" in  *)
(* lower case, the answer is that of a scan (slpd_database.c:1143).        *)
InLowerCase(s) == \A i \in DOMAIN s : s[i] \notin 65..90
PlainlyWritten(text) == InLowerCase(UnescapeInto(text)) /\ \A i \in DOMAIN text : UnescapeCheck(text[i]) = Unescape(text[i])
Servable(rq, e) ==
    /\ e.type.svc # "SERVICE:"
    /\ LET node == TagNode(ParseOf[rq].kids)
       IN  node # <<>> =>
            /\ PlainlyWritten(TextBefore(node[1].rhs))
            /\ \E v \in ToSet(IndexedValues[e][FindTagIndex(node[1].tag)]) :
                    InLowerCase(v) /\ WildcardMatch(node[1].rhs, v) = "FR_EVAL_TRUE"
IndexIsTransparent ==
    request.kind = "SrvRqst" /\ answer # <<>> =>
        \A e \in Matching(request) : Servable(request, e) => Contains(answer[1], e)

(* "This uses additional memory, but speeds up searching": an index never  *)
(* changes an answer (etc/slp.conf).                                       *)
IndexOnlySpeedsUp ==
    request.kind = "SrvRqst" /\ answer # <<>> =>
        /\ ToSet(answer[1]) = Matching(request)
        /\ Len(answer[1]) = Cardinality(Matching(request))

(* A reply to a service type request lists every type a registration with  *)
(* the scope and naming authority has, and none twice, also when the list  *)
(* had to be made larger on the way (slpd_database.c:1356).                *)
ListsEachTypeOnce ==
    request.kind = "SrvTypeRqst" /\ answer # <<>> =>
        /\ \A i, j \in DOMAIN answer[1] : i # j => String(answer[1][i]) # String(answer[1][j])
        /\ \A e \in ToSet(entries) :
                CompareNamingAuth(e.type, request.na) /\ e.scopes \cap request.scopes # {} =>
                    InTypeList(answer[1], e.type)

(* Attributes are sent back only for a service that has one of the scopes  *)
(* of the request, and if the scan finds some for a URL registered under   *)
(* its own type, so does the index (slpd_database.c:1635).                 *)
AttributesAreInScope ==
    request.kind = "AttrRqst" /\ answer # <<>> =>
        /\ \A i \in DOMAIN answer[1] : answer[1][i].of.scopes \cap request.scopes # {}
        /\ (\E e \in ToSet(entries) : e.type = request.url.type /\ Has(request, e)) => answer[1] # <<>>

(* A reply to a query says what is registered: of a service only what is   *)
(* current and matches, of the types all and each once, of the attributes  *)
(* none out of scope (slpd_database.c:1101, 1309, 1618).                   *)
AnswersAreRight == AnswersAreCurrent /\ ListsEachTypeOnce /\ AttributesAreInScope

(* The loop that answers a request turns again only when what it may find  *)
(* did not fit, and with more room than before, so that it comes to an end *)
(* (slpd_database.c:1280, 1363).  What may be found of an entry is the     *)
(* entry itself, or itself once for every value in the index of a tag.     *)
Finds(rq, e) ==
    LET node == TagNode(ParseOf[rq].kids)
    IN  {1} \cup (IF node = <<>> THEN {} ELSE DOMAIN IndexedValues[e][FindTagIndex(node[1].tag)])
MayBeFound(rq) == UNION {{e} \X Finds(rq, e) : e \in Matching(rq)}
MayBeListed == UNION {{e} \X (0..Len(String(e.type))) : e \in ToSet(entries)}
RetriesMakeRoom ==
    [][/\ urlcount' # urlcount =>
            /\ request.kind = "SrvRqst" /\ urlcount' > urlcount
            /\ urlcount < Cardinality(MayBeFound(request))
       /\ typelistlen' # typelistlen =>
            /\ request.kind = "SrvTypeRqst" /\ typelistlen' > typelistlen
            /\ typelistlen < Cardinality(MayBeListed)]_qvars
=============================================================================
