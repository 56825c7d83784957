----------------------------- MODULE SlpdFilters -----------------------------
(***************************************************************************)
(* What search filters mean, and that slpd's two interpreters and its      *)
(* wildcard matcher give them that meaning.  A filter is a leaf,           *)
(* [op, tag, rhs], or [op |-> "&", "|" or "!", args]; a case is a filter   *)
(* and an attribute list, a text of tokens, well formed or not, and a      *)
(* list, or a pattern and a string.  Cases are taken up one at a time and  *)
(* evaluated.                                                              *)
(***************************************************************************)
EXTENDS SlpdPredicate, SlpCases, FiniteSets

CONSTANTS
    Filters, AttrLists,         \* filters and the attribute lists they are put to
    TokenTexts, TextLists,      \* texts of tokens and the lists those are put to
    Patterns, Strings           \* for the wildcard matcher

-----------------------------------------------------------------------------
RECURSIVE Printed(_)
Printed(f) ==
    <<[k |-> "("]>>
    \o (IF f.op \in {"&", "|", "!"}
        THEN <<[k |-> f.op]>> \o FlattenSeq([i \in DOMAIN f.args |-> Printed(f.args[i])])
        ELSE <<[k |-> "leaf", tag |-> f.tag, op |-> f.op, rhs |-> f.rhs]>>)
    \o <<[k |-> ")"]>>

(* A pattern matches a string if the string can be cut into pieces, one    *)
(* for each unit, where "*" takes any piece and a character itself.        *)
RECURSIVE Matches(_, _)
Matches(p, s) ==
    IF p = <<>> THEN s = <<>>
    ELSE IF Head(p) = Wildcard THEN \E n \in 0..Len(s) : Matches(Tail(p), SubSeq(s, n + 1, Len(s)))
    ELSE s # <<>> /\ Lower(Unescape(Head(p))) = Lower(Head(s)) /\ Matches(Tail(p), Tail(s))

\* What a comparison says of one variable, by its type; "~=" matches as "=" does
\* (slpd_predicate.c:47), but does not ask for the mere presence of a variable.
Holds(var, op, rhs) ==
    \/ op = "=" /\ rhs = <<Wildcard>>
    \/ var.type = STR /\ op \in {"=", "~="} /\ \E i \in DOMAIN var.list : Matches(rhs, var.list[i].data)
    \/ var.type = BOOLEANS /\ op \in {"=", "~="} /\ Plain(rhs) = (IF var.list[1].data = <<1>> THEN TrueStr ELSE FalseStr)
    \/ /\ var.type = INTEGER /\ rhs # <<>> /\ \A i \in DOMAIN rhs : Len(rhs[i]) = 1 /\ IsDigit(rhs[i][1])
       /\ LET n == FoldLeft(LAMBDA m, u : 10 * m + u[1] - 48, 0, rhs)
          IN  \E i \in DOMAIN var.list : CASE op \in {"=", "~="} -> var.list[i].data[1] = n
                                           [] op = ">=" -> var.list[i].data[1] >= n
                                           [] op = "<=" -> var.list[i].data[1] <= n

RECURSIVE Meaning(_, _)
Meaning(f, attrs) ==
    CASE f.op = "&" -> \A i \in DOMAIN f.args : Meaning(f.args[i], attrs)
      [] f.op = "|" -> \E i \in DOMAIN f.args : Meaning(f.args[i], attrs)
      [] f.op = "!" -> ~Meaning(f.args[1], attrs)
      [] OTHER -> LET k == AttrFind(attrs, f.tag) IN k # 0 /\ Holds(attrs[k], f.op, f.rhs)

-----------------------------------------------------------------------------
Depth == 4  \* SLPD_PREDICATE_RECURSION_DEPTH, cut short

Parsing(c) == IF c.kind = "filter" THEN Printed(c.filter) ELSE c.text

\* An empty predicate is not parsed.
TreeVerdict(text, attrs) ==
    LET parse == IF text = <<>> THEN [err |-> "PREDICATE_PARSE_OK", kids |-> <<>>] ELSE ParseTree(2, text, Depth)
    IN  IF parse.err # "PREDICATE_PARSE_OK" THEN parse.err
        ELSE IF TestTree(parse.kids, attrs) THEN "true" ELSE "false"

FilterCases == [kind : {"filter"}, filter : Filters, attrs : AttrLists]
               \cup [kind : {"text"}, text : TokenTexts, attrs : TextLists]
               \cup [kind : {"pattern"}, pattern : Patterns, string : Strings]

\* SLPDPredicateTestTree, SLPDPredicateTest or wildcard(), on the case at hand.
EvaluateFilter ==
    /\ verdict = <<>> /\ case.kind \in {"filter", "text", "pattern"}
    /\ \/ case.kind = "pattern" /\ verdict' = <<WildcardMatch(case.pattern, case.string)>>
       \/ case.kind = "pattern" /\ ReadsBeyond(case.pattern) /\ verdict' = <<"FR_EVAL_FALSE">>
       \/ /\ case.kind # "pattern"
          /\ verdict' = <<TreeVerdict(Parsing(case), case.attrs), PredicateTest(2, Parsing(case), case.attrs, Depth)>>
    /\ UNCHANGED case

-----------------------------------------------------------------------------
(* The tree slpd makes of a well formed filter says of every attribute     *)
(* list what the filter means, however its operators are nested and        *)
(* flattened (slpd_predicate.c:1464, 1896).                                *)
FiltersMeanWhatTheySay ==
    verdict # <<>> /\ case.kind = "filter" =>
        verdict[1] = IF Meaning(case.filter, case.attrs) THEN "true" ELSE "false"

(* Without the operators they read differently, the interpreter of texts   *)
(* and the one of trees agree on every text that has a tree; and a text    *)
(* without one is true only if the interpreter stopped at an operand of an *)
(* "&" or "|" before it came to the part that is wrong                     *)
(* (slpd_predicate.c:1191, 1464, 2030).                                    *)
ReadAlike(text) == \A i \in DOMAIN text : text[i].k = "leaf" => text[i].op \in {"=", ">=", "<=", ""}

InterpretersAgree ==
    verdict # <<>> /\ case.kind \in {"filter", "text"} /\ ReadAlike(Parsing(case)) =>
        IF verdict[1] # "PREDICATE_PARSE_ERROR" THEN verdict[1] = "true" <=> verdict[2]
        ELSE verdict[2] => \E i \in DOMAIN Parsing(case) : Parsing(case)[i].k \in {"&", "|"}

(* 'The "Approx" operator matches as an equal operator'                    *)
(* (slpd_predicate.c:47), for the interpreter of texts too: it does not,   *)
(* as it passes over the first character of the value (:1344).             *)
ApproxMeansEqual ==
    verdict # <<>> /\ case.kind = "filter" => (verdict[2] <=> Meaning(case.filter, case.attrs))

(* A pattern matches only strings that can be cut into its pieces, and all *)
(* of them unless what is read past its end is in the way, wherever its    *)
(* wildcards stand (slpd_predicate.c:352, 465).                            *)
WildcardsMatch ==
    verdict # <<>> /\ case.kind = "pattern" =>
        /\ verdict[1] = "FR_EVAL_TRUE" => Matches(case.pattern, case.string)
        /\ Matches(case.pattern, case.string) => verdict[1] = "FR_EVAL_TRUE" \/ ReadsBeyond(case.pattern)
=============================================================================
