---------------------------- MODULE SlpdPredicate ----------------------------
(***************************************************************************)
(* Search filters.  slpd parses the predicate of a SrvRqst into a tree and *)
(* evaluates the tree on the attributes of each registration; the older    *)
(* interpreter, filter(), evaluates the text itself.                       *)
(*                                                                         *)
(* The text of a predicate is a sequence of tokens whose kind k is "(",    *)
(* ")", "&", "|", "!" or "leaf".  A leaf, [k, tag, op, rhs], has in op the *)
(* text between the tag and the value ("=", "~=", ">=", "<=", "==" or,     *)
(* where there is none, "") and in rhs a sequence of units (see            *)
(* SlpAttributes).  A leaf with an empty tag stands for text that cannot   *)
(* begin a tag.                                                            *)
(***************************************************************************)
EXTENDS SlpdWildcards

-----------------------------------------------------------------------------
(***************************************************************************)
(* Leaves.  An operation is tried on the values in order until one decides.*)
(***************************************************************************)
Truth(b) == IF b THEN "FR_EVAL_TRUE" ELSE "FR_EVAL_FALSE"

IntOp(var, op, rhs) ==
    LET n == Strtol(Plain(rhs), 10)
        holds(m) == CASE op = "EQUAL" -> m = n.value
                      [] op = "GREATER" -> m >= n.value
                      [] op = "LESS" -> m <= n.value
    IN  Truth(n.used = Len(rhs) /\ \E i \in DOMAIN var.list : holds(var.list[i].data[1]))

KeywOp(var, op, rhs) == "FR_EVAL_FALSE"

BoolOp(var, op, rhs) ==
    Truth(op = "EQUAL" /\ \/ Plain(rhs) = TrueStr /\ var.list[1].data = <<1>>
                          \/ Plain(rhs) = FalseStr /\ var.list[1].data = <<0>>)

\* memcmp of the raw text (escapes as they are written) and the value, as far as both go.
Memcmp(s, t) ==
    LET n == IF Len(s) < Len(t) THEN Len(s) ELSE Len(t)
        at == SelectInSeq([i \in 1..n |-> i], LAMBDA i : s[i] # t[i])
    IN  IF at = 0 THEN 0 ELSE s[at] - t[at]
Raw(text) == FlattenSeq([i \in DOMAIN text |-> IF Len(text[i]) = 1 THEN text[i] ELSE <<92>> \o text[i]])

StrOp(var, op, rhs) ==
    LET verdicts == [i \in DOMAIN var.list |-> WildcardMatch(rhs, var.list[i].data)]
        at == SelectInSeq(verdicts, LAMBDA v : v # "FR_EVAL_FALSE")
        order(i) == Memcmp(var.list[i].data, Raw(rhs))
    IN  CASE op = "EQUAL" -> IF at = 0 THEN "FR_EVAL_FALSE" ELSE verdicts[at]
          [] op = "LESS" -> Truth(\E i \in DOMAIN var.list : order(i) <= 0)
          [] op = "GREATER" -> Truth(\E i \in DOMAIN var.list : order(i) >= 0)

\* The type-specific part of a leaf; opaque values are not supported.
LeafOp(attrs, tag, op, rhs) ==
    LET type == GetType(attrs, tag)
        var == attrs[AttrFind(attrs, tag)]
    IN  CASE type = "SLP_TAG_ERROR" -> "FR_EVAL_FALSE"
          [] type # "SLP_TAG_ERROR" /\ op = "PRESENT" -> "FR_EVAL_TRUE"
          [] type = BOOLEANS /\ op # "PRESENT" -> BoolOp(var, op, rhs)
          [] type = INTEGER /\ op # "PRESENT" -> IntOp(var, op, rhs)
          [] type = KEYWORD /\ op # "PRESENT" -> KeywOp(var, op, rhs)
          [] type = STR /\ op # "PRESENT" -> StrOp(var, op, rhs)
          [] OTHER -> "FR_UNSET"

-----------------------------------------------------------------------------
(***************************************************************************)
(* Parsing.  A position is an index into the tokens.                       *)
(***************************************************************************)
\* find_bracket_end: the bracket that closes the one at i, 0 if there is none.
FindBracketEnd(text, i) ==
    LET depth[k \in i..Len(text)] ==
            (IF k = i THEN 0 ELSE depth[k - 1])
            + (CASE text[k].k = "(" -> 1 [] text[k].k = ")" -> -1 [] OTHER -> 0)
        closing == {k \in i..Len(text) : depth[k] = 0}
    IN  IF i > Len(text) \/ text[i].k # "(" \/ closing = {} THEN 0
        ELSE CHOOSE k \in closing : \A j \in closing : k <= j

\* The bracket may only be followed by another one or by the end of the text.
Delimited(text, i) ==
    LET last == FindBracketEnd(text, i)
    IN  last # 0 /\ (last < Len(text) => text[last + 1].k \in {"(", ")"})

Operation(leaf) ==
    CASE leaf.op = ">=" -> "GREATER"
      [] leaf.op = "<=" -> "LESS"
      [] leaf.op = "=" /\ leaf.rhs = <<Wildcard>> -> "PRESENT"
      [] OTHER -> "EQUAL"

(***************************************************************************)
(* A parser returns its result and where it stopped: [err, end, tree].  A  *)
(* node is [type, kids] or, a leaf, [type, tag, rhs].                      *)
(***************************************************************************)
NoParse == [err |-> "PREDICATE_PARSE_ERROR", end |-> 0, kids |-> <<>>]
Parsed(end, node) == [err |-> "PREDICATE_PARSE_OK", end |-> end, kids |-> <<node>>]

\* The extension "==" of filter() is not in the tree parser: the second '=' is
\* the first character of the value.
TreeLeaf(leaf, end) ==
    IF leaf.tag = <<>> \/ leaf.op = "" THEN NoParse
    ELSE Parsed(end, [type |-> Operation(leaf), tag |-> leaf.tag,
                      rhs |-> IF leaf.op = "==" THEN <<<<61>>>> \o leaf.rhs ELSE leaf.rhs])

\* SLPv1 knows "==" only; whatever stands before it belongs to the tag.
TreeLeafv1(leaf, end) ==
    IF leaf.tag = <<>> \/ leaf.op # "==" THEN NoParse
    ELSE Parsed(end, [type |-> "EQUAL", tag |-> leaf.tag, rhs |-> leaf.rhs])

\* A bug: an operand is flattened into its parent whatever the two operators are.
Flattened_Always(type, node) == IF node.type \in {"NODE_AND", "NODE_OR"} THEN node.kids ELSE <<node>>
\* An operand with the operator of its parent gives the parent its own operands.
Flattened(type, node) == IF node.type = type THEN node.kids ELSE <<node>>

RECURSIVE CreatePredicateParseTree(_, _, _, _), OperandNodes(_, _, _, _, _, _, _)

\* The loop of "&" and "|": operands are parsed while one begins before last.
OperandNodes(v, text, cur, last, type, nodes, depth) ==
    LET r == CreatePredicateParseTree(v, text, cur, depth)
        all == nodes \o Flattened(type, r.kids[1])
    IN  IF r.err # "PREDICATE_PARSE_OK" THEN r
        ELSE IF r.end < last /\ text[r.end].k = "("
             THEN OperandNodes(v, text, r.end, last, type, all, depth)
        ELSE Parsed(last + 1, [type |-> type, kids |-> all])

CreatePredicateParseTree(v, text, i, depth) ==
    LET last == FindBracketEnd(text, i)
        token == text[i + 1]
    IN  IF v = 1 /\ depth > 0 /\ i > Len(text) THEN [NoParse EXCEPT !.err = "PREDICATE_PARSE_OK", !.end = i]
        ELSE IF depth <= 0 \/ ~Delimited(text, i) THEN NoParse
        ELSE CASE token.k \in {"&", "|"} ->
                    IF text[i + 2].k # "(" \/ i + 2 >= last THEN NoParse
                    ELSE OperandNodes(v, text, i + 2, last,
                                      IF token.k = "&" THEN "NODE_AND" ELSE "NODE_OR", <<>>, depth - 1)
               [] token.k = "!" ->
                    LET r == CreatePredicateParseTree(v, text, i + 2, depth - 1)
                    IN  IF r.err # "PREDICATE_PARSE_OK" THEN r
                        ELSE Parsed(last + 1, [type |-> "NODE_NOT", kids |-> r.kids])
               [] token.k = "leaf" -> IF v = 1 THEN TreeLeafv1(token, last + 1) ELSE TreeLeaf(token, last + 1)
               [] OTHER -> NoParse

\* SrvRqstStart takes a tree only if the parse ended at the end of the text.
ParseTree(v, text, depth) ==
    LET r == CreatePredicateParseTree(v, text, 1, depth)
    IN  IF r.err = "PREDICATE_PARSE_OK" /\ r.end # Len(text) + 1 THEN NoParse ELSE r

-----------------------------------------------------------------------------
(***************************************************************************)
(* Evaluation of the tree.                                                 *)
(***************************************************************************)
StopCondition(type) == IF type = "NODE_AND" THEN "FR_EVAL_FALSE" ELSE "FR_EVAL_TRUE"

Not(verdict) == CASE verdict = "FR_EVAL_TRUE" -> "FR_EVAL_FALSE"
                  [] verdict = "FR_EVAL_FALSE" -> "FR_EVAL_TRUE"
                  [] OTHER -> verdict

RECURSIVE TreeFilter(_, _)
TreeFilter(node, attrs) ==
    CASE node.type \in {"NODE_AND", "NODE_OR"} ->
            LET verdicts == [k \in DOMAIN node.kids |-> TreeFilter(node.kids[k], attrs)]
                stop == StopCondition(node.type)
                at == SelectInSeq(verdicts, LAMBDA r : r # Not(stop))
            IN  IF at = 0 THEN Not(stop) ELSE verdicts[at]
      [] node.type = "NODE_NOT" -> Not(TreeFilter(node.kids[1], attrs))
      [] OTHER -> LeafOp(attrs, node.tag, node.type, node.rhs)

\* An empty predicate, without a tree, is always true.
TestTree(trees, attrs) == trees = <<>> \/ TreeFilter(trees[1], attrs) = "FR_EVAL_TRUE"

-----------------------------------------------------------------------------
(***************************************************************************)
(* filter() and filterv1(): the same grammar evaluated as it is read.      *)
(***************************************************************************)
\* The outcome of a read beyond the end of the predicate.
Undefined == "undefined"

\* A value without its first character; of an escape, that is the backslash.
FirstPassedOver(rhs) ==
    IF rhs # <<>> /\ Len(rhs[1]) = 2 THEN [i \in 1..2 |-> <<rhs[1][i]>>] \o Tail(rhs) ELSE SubSeq(rhs, 2, Len(rhs))

(***************************************************************************)
(* filter() knows "==" by a '=' behind the operator, which it has moved    *)
(* back to the '~' of "~=": the first character of such a value is passed  *)
(* over.  Of an empty one the bracket is, and its length becomes SIZE_MAX. *)
(***************************************************************************)
FilterLeaf(leaf, attrs) ==
    IF leaf.tag = <<>> THEN "FR_UNSET"
    ELSE IF leaf.op = "" THEN "FR_PARSE_ERROR"
    ELSE IF leaf.op # "~=" THEN LeafOp(attrs, leaf.tag, Operation(leaf), leaf.rhs)
    ELSE IF leaf.rhs = <<>> /\ GetType(attrs, leaf.tag) \in {STR, INTEGER} THEN Undefined
    ELSE LeafOp(attrs, leaf.tag, "EQUAL", FirstPassedOver(leaf.rhs))

Filterv1Leaf(leaf, attrs) ==
    IF leaf.tag = <<>> \/ leaf.op # "==" THEN "FR_PARSE_ERROR"
    ELSE LeafOp(attrs, leaf.tag, "EQUAL", leaf.rhs)

RECURSIVE Filter(_, _, _, _, _), FilterOperands(_, _, _, _, _, _, _)

FilterOperands(v, text, cur, last, stop, attrs, depth) ==
    LET verdict == Filter(v, text, cur, attrs, depth)
        end == FindBracketEnd(text, cur) + 1
    IN  IF verdict # Not(stop) THEN verdict
        ELSE IF end < last /\ text[end].k = "("
             THEN FilterOperands(v, text, end, last, stop, attrs, depth)
        ELSE Not(stop)

Filter(v, text, i, attrs, depth) ==
    LET last == FindBracketEnd(text, i)
        token == text[i + 1]
    IN  IF v = 1 /\ depth > 0 /\ i > Len(text) THEN "FR_EVAL_TRUE"
        ELSE IF depth <= 0 \/ ~Delimited(text, i) THEN "FR_PARSE_ERROR"
        ELSE CASE token.k \in {"&", "|"} ->
                    IF text[i + 2].k # "(" \/ i + 2 >= last THEN "FR_PARSE_ERROR"
                    ELSE FilterOperands(v, text, i + 2, last,
                             StopCondition(IF token.k = "&" THEN "NODE_AND" ELSE "NODE_OR"), attrs, depth - 1)
               [] token.k = "!" -> Not(Filter(v, text, i + 2, attrs, depth - 1))
               [] token.k = "leaf" -> IF v = 1 THEN Filterv1Leaf(token, attrs) ELSE FilterLeaf(token, attrs)
               [] OTHER -> IF v = 1 THEN "FR_PARSE_ERROR" ELSE "FR_UNSET"

\* SLPDPredicateTest: trailing text after the predicate makes it false.
PredicateTest(v, text, attrs, depth) ==
    \/ text = <<>>
    \/ /\ Filter(v, text, 1, attrs, depth) = "FR_EVAL_TRUE"
       /\ FindBracketEnd(text, 1) = Len(text)
=============================================================================
