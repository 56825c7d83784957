---------------------------- MODULE SlpAttributes ----------------------------
(***************************************************************************)
(* The attribute library, libslpattr: the text of an attribute list is     *)
(* parsed into typed variables, which are looked up, set, iterated over    *)
(* and written out again.  slpd parses every registration's attributes     *)
(* with it, evaluates predicates on the result and answers AttrRqsts that  *)
(* name tags with what it writes.                                          *)
(*                                                                         *)
(* A character is its ASCII code.  The text of a value is a sequence of    *)
(* units: <<c>> is the character c itself and <<h, l>> the escape \hl,     *)
(* whose two digits are h and l.  A variable's values hold their data as a *)
(* sequence of numbers: the characters of a string or an opaque, the one   *)
(* number of an integer, 1 or 0 for a boolean.                             *)
(***************************************************************************)
EXTENDS Integers, Sequences, SequencesExt

INTEGER == "SLP_INTEGER"
BOOLEANS == "SLP_BOOLEAN"
STR == "SLP_STRING"
OPAQUE == "SLP_OPAQUE"
KEYWORD == "SLP_KEYWORD"
UNKNOWN == "TYPE_UNKNOWN"

\* libslpattr.c:72-103: the classes of characters.
IsReserved(c) == c \in {33, 40, 41, 44, 60, 61, 62, 92, 126, 127} \cup 1..31
IsDigit(c) == c \in 48..57
IsHex(c) == IsDigit(c) \/ c \in 65..70 \/ c \in 97..102
MustEscape(c) == c \in {0, 33, 40, 41, 44, 60, 61, 62, 92, 126}

TrueStr == <<116, 114, 117, 101>>
FalseStr == <<102, 97, 108, 115, 101>>

Lower(c) == IF c \in 65..90 THEN c + 32 ELSE c
SameTag(s, t) == Len(s) = Len(t) /\ \A i \in DOMAIN s : Lower(s[i]) = Lower(t[i])

HexValue(c) == IF c \in 65..70 THEN c - 55 ELSE IF c \in 97..102 THEN c - 87 ELSE c - 48

Unescape(u) == IF Len(u) = 1 THEN u[1] ELSE 16 * HexValue(u[1]) + HexValue(u[2])
UnescapeInto(text) == [i \in DOMAIN text |-> Unescape(text[i])]

EscapedLen(text) == FoldLeft(LAMBDA n, u : n + (IF Len(u) = 1 THEN 1 ELSE 3), 0, text)

-----------------------------------------------------------------------------
(***************************************************************************)
(* find_value_list_end: one pass over the values of an attribute guesses   *)
(* their common type.  s.len counts the unescaped characters, not those an *)
(* escape begins a value with, and runs on over all the values.            *)
(***************************************************************************)
EscapeStep(s, u, first) ==
    LET this == IF u[1] \in {70, 102} /\ u[2] \in {70, 102} THEN OPAQUE ELSE STR
    IN  IF ~(IsHex(u[1]) /\ IsHex(u[2])) THEN [s EXCEPT !.ok = FALSE]
        ELSE IF ~first THEN [s EXCEPT !.len = @ + 1]
        ELSE IF s.type = UNKNOWN THEN [s EXCEPT !.type = this]
        ELSE IF (this = OPAQUE) # (s.type = OPAQUE) THEN [s EXCEPT !.ok = FALSE]
        ELSE IF this = STR THEN [s EXCEPT !.type = STR] ELSE s

CharType(s, c, first) ==
    LET numeral == IsDigit(c) \/ (first /\ c = 45)
        word(w) == s.len < Len(w) /\ c = w[s.len + 1]
    IN  CASE s.type = INTEGER -> IF numeral THEN INTEGER ELSE STR
          [] s.type = BOOLEANS -> IF word(TrueStr) \/ word(FalseStr) THEN BOOLEANS ELSE STR
          [] s.type = UNKNOWN -> IF numeral THEN INTEGER
                                 ELSE IF first /\ c \in {116, 102} THEN BOOLEANS ELSE STR
          [] OTHER -> s.type

CharStep(s, c, first) ==
    IF IsReserved(c) \/ s.type = OPAQUE THEN [s EXCEPT !.ok = FALSE]
    ELSE [s EXCEPT !.type = CharType(s, c, first), !.len = @ + 1]

ValueStep(s, text) ==
    LET step(r, i) == IF ~r.ok THEN r
                      ELSE IF Len(text[i]) = 1 THEN CharStep(r, text[i][1], i = 1)
                      ELSE EscapeStep(r, text[i], i = 1)
    IN  FoldLeft(step, s, [i \in DOMAIN text |-> i])

\* A separator ends a value that must not be empty; a list of booleans is strings.
\* (An attribute without any value, "(a=)", is not an error: it is ignored.)
FindValueListEnd(vals) ==
    LET sep(s) == [s EXCEPT !.type = IF @ = BOOLEANS THEN STR ELSE @]
        step(s, i) == IF ~s.ok \/ (vals[i] = <<>> /\ i < Len(vals)) THEN [s EXCEPT !.ok = FALSE]
                      ELSE ValueStep(IF i = 1 THEN s ELSE sep(s), vals[i])
    IN  FoldLeft(step, [ok |-> TRUE, type |-> UNKNOWN, len |-> 0], [i \in DOMAIN vals |-> i])

-----------------------------------------------------------------------------
(***************************************************************************)
(* Numbers: strtol in the two bases the code asks for, and count_digits,   *)
(* the ceiling of a logarithm.                                             *)
(***************************************************************************)
Plain(text) == [i \in DOMAIN text |-> IF Len(text[i]) = 1 THEN text[i][1] ELSE 92]

\* strtol: the number the text starts with; "used" counts the characters taken.
Strtol(s, base) ==
    LET neg == s # <<>> /\ s[1] = 45
        b == LET k == IF neg THEN 2 ELSE 1
             IN  IF base # 0 THEN base ELSE IF k \in DOMAIN s /\ s[k] = 48 THEN 8 ELSE 10
        digits == IF neg THEN Tail(s) ELSE s
        stop == SelectInSeq(digits, LAMBDA c : c \notin 48..(47 + b))
        taken == IF stop = 0 THEN digits ELSE SubSeq(digits, 1, stop - 1)
        n == FoldLeft(LAMBDA a, c : b * a + c - 48, 0, taken)
    IN  [value |-> IF neg THEN -n ELSE n,
         used |-> IF taken = <<>> THEN 0 ELSE Len(taken) + (IF neg THEN 1 ELSE 0)]

\* The decimal numeral sprintf writes (numbers of at most four digits occur).
Decimal(n) ==
    LET m == IF n < 0 THEN -n ELSE n
        width == IF m > 999 THEN 4 ELSE IF m > 99 THEN 3 ELSE IF m > 9 THEN 2 ELSE 1
        digits == [i \in 1..width |-> 48 + ((m \div (10 ^ (width - i))) % 10)]
    IN  IF n < 0 THEN <<45>> \o digits ELSE digits

\* count_digits: the ceiling of log10, which is one short at a power of ten.
CountDigits(n) ==
    LET m == IF n < 0 THEN -n ELSE n
        log10 == CHOOSE k \in 0..4 : 10 ^ k >= m /\ (k = 0 \/ 10 ^ (k - 1) < m)
    IN  (IF n < 0 THEN 1 ELSE 0) + (IF m \in {0, 1} THEN 1 ELSE log10)

-----------------------------------------------------------------------------
(***************************************************************************)
(* Variables.  attrs is the list of them, the newest first.                *)
(***************************************************************************)
Value(data, escaped) == [data |-> data, escaped |-> escaped]
Flag(b) == Value(<<IF b THEN 1 ELSE 0>>, IF b THEN 4 ELSE 5)
Number(n) == Value(<<n>>, CountDigits(n))

VarNew(tag, type, list) == [tag |-> tag, type |-> type, list |-> list, modified |-> TRUE]

\* The value internal_store makes of one text of a list of this type.
StoredValue(type, text) ==
    CASE type = BOOLEANS -> Flag(text[1] = <<116>>)
      [] type = INTEGER -> Number(Strtol(Plain(text), 0).value)
      [] OTHER -> Value(UnescapeInto(text), EscapedLen(text))

InternalStore(attrs, tag, type, vals) ==
    <<VarNew(tag, type, [i \in DOMAIN vals |-> StoredValue(type, vals[i])])>> \o attrs

\* attr_val_find_str: the index of the first variable with the tag, 0 if none.
AttrFind(attrs, tag) == SelectInSeq(attrs, LAMBDA v : SameTag(v.tag, tag))

GetType(attrs, tag) ==
    LET k == AttrFind(attrs, tag) IN IF k = 0 THEN "SLP_TAG_ERROR" ELSE attrs[k].type

\* var_list_destroy and var_insert: a keyword has no value to insert.
VarListDestroy(var) == [var EXCEPT !.list = <<>>]
VarInsert(var, value, policy) ==
    IF value = <<>> THEN var
    ELSE [var EXCEPT !.list = value \o (IF policy = "SLP_REPLACE" THEN <<>> ELSE @),
                     !.modified = TRUE]

\* A bug: a variable that is replaced by one of another type keeps its values.
GenericSetVal_Keep(attrs, tag, value, policy, type) ==
    LET k == AttrFind(attrs, tag)
    IN  IF k = 0 THEN [err |-> "SLP_OK", attrs |-> <<VarInsert(VarNew(tag, type, <<>>), value, policy)>> \o attrs]
        ELSE IF attrs[k].type # type /\ policy # "SLP_REPLACE" THEN [err |-> "SLP_TYPE_ERROR", attrs |-> attrs]
        ELSE [err |-> "SLP_OK", attrs |-> [attrs EXCEPT ![k] = VarInsert([@ EXCEPT !.type = type], value, policy)]]
GenericSetVal(attrs, tag, value, policy, type) ==
    LET k == AttrFind(attrs, tag)
        var == IF attrs[k].type = type THEN attrs[k]
               ELSE [VarListDestroy(attrs[k]) EXCEPT !.type = type]
    IN  IF k = 0 THEN [err |-> "SLP_OK", attrs |-> <<VarInsert(VarNew(tag, type, <<>>), value, policy)>> \o attrs]
        ELSE IF attrs[k].type # type /\ policy # "SLP_REPLACE" THEN [err |-> "SLP_TYPE_ERROR", attrs |-> attrs]
        ELSE [err |-> "SLP_OK", attrs |-> [attrs EXCEPT ![k] = VarInsert(var, value, policy)]]

SetBool(attrs, tag, b) == GenericSetVal(attrs, tag, <<Flag(b)>>, "SLP_REPLACE", BOOLEANS)
SetKeyw(attrs, tag) == GenericSetVal(attrs, tag, <<>>, "SLP_REPLACE", KEYWORD)
SetInt(attrs, tag, n, policy) == GenericSetVal(attrs, tag, <<Number(n)>>, policy, INTEGER)

FindEscapedSize(s) == FoldLeft(LAMBDA n, c : n + (IF MustEscape(c) THEN 3 ELSE 1), 0, s)
SetStr(attrs, tag, s, policy) ==
    GenericSetVal(attrs, tag, <<Value(s, FindEscapedSize(s))>>, policy, STR)

\* SLPAttrSet_opaque copies to a null pointer: only an empty opaque survives the call.
SetOpaque(attrs, tag, s, policy) ==
    IF s # <<>> THEN [err |-> "SIGSEGV", attrs |-> attrs]
    ELSE GenericSetVal(attrs, tag, <<Value(s, 3)>>, policy, OPAQUE)

\* SLPAttrStore: the type of one value is taken from its whole text.
AttrStore(attrs, tag, text, policy) ==
    LET plain == Plain(text)
        number == Strtol(plain, 10)
        numeral == plain # <<>> /\ (IsDigit(plain[1]) \/ plain[1] = 45)
                   /\ \A i \in 2..Len(plain) : IsDigit(plain[i])
        opaque == text # <<>> /\ text[1] = <<70, 70>>
        refused == [err |-> "SLP_PARAMETER_BAD", attrs |-> attrs]
    IN  CASE opaque -> IF EscapedLen(text) % 3 # 0 THEN refused
                       ELSE SetOpaque(attrs, tag, UnescapeInto(Tail(text)), policy)
          [] plain = TrueStr -> SetBool(attrs, tag, TRUE)
          [] plain = FalseStr -> SetBool(attrs, tag, FALSE)
          [] numeral -> SetInt(attrs, tag, number.value, policy)
          [] \E i \in DOMAIN text : IF Len(text[i]) = 1 THEN IsReserved(text[i][1])
                                    ELSE ~(IsHex(text[i][1]) /\ IsHex(text[i][2])) -> refused
          [] OTHER -> SetStr(attrs, tag, UnescapeInto(text), policy)

\* SLPAttrSet_guess: to replace, the list is emptied first and the values are added.
SetGuess(attrs, tag, vals, policy) ==
    LET k == AttrFind(attrs, tag)
        start == IF policy = "SLP_REPLACE" /\ k # 0 THEN [attrs EXCEPT ![k] = VarListDestroy(@)]
                 ELSE attrs
        step(r, text) == IF r.err # "SLP_OK" THEN r ELSE AttrStore(r.attrs, tag, text, "SLP_ADD")
    IN  FoldLeft(step, [err |-> "SLP_OK", attrs |-> start], vals)

-----------------------------------------------------------------------------
(***************************************************************************)
(* attr_destringify: an attribute list is a sequence of keywords,          *)
(* [tag |-> t], of attributes, [tag |-> t, vals |-> texts], and of what is *)
(* neither, [bad |-> TRUE], at which the parse stops with what it has.     *)
(***************************************************************************)
Destringify(attrs, items) ==
    LET step(r, item) ==
            LET end == FindValueListEnd(item.vals)
            IN  IF r.err # "SLP_OK" THEN r
                ELSE IF "bad" \in DOMAIN item THEN [r EXCEPT !.err = "SLP_PARAMETER_BAD"]
                ELSE IF "vals" \notin DOMAIN item THEN [r EXCEPT !.attrs = SetKeyw(@, item.tag).attrs]
                ELSE IF ~end.ok THEN [r EXCEPT !.err = "SLP_PARAMETER_BAD"]
                ELSE IF end.len = 0 THEN r
                ELSE [r EXCEPT !.attrs = InternalStore(@, item.tag, end.type, item.vals)]
    IN  FoldLeft(step, [err |-> "SLP_OK", attrs |-> attrs], items)

Freshen(attrs, items) == Destringify(attrs, items)

-----------------------------------------------------------------------------
(***************************************************************************)
(* SLPAttrSerialize: one pass over the chosen variables computes the size, *)
(* a second one writes them.  A separator follows every variable whose end *)
(* is still short of the size.                                             *)
(***************************************************************************)
HexDigit(d) == (d + (IF d < 10 THEN 48 ELSE 55)) % 256
\* char is signed: the first digit of a character above 127 is taken from a
\* negative number.
Escape(c) == <<92, HexDigit(c \div 16 + (IF c > 127 THEN 240 ELSE 0)), HexDigit(c % 16)>>

EscapeInto(s) == FlattenSeq([i \in DOMAIN s |-> IF MustEscape(s[i]) THEN Escape(s[i]) ELSE <<s[i]>>])
EscapeOpaqueInto(s) == FlattenSeq([i \in DOMAIN s |-> Escape(s[i])])

\* What follows an integer is written over the digits beyond its counted length.
WrittenValue(type, v) ==
    CASE type = BOOLEANS -> IF v.data[1] = 1 THEN TrueStr ELSE FalseStr
      [] type = INTEGER -> SubSeq(Decimal(v.data[1]), 1, v.escaped)
      [] type = STR -> EscapeInto(v.data)
      [] OTHER -> <<92, 70, 70>> \o EscapeOpaqueInto(v.data)

Joined(texts) == FlattenSeq([i \in DOMAIN texts |-> IF i = 1 THEN texts[i] ELSE <<44>> \o texts[i]])

WrittenVar(var) ==
    IF var.type = KEYWORD THEN var.tag
    ELSE <<40>> \o var.tag \o <<61>>
         \o Joined([i \in DOMAIN var.list |-> WrittenValue(var.type, var.list[i])]) \o <<41>>

VarSize(var) ==
    Len(var.tag) + (IF var.type = KEYWORD THEN 0
                    ELSE FoldLeft(LAMBDA n, v : n + v.escaped, Len(var.list) - 1 + 3, var.list))

\* var_iter: the named variables in the order of the names, or all of them.
Chosen(attrs, tags) ==
    IF tags = <<>> THEN [i \in DOMAIN attrs |-> i]
    ELSE SelectSeq([i \in DOMAIN tags |-> AttrFind(attrs, tags[i])], LAMBDA k : k # 0)

Serialize(attrs, tags, delta) ==
    LET vars == SelectSeq(Chosen(attrs, tags), LAMBDA k : delta => attrs[k].modified)
        size == FoldLeft(LAMBDA n, k : n + VarSize(attrs[k]), 0, vars)
                + (IF vars = <<>> THEN 0 ELSE Len(vars) - 1)
        write(text, k) == LET t == text \o WrittenVar(attrs[k])
                          IN  IF Len(t) < size THEN Append(t, 44) ELSE t
    IN  [count |-> size + 1,
         text |-> FoldLeft(write, <<>>, vars),
         attrs |-> [k \in DOMAIN attrs |-> [attrs[k] EXCEPT
                        !.modified = @ /\ \A i \in DOMAIN vars : vars[i] # k]]]

\* The iterator: every variable's tag and type, and its values in order.
Iterate(attrs) == [k \in DOMAIN attrs |-> [tag |-> attrs[k].tag, type |-> attrs[k].type,
    values |-> [i \in DOMAIN attrs[k].list |-> attrs[k].list[i].data]]]

\* SLPAttrGet_<type>: the data of the variable, of the first value of a boolean.
Get(attrs, tag, type) ==
    LET k == AttrFind(attrs, tag)
    IN  IF k = 0 THEN [err |-> "SLP_TAG_ERROR", val |-> <<>>]
        ELSE IF attrs[k].type # type THEN [err |-> "SLP_TYPE_ERROR", val |-> <<>>]
        ELSE [err |-> "SLP_OK", val |-> [i \in DOMAIN attrs[k].list |-> attrs[k].list[i].data]]

\* SLPDFilterAttributes: the attributes of a registration that an AttrRqst names.
FilterAttributes(items, tags) ==
    LET fresh == Freshen(<<>>, items)
        out == Serialize(fresh.attrs, tags, FALSE)
    IN  IF fresh.err # "SLP_OK" THEN [len |-> 0, text |-> <<>>]
        ELSE [len |-> out.count - 1, text |-> out.text]
=============================================================================
