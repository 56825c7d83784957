--------------------------- MODULE SlpAttributeList ---------------------------
(***************************************************************************)
(* One SLPAttributes object in use: the calls of the attribute library's   *)
(* interface on it, in any order, and what it writes read back.            *)
(***************************************************************************)
EXTENDS SlpAttributes, FiniteSets

CONSTANTS
    Tag, Ints, Str, \* the tags and values a program sets
    Texts           \* the texts of values SLPAttrSet_guess gets

Policy == {"SLP_ADD", "SLP_REPLACE"}

VARIABLE
    attrs           \* the variables of the object, the newest first

-----------------------------------------------------------------------------
(***************************************************************************)
(* The text of an attribute list as attr_destringify takes it apart: at    *)
(* the commas outside of brackets, each attribute in brackets at its "="   *)
(* and at the commas of its values.                                        *)
(***************************************************************************)
SplitAt(s, cuts) ==
    LET at == SetToSortSeq(cuts \cup {0, Len(s) + 1}, <)
    IN  [i \in 1..(Len(at) - 1) |-> SubSeq(s, at[i] + 1, at[i + 1] - 1)]

Units(s) ==
    LET inside(i) == (i > 1 /\ s[i - 1] = 92) \/ (i > 2 /\ s[i - 2] = 92)
        starts == SelectSeq([i \in DOMAIN s |-> i], LAMBDA i : ~inside(i))
    IN  [j \in DOMAIN starts |-> IF s[starts[j]] = 92 THEN <<s[starts[j] + 1], s[starts[j] + 2]>>
                                 ELSE <<s[starts[j]]>>]

AttributeOf(s) ==
    LET eq == SelectInSeq(s, LAMBDA c : c = 61)
        vals == SubSeq(s, eq + 1, Len(s) - 1)
        texts == SplitAt(vals, {i \in DOMAIN vals : vals[i] = 44})
    IN  IF s = <<>> \/ s[1] # 40 THEN [tag |-> s]
        ELSE IF eq = 0 \/ Last(s) # 41 THEN [bad |-> TRUE]
        ELSE [tag |-> SubSeq(s, 2, eq - 1), vals |-> [i \in DOMAIN texts |-> Units(texts[i])]]

Items(s) ==
    LET bracketed(i) == Cardinality({j \in 1..i : s[j] = 40}) > Cardinality({j \in 1..i : s[j] = 41})
        pieces == SplitAt(s, {i \in DOMAIN s : s[i] = 44 /\ ~bracketed(i)})
    IN  IF s = <<>> THEN <<>> ELSE [i \in DOMAIN pieces |-> AttributeOf(pieces[i])]

-----------------------------------------------------------------------------
ALInit == attrs = <<>>

Returned(r) == r.err # "SIGSEGV" /\ attrs' = r.attrs

AttrSet_bool(tag, b) == Returned(SetBool(attrs, tag, b))
AttrSet_keyw(tag) == Returned(SetKeyw(attrs, tag))
AttrSet_int(tag, n, policy) == Returned(SetInt(attrs, tag, n, policy))
AttrSet_str(tag, s, policy) == Returned(SetStr(attrs, tag, s, policy))
AttrSet_guess(tag, vals) == Returned(SetGuess(attrs, tag, vals, "SLP_ADD"))

\* SLPAttrSerialize of what has been modified, and of everything.
AttrSerialize(tags, delta) == attrs' = Serialize(attrs, tags, delta).attrs

\* A new object is filled from the text of this one (SLPAttrAllocStr).
AttrAllocStr == attrs # <<>> /\ attrs' = Freshen(<<>>, Items(Serialize(attrs, <<>>, FALSE).text)).attrs

MaxValues == 2   \* bound: the values of an attribute

Short == \A i \in DOMAIN attrs : Len(attrs[i].list) < MaxValues

ALNext == \/ \E tag \in Tag : \/ \E b \in BOOLEAN : AttrSet_bool(tag, b)
                              \/ AttrSet_keyw(tag)
                              \/ \E n \in Ints, p \in Policy : Short /\ AttrSet_int(tag, n, p)
                              \/ \E s \in Str, p \in Policy : Short /\ AttrSet_str(tag, s, p)
                              \/ \E v \in Texts : Short /\ AttrSet_guess(tag, v)
                              \/ \E d \in BOOLEAN : AttrSerialize(<<tag>>, d)
          \/ AttrAllocStr

-----------------------------------------------------------------------------
(* What an object writes is what another one reads: the same tags with the *)
(* same types and values in the same order, every variable once, whatever  *)
(* was set, replaced and added before (libslpattr.c:1753).  It holds for   *)
(* the numbers count_digits is right about and for strings that do not     *)
(* look like another type.                                                 *)
RoundTrip ==
    LET written == Serialize(attrs, <<>>, FALSE)
        read == Freshen(<<>>, Items(written.text))
    IN  /\ read.err = "SLP_OK"
        /\ Iterate(Reverse(read.attrs)) = Iterate(attrs)
        /\ \A k \in DOMAIN attrs : Get(read.attrs, attrs[k].tag, attrs[k].type) = Get(attrs, attrs[k].tag, attrs[k].type)
        /\ \A i, j \in DOMAIN attrs : i # j => ~SameTag(attrs[i].tag, attrs[j].tag)

(* The buffer is as long as what is written into it: "(cur - build_str) == *)
(* size" (libslpattr.c:1983), for the whole list, for the modified part    *)
(* and for one tag.                                                        *)
WrittenAsSized ==
    \A tags \in {<<>>} \cup {<<t>> : t \in Tag}, delta \in BOOLEAN :
        LET out == Serialize(attrs, tags, delta) IN Len(out.text) = out.count - 1
===============================================================================
