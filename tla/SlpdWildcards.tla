---------------------------- MODULE SlpdWildcards ----------------------------
(***************************************************************************)
(* How slpd compares the value of a search filter with a string attribute: *)
(* without regard to case, with escapes undone and with wildcards.  The    *)
(* value is a sequence of units (see SlpAttributes).                       *)
(***************************************************************************)
EXTENDS SlpAttributes

Wildcard == <<42>>

\* unescape_check: a lower case digit is not mapped to its value.
UnescapeCheck(u) ==
    LET digit(c) == IF c \in 65..70 THEN c - 55 ELSE c - 48
    IN  IF Len(u) = 1 THEN u[1] ELSE (16 * digit(u[1]) + digit(u[2])) % 256

WellEscaped(text) == \A i \in DOMAIN text : Len(text[i]) = 2 => IsHex(text[i][1]) /\ IsHex(text[i][2])

(***************************************************************************)
(* unescape_cmp of a wildcard-free text and a string, its prefix unless    *)
(* strict: the verdict is that of the first place where they differ or the *)
(* text is ill formed.                                                     *)
(***************************************************************************)
UnescapeCmp(text, s, strict) ==
    LET differs(i) == i > Len(s) \/ Lower(UnescapeCheck(text[i])) # Lower(s[i])
        ill(i) == i <= Len(s) /\ ~WellEscaped(<<text[i]>>)
        at == SelectInSeq([i \in DOMAIN text |-> i], LAMBDA i : ill(i) \/ differs(i))
    IN  IF at # 0 THEN IF ill(at) THEN "FR_PARSE_ERROR" ELSE "FR_EVAL_FALSE"
        ELSE IF strict /\ Len(s) # Len(text) THEN "FR_EVAL_FALSE" ELSE "FR_EVAL_TRUE"

\* my_memmem: the first offset of the text in the string, -1 if none.
Memmem(s, text) ==
    LET offsets == [k \in 1..(Len(s) - Len(text) + 1) |-> k - 1]
        at == SelectInSeq(offsets, LAMBDA o : UnescapeCmp(text, SubSeq(s, o + 1, Len(s)), FALSE) = "FR_EVAL_TRUE")
    IN  IF ~WellEscaped(text) \/ Len(s) < Len(text) THEN -1 ELSE at - 1

\* wildcard_wc_str: each piece of text between wildcards is sought where the one
\* before it ended; the last one, if no wildcard follows it, only at the end.
WildcardWcStr(p, s) ==
    LET W[q \in Suffixes(p), t \in Suffixes(s)] ==
            LET start == SelectInSeq(q, LAMBDA u : u # Wildcard)
                rest == SubSeq(q, start, Len(q))
                stop == SelectInSeq(rest, LAMBDA u : u = Wildcard)
                piece == IF stop = 0 THEN rest ELSE SubSeq(rest, 1, stop - 1)
                skip == IF stop = 0 THEN Len(t) - Len(piece) ELSE 0
                at == Memmem(SubSeq(t, skip + 1, Len(t)), piece)
            IN  IF q = <<>> THEN IF t = <<>> THEN "FR_EVAL_TRUE" ELSE "FR_EVAL_FALSE"
                ELSE IF start = 0 THEN "FR_EVAL_TRUE"
                ELSE IF skip < 0 \/ at = -1 THEN "FR_EVAL_FALSE"
                ELSE W[SubSeq(rest, Len(piece) + 1, Len(rest)), SubSeq(t, skip + at + Len(piece) + 1, Len(t))]
    IN  W[p, s]

(***************************************************************************)
(* The search for the end of a piece is given the length of the pattern    *)
(* from before the wildcards (slpd_predicate.c:384), so that it reads as   *)
(* many bytes past the end as there were wildcards.  Past the first, the   *)
(* zero that ends the value, may be anything.  With a "*" there, what      *)
(* stands before it becomes part of the piece, which is not found then.    *)
(***************************************************************************)
ReadsBeyond(p) ==
    LET last == SelectLastInSeq(p, LAMBDA u : u = Wildcard)
    IN  last > 1 /\ last < Len(p) /\ p[last - 1] = Wildcard

\* Without what ReadsBeyond may add.
WildcardMatch(p, s) ==
    LET first == SelectInSeq(p, LAMBDA u : u = Wildcard)
        lead == SubSeq(p, 1, first - 1)
        err == UnescapeCmp(lead, s, FALSE)
    IN  IF first = 0 THEN UnescapeCmp(p, s, TRUE)
        ELSE IF err # "FR_EVAL_TRUE" THEN err
        ELSE WildcardWcStr(SubSeq(p, first, Len(p)), SubSeq(s, first, Len(s)))
=============================================================================
