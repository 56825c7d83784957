----------------------------- MODULE SlpStrings -----------------------------
(***************************************************************************)
(* The strings of SLP: comparison and normal form, lists of strings        *)
(* separated by commas (slp_compare.c), the escapes and parsers of libslp  *)
(* (libslp_parse.c, slp_parse.c) and UTF-8 (slp_utf8.c).  A string is a    *)
(* sequence of character codes.                                            *)
(***************************************************************************)
EXTENDS SlpAttributes, SlpCases, FiniteSets

Space == 32
Backslash == 92
Comma == 44
Slash == 47
IsSpace(c) == c = Space \/ c \in 9..13

From(s, i) == SubSeq(s, i, Len(s))
Before(s, i) == SubSeq(s, 1, i - 1)

-----------------------------------------------------------------------------
(***************************************************************************)
(* Comparison (SLPCompareString): without the white space at both ends,    *)
(* without escapes, with white space folded, in any case.                  *)
(***************************************************************************)
Trimmed(s) ==
    LET ink == {i \in DOMAIN s : ~IsSpace(s[i])}
    IN  IF ink = {} THEN <<>>
        ELSE SubSeq(s, CHOOSE i \in ink : \A j \in ink : i <= j, CHOOSE i \in ink : \A j \in ink : i >= j)

EscapeAt(s, i) == s[i] = Backslash /\ i + 2 <= Len(s) /\ IsHex(s[i + 1]) /\ IsHex(s[i + 2])

RECURSIVE UnescapeInPlace(_)
UnescapeInPlace(s) ==
    IF s = <<>> THEN <<>>
    ELSE IF EscapeAt(s, 1) THEN <<16 * HexValue(s[2]) + HexValue(s[3])>> \o UnescapeInPlace(From(s, 4))
    ELSE <<s[1]>> \o UnescapeInPlace(Tail(s))

(***************************************************************************)
(* A run of white space loses all but its first character: the rest of the *)
(* string is moved up, but the scan goes on where it was, up to the end of *)
(* before, over what the move has left there.                              *)
(***************************************************************************)
RECURSIVE Fold(_, _, _)
Fold(buf, p, len) ==
    IF p > Len(buf) THEN SubSeq(buf, 1, len)
    ELSE IF ~IsSpace(buf[p]) THEN Fold(buf, p + 1, len)
    ELSE LET skip == SelectInSeq(From(buf, p + 1), LAMBDA c : ~IsSpace(c))
             q == IF skip = 0 THEN Len(buf) + 1 ELSE p + skip
             tail == From(buf, q)
         IN  Fold(SubSeq(buf, 1, p) \o tail \o From(buf, p + 1 + Len(tail)), q + 1, len - (q - p - 1))
FoldWhiteSpace(s) == Fold(s, 1, Len(s))

CompareFolded(x, y) ==
    LET at == SelectInSeq([i \in DOMAIN x |-> i], LAMBDA i : Lower(x[i]) # Lower(y[i]))
    IN  IF Len(x) # Len(y) THEN IF Len(x) > Len(y) THEN -1 ELSE 1
        ELSE IF at = 0 THEN 0 ELSE Lower(x[at]) - Lower(y[at])

CompareTrimmed(a, b) ==
    IF a = <<>> \/ b = <<>> THEN IF a = b THEN 0 ELSE IF a = <<>> THEN -1 ELSE 1
    ELSE CompareFolded(FoldWhiteSpace(UnescapeInPlace(a)), FoldWhiteSpace(UnescapeInPlace(b)))

CompareString(s, t) == CompareTrimmed(Trimmed(s), Trimmed(t))

(***************************************************************************)
(* SLPNormalizeString.  An escape is turned into a character by its        *)
(* backslash and first digit, and the source is not advanced past it, so   *)
(* that the same escape is read again while the length lasts.              *)
(***************************************************************************)
Usaupr(c) == IF (c \div 64) % 4 = 1 THEN c - (IF (c \div 32) % 2 = 1 THEN 32 ELSE 0) ELSE c
Hex2Bin(c) == LET u == Usaupr(c) IN IF u <= 57 THEN u - 48 ELSE u - 55

RECURSIVE Normalize(_, _, _)
Normalize(s, len, out) ==
    LET ink == SelectInSeq(SubSeq(s, 1, len), LAMBDA c : ~IsSpace(c))
        skip == IF ink = 0 THEN len ELSE ink - 1
    IN  IF len = 0 \/ s = <<>> THEN out
        ELSE IF IsSpace(s[1])
        THEN Normalize(From(s, skip + 1), len - skip, IF out # <<>> /\ len > skip THEN Append(out, Space) ELSE out)
        ELSE IF len >= 3 /\ EscapeAt(s, 1)
        THEN Normalize(s, len - 3, Append(out, (16 * Hex2Bin(s[1]) + Hex2Bin(s[2])) % 256))
        ELSE Normalize(Tail(s), len - 1, Append(out, Lower(s[1])))
NormalizeString(s) == Normalize(s, Len(s), <<>>)

SameString(s, t) == CompareString(s, t) = 0

-----------------------------------------------------------------------------
(***************************************************************************)
(* Lists.  The items of a list and where each starts; an empty item is not *)
(* looked at when it is the last one.                                      *)
(***************************************************************************)
ItemsBetween(s, cuts) ==
    LET ends == SetToSortSeq(cuts \cup {Len(s) + 1}, <)
        starts == [k \in DOMAIN ends |-> IF k = 1 THEN 1 ELSE ends[k - 1] + 1]
    IN  SelectSeq([k \in DOMAIN ends |-> [at |-> starts[k], text |-> SubSeq(s, starts[k], ends[k] - 1)]],
                  LAMBDA item : item.at <= Len(s))
ListItems(s) == ItemsBetween(s, {i \in DOMAIN s : s[i] = Comma})

\* Union and IntersectRemove step over a comma behind a backslash.
EscapedItems(s) == ItemsBetween(s, {i \in DOMAIN s : s[i] = Comma /\ (i = 1 \/ s[i - 1] # Backslash)})

\* The position of the first item that is the string, 0 if there is none.
ItemAt(items, string) ==
    Max({0} \cup {items[k].at : k \in {SelectInSeq(items, LAMBDA item : SameString(item.text, string))} \ {0}})
ContainsStringList(list, string) == ItemAt(ListItems(list), string)

IntersectStringList(list1, list2) ==
    Len(SelectSeq(ListItems(list1), LAMBDA item : ContainsStringList(list2, item.text) # 0))

SubsetStringList(list, sublist) ==
    /\ list # <<>> /\ sublist # <<>>
    /\ IntersectStringList(list, sublist) = 1 + Len(SelectSeq(sublist, LAMBDA c : c = Comma))

(***************************************************************************)
(* Each common item is cut out of the second list by the length it has in  *)
(* the first, with the comma behind it.  The search goes over the whole    *)
(* buffer, what the cuts have left at its end included.                    *)
(***************************************************************************)
CutOut(r, pos, length) ==
    LET next == pos + length
        moved == SubSeq(r.buf, IF next <= r.len /\ r.buf[next] = Comma THEN next + 1 ELSE next, r.len)
        dest == pos + Len(moved)
    IN  IF pos = 0 THEN r
        ELSE [buf |-> Before(r.buf, pos) \o moved \o From(r.buf, dest), len |-> dest - 1, common |-> r.common + 1]

IntersectRemoveStringList(list1, list2) ==
    LET cut(r, item) == CutOut(r, ContainsStringList(r.buf, item.text), Len(item.text))
    IN  FoldLeft(cut, [buf |-> list2, len |-> Len(list2), common |-> 0], EscapedItems(list1))

\* What is in the second list and not in the first is appended to it, if there is room.
UnionStringList(list1, list2, size) ==
    LET add(r, item) ==
            IF r.err \/ ContainsStringList(list1, item.text) # 0 THEN r
            ELSE IF Len(r.text) + Len(item.text) + 1 > size THEN [r EXCEPT !.err = TRUE]
            ELSE [r EXCEPT !.text = (IF @ = <<>> THEN @ ELSE Append(@, Comma)) \o item.text]
    IN  FoldLeft(add, [err |-> size = 0 \/ size < Len(list1), text |-> list1], EscapedItems(list2))

UnionSize(list1, list2) == Len(list1) + Len(list2) + 1

-----------------------------------------------------------------------------
(***************************************************************************)
(* Escapes as programs see them (SLPEscape, SLPUnescape).                  *)
(***************************************************************************)
ReserveString == {40, 41, 44, 92, 33, 60, 61, 62, 126}
BadTag == {13, 10, 9, 95}
ParseError == "SLP_PARSE_ERROR"

HexDigit1(d) == IF d <= 9 THEN d + 48 ELSE d + 55

SLPEscape(s, isTag) ==
    IF isTag /\ \E i \in DOMAIN s : s[i] \in BadTag THEN ParseError
    ELSE FlattenSeq([i \in DOMAIN s |->
            IF s[i] \in ReserveString \cup (0..31) \cup {127}
            THEN <<Backslash, HexDigit1((s[i] - (s[i] % 16)) \div 15), HexDigit1(s[i] % 16)>> ELSE <<s[i]>>])

IsUpperHex(c) == c \in 48..57 \/ c \in 65..70

RECURSIVE Unescaped(_)
Unescaped(s) ==
    IF s = <<>> THEN <<>>
    ELSE IF s[1] # Backslash THEN <<s[1]>> \o Unescaped(Tail(s))
    ELSE <<16 * HexValue(s[2]) + HexValue(s[3])>> \o Unescaped(From(s, 4))

\* The first digits that are none make it fail, on the way through the string.
RECURSIVE IllEscapes(_)
IllEscapes(s) ==
    LET at == SelectInSeq(s, LAMBDA c : c = Backslash)
    IN  at # 0 /\ (at + 2 > Len(s) \/ ~IsUpperHex(s[at + 1]) \/ ~IsUpperHex(s[at + 2]) \/ IllEscapes(From(s, at + 3)))

SLPUnescape(s, isTag) ==
    IF (isTag /\ \E i \in DOMAIN s : s[i] \in BadTag) \/ IllEscapes(s) THEN ParseError ELSE Unescaped(s)

\* The values of an attribute in the text of a list: after its name, up to a bracket.
RECURSIVE SLPParseAttrs(_, _)
SLPParseAttrs(list, id) ==
    LET open == SelectInSeq(list, LAMBDA c : c = 40)
        rest == From(list, open + 1)
        stop == SelectInSeq(rest, LAMBDA c : c \in {61, 41})
        tag == IF stop = 0 THEN rest ELSE Before(rest, stop)
        vals == From(rest, Len(tag) + 1)
        text == IF vals # <<>> /\ vals[1] = 61 THEN Tail(vals) ELSE vals
        close == SelectInSeq(text, LAMBDA c : c = 41)
    IN  IF open = 0 THEN ParseError
        ELSE IF ~SameTag(tag, id) THEN SLPParseAttrs(rest, id)
        ELSE IF close = 0 THEN text ELSE Before(text, close)

-----------------------------------------------------------------------------
(***************************************************************************)
(* Service URLs: "type://host:port/remainder"; a host in square brackets   *)
(* is an IPv6 address.  Without "://" it is none.                          *)
(***************************************************************************)
SLPParseSrvUrl(url) ==
    LET sep == SelectInSeq([i \in DOMAIN url |-> i], LAMBDA i : i + 2 <= Len(url) /\ SubSeq(url, i, i + 2) = <<58, 47, 47>>)
        rest == From(url, sep + 3)
        bracket == SelectInSeq(rest, LAMBDA c : c = 93)
        v6 == rest # <<>> /\ rest[1] = 91 /\ bracket # 0
        after == IF v6 THEN From(rest, bracket + 1) ELSE rest
        slash == SelectInSeq(after, LAMBDA c : c = Slash)
        site == IF slash = 0 THEN after ELSE Before(after, slash)
        colon == SelectInSeq(site, LAMBDA c : c = 58)
    IN  IF sep = 0 THEN [err |-> "EINVAL"]
        ELSE [err |-> "", srvtype |-> Before(url, sep), v6 |-> v6,
              host |-> IF v6 THEN SubSeq(rest, 2, bracket - 1) ELSE IF colon = 0 THEN site ELSE Before(site, colon),
              port |-> IF colon = 0 THEN 0 ELSE Strtol(From(site, colon + 1), 10).value,
              remainder |-> IF slash = 0 THEN <<>> ELSE From(after, slash + 1)]

-----------------------------------------------------------------------------
(***************************************************************************)
(* UTF-8, by a table of the least and greatest character of each length    *)
(* and of the first byte's mark; and the strings of SLPv1, whose encoding  *)
(* may be one of 16 or 32 bits a character.  There neither conversion      *)
(* moves on in its wide string: reading finds no room before the first     *)
(* character, and every character is written over the one before.          *)
(***************************************************************************)
Tab == <<[least |-> 0, most |-> 127, mark |-> 0],
         [least |-> 128, most |-> 2047, mark |-> 192],
         [least |-> 2048, most |-> 65535, mark |-> 224],
         [least |-> 65536, most |-> 2097151, mark |-> 240],
         [least |-> 2097152, most |-> 67108863, mark |-> 248],
         [least |-> 67108864, most |-> 2147483647, mark |-> 252]>>

NoChar == [n |-> -1, wc |-> 0]

\* The row of a first byte: the marks have one more leading 1 bit each.
RowOf(c) == CASE c < 128 -> 1 [] c \in 192..223 -> 2 [] c \in 224..239 -> 3
              [] c \in 240..247 -> 4 [] c \in 248..251 -> 5 [] c \in 252..253 -> 6 [] OTHER -> 0

\* A bug: a longer sequence than a character needs is taken for it.
Utftouni_Overlong(s) ==
    LET k == RowOf(s[1])
        l == FoldLeft(LAMBDA n, c : 64 * n + c - 128, s[1] - Tab[k].mark, SubSeq(s, 2, k))
    IN  IF s = <<>> \/ k = 0 \/ k > Len(s) \/ \E i \in 2..k : s[i] \notin 128..191 THEN NoChar ELSE [n |-> k, wc |-> l]
Utftouni(s) ==
    LET k == RowOf(s[1])
        l == FoldLeft(LAMBDA n, c : 64 * n + c - 128, s[1] - Tab[k].mark, SubSeq(s, 2, k))
    IN  IF s = <<>> \/ k = 0 \/ k > Len(s) \/ (\E i \in 2..k : s[i] \notin 128..191) \/ l < Tab[k].least
        THEN NoChar ELSE [n |-> k, wc |-> l]

Unitoutf(wc) ==
    LET k == SelectInSeq(Tab, LAMBDA row : wc <= row.most)
    IN  [i \in 1..k |-> IF i = 1 THEN Tab[k].mark + wc \div (64 ^ (k - 1))
                        ELSE 128 + ((wc \div (64 ^ (k - i))) % 64)]

RECURSIVE Characters(_)
Characters(s) ==
    LET r == Utftouni(s)
    IN  IF s = <<>> THEN <<>>
        ELSE IF r.n < 0 THEN <<NoChar>> ELSE <<r>> \o Characters(From(s, r.n + 1))

BytesOf(wc, width) == [i \in 1..width |-> (wc \div (256 ^ (width - i))) % 256]

\* SLPv1AsUTF8 and SLPv1ToEncoding; width is 1, 2 or 4 bytes a character.
SLPv1AsUTF8(width, s) ==
    IF width = 1 THEN [err |-> "", text |-> s]
    ELSE [err |-> IF s = <<>> THEN "" ELSE "SLP_ERROR_INTERNAL_ERROR", text |-> <<>>]

SLPv1ToEncoding(width, s, room) ==
    LET chars == Characters(s)
        len == width * Len(chars)
    IN  IF width = 1 THEN [err |-> IF room < Len(s) THEN "SLP_ERROR_INTERNAL_ERROR" ELSE "", text |-> s]
        ELSE IF (chars # <<>> /\ Last(chars) = NoChar) \/ len > room THEN [err |-> "SLP_ERROR_INTERNAL_ERROR", text |-> <<>>]
        ELSE [err |-> "", text |-> [i \in 1..len |-> IF i <= width THEN BytesOf(Last(chars).wc, width)[i] ELSE 0]]

-----------------------------------------------------------------------------
(***************************************************************************)
(* The cases: two strings; two lists, each a sequence of different items;  *)
(* a string to escape; the parts of a URL; a character code; a text of     *)
(* bytes.                                                                  *)
(***************************************************************************)
UrlOf(u) ==
    u.srvtype \o <<58, 47, 47>> \o (IF u.v6 THEN <<91>> \o u.host \o <<93>> ELSE u.host)
    \o (IF u.port = 0 THEN <<>> ELSE <<58>> \o Decimal(u.port))
    \o (IF u.remainder = <<>> THEN <<>> ELSE <<Slash>> \o u.remainder)

ListVerdict(items, a, b) ==
    [at |-> [i \in DOMAIN items |-> ContainsStringList(b, items[i])],
     common |-> IntersectStringList(a, b), subset |-> SubsetStringList(a, b),
     union |-> UnionStringList(a, b, UnionSize(a, b)), left |-> IntersectRemoveStringList(a, b)]

StringVerdict(c) ==
    CASE c.kind = "strings" -> [cmp |-> CompareString(c.s, c.t), back |-> CompareString(c.t, c.s)]
      [] c.kind = "lists" -> ListVerdict(c.list1, Joined(c.list1), Joined(c.list2))
      [] c.kind = "escape" -> [text |-> SLPEscape(c.s, c.isTag), raw |-> SLPUnescape(c.s, c.isTag)]
      [] c.kind = "url" -> SLPParseSrvUrl(UrlOf(c.url))
      [] c.kind = "character" -> [utf8 |-> Unitoutf(c.wc), char |-> Utftouni(Unitoutf(c.wc))]
      [] c.kind = "bytes" -> Utftouni(c.s)

Judged(kind) == verdict # <<>> /\ case.kind = kind
-----------------------------------------------------------------------------
\* What a string means for a comparison: the characters left, each run of white
\* space as "a single space character" (slp_compare.c:188).
Ink(s) == UnescapeInPlace(Trimmed(s))
RunsBegin(u) == {i \in DOMAIN u : IsSpace(u[i]) /\ (i = 1 \/ ~IsSpace(u[i - 1]))}
Meant(s) ==
    LET u == Ink(s)
        kept == SelectSeq([i \in DOMAIN u |-> i], LAMBDA i : ~IsSpace(u[i]) \/ i \in RunsBegin(u))
    IN  [k \in DOMAIN kept |-> IF IsSpace(u[kept[k]]) THEN Space ELSE Lower(u[kept[k]])]

\* White space that folding treats as it says: one run, which begins with a space.
EvenlySpaced(s) == \A i, j \in RunsBegin(Ink(s)) : i = j /\ Ink(s)[i] = Space

(* Two strings compare equal if and only if they are the same but for      *)
(* case, escapes and the length of a run of white space, and from either   *)
(* side (slp_compare.c:338).  The first for strings evenly spaced; see     *)
(* CompareFoldsToASpace for the others.                                    *)
CompareIgnoresLooks ==
    Judged("strings") =>
        /\ EvenlySpaced(case.s) /\ EvenlySpaced(case.t) => (verdict[1].cmp = 0 <=> Meant(case.s) = Meant(case.t))
        /\ verdict[1].cmp = 0 <=> verdict[1].back = 0

(* Comparing "folds all internal white space to a single space character"  *)
(* (slp_compare.c:188).  It does not: a run keeps its first character, tab *)
(* or space, and the scan may pass over a second run (:207).               *)
CompareFoldsToASpace ==
    Judged("strings") => (verdict[1].cmp = 0 <=> Meant(case.s) = Meant(case.t))

(* Strings without escapes or tabs have the same normal form, under which  *)
(* slpd's index keeps service types, exactly if they compare equal, which  *)
(* is what a scan asks (slp_compare.c:276).                                *)
NormalFormsAgree ==
    Judged("strings") /\ ~Contains(case.s \o case.t, Backslash) /\ ~Contains(case.s \o case.t, 9) =>
        (NormalizeString(case.s) = NormalizeString(case.t) <=> verdict[1].cmp = 0)

(* Every two strings that compare equal have one normal form: normalizing  *)
(* is "unescaping the string" too (slp_compare.c:265).                     *)
NormalFormsAreUnescaped ==
    Judged("strings") /\ ~Contains(case.s \o case.t, 9) /\ verdict[1].cmp = 0 =>
        NormalizeString(case.s) = NormalizeString(case.t)

SetOf(items) == {Meant(items[i]) : i \in DOMAIN items}

(* On lists without repetitions or empty items the list functions are the  *)
(* operations on sets: a string is found exactly if it is in the list, the *)
(* common ones are counted, a sublist is told from one with a stranger,    *)
(* and a union has every item of both once and fits its size               *)
(* (slp_compare.c:503, 538, 661, 730).                                     *)
ListsAreSets ==
    Judged("lists") =>
        LET a == SetOf(case.list1)
            b == SetOf(case.list2)
            union == ListItems(verdict[1].union.text)
        IN  /\ \A i \in DOMAIN case.list1 : verdict[1].at[i] # 0 <=> Meant(case.list1[i]) \in b
            /\ verdict[1].common = Cardinality(a \cap b)
            /\ verdict[1].subset <=> b # {} /\ b \subseteq a
            /\ ~verdict[1].union.err
            /\ SetOf([i \in DOMAIN union |-> union[i].text]) = a \cup b /\ Len(union) = Cardinality(a \cup b)

(* Taking a list out of another "removes the common entries from the       *)
(* second list" (slp_compare.c:563).                                       *)
CommonEntriesAreRemoved ==
    Judged("lists") => {Meant(item.text) : item \in ToSet(ListItems(SubSeq(verdict[1].left.buf, 1, verdict[1].left.len)))}
                        = SetOf(case.list2) \ SetOf(case.list1)

(* An escaped string has no reserved or control character, and unescapes   *)
(* to what it was; a tag with a character no tag may have is refused both  *)
(* ways (libslp_parse.c:239, 342).                                         *)
EscapesUnescape ==
    Judged("escape") =>
        IF case.isTag /\ \E i \in DOMAIN case.s : case.s[i] \in BadTag
        THEN verdict[1] = [text |-> ParseError, raw |-> ParseError]
        ELSE /\ SLPUnescape(verdict[1].text, case.isTag) = case.s
             /\ \A i \in DOMAIN verdict[1].text :
                    verdict[1].text[i] \notin (0..31) \cup {40, 41, 44, 33, 60, 61, 62, 126, 127}

(* The parser of service URLs takes every URL apart into the parts it was  *)
(* made of, colons inside of an IPv6 address included (slp_parse.c:70).    *)
UrlsComeApart ==
    Judged("url") => verdict[1] = [err |-> ""] @@ case.url

(* Every character comes back from its UTF-8, and only from that: no bytes *)
(* but these are read as it (slp_utf8.c:82, 137).                          *)
Utf8IsUnique ==
    /\ Judged("character") => verdict[1].char = [n |-> Len(verdict[1].utf8), wc |-> case.wc]
    /\ Judged("bytes") /\ verdict[1].n > 0 => Unitoutf(verdict[1].wc) = SubSeq(case.s, 1, verdict[1].n)
=============================================================================
