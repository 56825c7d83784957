----------------------------- MODULE SlpMessages -----------------------------
(***************************************************************************)
(* Messages on the wire: what the libraries and the daemon write           *)
(* (libslp_*.c, slpd_knownda.c, slpd_process.c) and what SLPMessageParse-  *)
(* Buffer makes of it (slp_message.c, slp_v2message.c, slp_v1message.c).   *)
(* A buffer is its bytes and slack, the byte that follows them in memory;  *)
(* a parse holds an error, a position, the fields read, [at, len] for a    *)
(* string, and the places where a string has been terminated by a zero     *)
(* written over the byte behind it.                                        *)
(***************************************************************************)
EXTENDS SlpStrings

PARSE_ERROR == "SLP_ERROR_PARSE_ERROR"

Byte(b, i) == IF i <= Len(b.data) THEN b.data[i] ELSE IF i = Len(b.data) + 1 THEN b.slack ELSE 0
End(b) == Len(b.data)
Text(b, s) == SubSeq(b.data, s.at + 1, s.at + s.len)

\* GetUINT16, GetUINT24 and GetUINT32: big-endian.
Num(b, pos, width) == FoldLeft(LAMBDA n, i : 256 * n + Byte(b, i), 0, [k \in 1..width |-> pos + k])

Reading(pos) == [err |-> "", pos |-> pos, done |-> FALSE, f |-> <<>>, zeros |-> {}]
With(r, name, value, pos) == [r EXCEPT !.f = (name :> value) @@ @, !.pos = pos]
Fail(r, error) == [r EXCEPT !.err = error]
Least(b, r, size) == IF End(b) - r.pos < size THEN Fail(r, PARSE_ERROR) ELSE r

-----------------------------------------------------------------------------
(***************************************************************************)
(* The kinds of fields.                                                    *)
(***************************************************************************)
ReadStr(b, r, name) ==
    LET len == Num(b, r.pos, 2)
        n == With(r, name, [at |-> r.pos + 2, len |-> len], r.pos + 2 + len)
    IN  IF n.pos > End(b) THEN Fail(n, PARSE_ERROR) ELSE n

\* Strings that are not in the message.
ByDefault == [at |-> -1, len |-> 7]
AllAuthorities == [at |-> -2, len |-> 65535]

\* Lengths 0 and 0xffff of a naming authority are the IANA and all of them, without a string.
ReadNamingAuth(b, r, name) ==
    LET len == Num(b, r.pos, 2)
        n == With(r, name, [at |-> r.pos + 2, len |-> 0], r.pos + 2)
    IN  IF len \notin {0, 65535} THEN ReadStr(b, r, name)
        ELSE IF n.pos > End(b) THEN Fail(n, PARSE_ERROR)
        ELSE IF len = 0 THEN n ELSE With(n, name, AllAuthorities, n.pos)

v2ParseAuthBlock(b, r) ==
    LET next == r.pos + Num(b, r.pos + 2, 2)
    IN  IF r.err # "" THEN r
        ELSE IF End(b) - r.pos < 10 \/ r.pos + 10 + Num(b, r.pos + 8, 2) > End(b) \/ next > End(b)
        THEN Fail(r, PARSE_ERROR) ELSE [r EXCEPT !.pos = next]

\* The count is read wherever the message ends.
ReadAuths(b, r, name) ==
    LET count == Byte(b, r.pos + 1)
    IN  FoldLeft(LAMBDA x, i : v2ParseAuthBlock(b, x), With(r, name, count, r.pos + 1), [i \in 1..count |-> i])

EntryAuths(b, n) == IF n.err # "" THEN n ELSE ReadAuths(b, [n EXCEPT !.zeros = @ \cup {n.pos + 1}], "auths")
EntryRead(b, r, name, n) ==
    IF n.err # "" THEN Fail(r, n.err)
    ELSE [With(r, name, [lifetime |-> Num(b, r.pos + 1, 2), url |-> n.f["url"], auths |-> n.f["auths"],
                         opaque |-> [at |-> r.pos, len |-> n.pos - r.pos]], n.pos)
          EXCEPT !.zeros = n.zeros]
v2ParseUrlEntry(b, r, name) ==
    IF End(b) - r.pos < 6 THEN Fail(r, PARSE_ERROR)
    ELSE EntryRead(b, r, name, EntryAuths(b, ReadStr(b, [r EXCEPT !.pos = r.pos + 3], "url")))

\* After an error code nothing else is trusted.  A message has fewer URL entries than bytes.
ReadField(b, r, field) ==
    LET name == field[1]
        code == Num(b, r.pos, 2)
        count == Num(b, r.pos, 2)
        added(x, n) == IF n.err # "" THEN n ELSE With(n, name, Append(x.f[name], n.f["entry"]), n.pos)
        next(x, i) == IF x.err # "" THEN x ELSE added(x, v2ParseUrlEntry(b, x, "entry"))
        entries == FoldLeft(next, With(r, name, <<>>, r.pos + 2), [i \in 1..Min({count, End(b)}) |-> i])
    IN  IF r.err # "" \/ r.done THEN r
        ELSE CASE field[2] = "str" -> ReadStr(b, r, name)
               [] field[2] = "authority" -> ReadNamingAuth(b, r, name)
               [] field[2] = "auths" -> ReadAuths(b, r, name)
               [] field[2] = "entry" -> v2ParseUrlEntry(b, r, name)
               [] field[2] = "entries" -> entries
               [] field[2] = "u32" -> With(r, name, Num(b, r.pos, 4), r.pos + 4)
               [] field[2] = "code" -> [With(r, name, code, r.pos + 2) EXCEPT !.done = code # 0]

-----------------------------------------------------------------------------
(***************************************************************************)
(* SLPv2.  For each function: the least size of a body, its fields in      *)
(* order, and the string that gets a terminating zero.                     *)
(***************************************************************************)
Functions == <<"SrvRqst", "SrvRply", "SrvReg", "SrvDeReg", "SrvAck", "AttrRqst", "AttrRply", "DAAdvert",
               "SrvTypeRqst", "SrvTypeRply", "SAAdvert">>
FunctionId(name) == CHOOSE i \in DOMAIN Functions : Functions[i] = name

v2SrvRqst == <<<<"prlist", "str">>, <<"srvtype", "str">>, <<"scopelist", "str">>, <<"predicate", "str">>, <<"spistr", "str">>>>
v2SrvRply == <<<<"errorcode", "code">>, <<"urlarray", "entries">>>>
v2SrvReg == <<<<"urlentry", "entry">>, <<"srvtype", "str">>, <<"scopelist", "str">>, <<"attrlist", "str">>,
              <<"authcount", "auths">>>>
v2SrvDeReg == <<<<"scopelist", "str">>, <<"urlentry", "entry">>, <<"taglist", "str">>>>
v2SrvAck == <<<<"errorcode", "code">>>>
v2AttrRqst == <<<<"prlist", "str">>, <<"url", "str">>, <<"scopelist", "str">>, <<"taglist", "str">>, <<"spistr", "str">>>>
v2AttrRply == <<<<"errorcode", "code">>, <<"attrlist", "str">>, <<"authcount", "auths">>>>
v2DAAdvert == <<<<"errorcode", "code">>, <<"bootstamp", "u32">>, <<"url", "str">>, <<"scopelist", "str">>,
                <<"attrlist", "str">>, <<"spilist", "str">>, <<"authcount", "auths">>>>
v2SrvTypeRqst == <<<<"prlist", "str">>, <<"namingauth", "authority">>, <<"scopelist", "str">>>>
v2SrvTypeRply == <<<<"errorcode", "code">>, <<"srvtypelist", "str">>>>
v2SAAdvert == <<<<"url", "str">>, <<"scopelist", "str">>, <<"attrlist", "str">>, <<"authcount", "auths">>>>

v2Fields == <<v2SrvRqst, v2SrvRply, v2SrvReg, v2SrvDeReg, v2SrvAck, v2AttrRqst, v2AttrRply, v2DAAdvert,
              v2SrvTypeRqst, v2SrvTypeRply, v2SAAdvert>>
v2Least == <<10, 4, 0, 4, 0, 10, 5, 15, 6, 4, 7>>
v2Terminated == <<"", "", "", "", "", "", "attrlist", "url", "", "srvtypelist", "url">>

Terminate(r, name) ==
    IF name # "" /\ r.err = "" /\ ~r.done THEN [r EXCEPT !.zeros = @ \cup {r.f[name].at + r.f[name].len + 1}] ELSE r
v2Body(b, fn, pos) ==
    Terminate(FoldLeft(LAMBDA x, field : ReadField(b, x, field), Least(b, Reading(pos), v2Least[fn]), v2Fields[fn]),
              v2Terminated[fn])

REG_PID == 16385
REG_PID_EXP == 38809

\* The list of extensions; the size of the message bounds its length.
RECURSIVE v2ParseExtension(_, _, _, _, _)
v2ParseExtension(b, fn, r, offset, left) ==
    LET id == Num(b, offset, 2)
        pid == fn = FunctionId("SrvReg") /\ id \in {REG_PID, REG_PID_EXP}
        n == IF pid THEN With(r, "pid", Num(b, offset + 5, 4), offset + 9) ELSE r
    IN  IF offset = 0 \/ r.err # "" THEN r
        ELSE IF left <= 5 \/ offset + 5 > End(b) \/ (pid /\ offset + 9 > End(b)) THEN Fail(r, PARSE_ERROR)
        ELSE IF ~(id \in {REG_PID, REG_PID_EXP}) /\ id \in 16384..32767 THEN Fail(r, "SLP_ERROR_OPTION_NOT_UNDERSTOOD")
        ELSE v2ParseExtension(b, fn, n, Num(b, offset + 2, 3), left - 5)

v2ParseHeader(b) ==
    [version |-> 2, fn |-> Byte(b, 2), length |-> Num(b, 2, 3), flags |-> Num(b, 5, 2), extoffset |-> Num(b, 7, 3),
     xid |-> Num(b, 10, 2), langtag |-> [at |-> 14, len |-> Num(b, 12, 2)]]

v2HeaderOK(b, h) ==
    /\ End(b) >= 18 /\ 14 + h.langtag.len <= End(b)
    /\ h.fn \in DOMAIN Functions /\ h.flags % 8192 = 0 /\ h.extoffset <= End(b)

v2ParseBody(b, h) ==
    IF ~v2HeaderOK(b, h) THEN Fail(Reading(0), PARSE_ERROR)
    ELSE [v2ParseExtension(b, h.fn, v2Body(b, h.fn, 14 + h.langtag.len), h.extoffset, End(b))
          EXCEPT !.f = ("header" :> h) @@ @]
v2ParseBuffer(b) == v2ParseBody(b, v2ParseHeader(b))

-----------------------------------------------------------------------------
(***************************************************************************)
(* SLPv1.  Strings are converted (SLPv1AsUTF8); what SLPv2 has as fields   *)
(* of their own is cut out of a predicate, "type/scope/predicate/", or     *)
(* found in the attributes, and defaults to the scope DEFAULT.  A string   *)
(* is searched up to a zero, past its end if there is none.                *)
(***************************************************************************)
DEFAULT == <<68, 69, 70, 65, 85, 76, 84>>
DirectoryAgent == <<100, 105, 114, 101, 99, 116, 111, 114, 121, 45, 97, 103, 101, 110, 116>>
SCOPE == <<83, 67, 79, 80, 69>>

SLP_CHAR_ASCII == 3
SLP_CHAR_UNICODE16 == 1000
SLP_CHAR_UNICODE32 == 1001
SLP_CHAR_UTF8 == 106
WidthOf(encoding) == CASE encoding = SLP_CHAR_UNICODE16 -> 2 [] encoding = SLP_CHAR_UNICODE32 -> 4 [] OTHER -> 1

v1Converted(b, n, name, width) ==
    IF n.err = "" /\ SLPv1AsUTF8(width, Text(b, n.f[name])).err # "" THEN Fail(n, "SLP_ERROR_INTERNAL_ERROR") ELSE n
v1Str(b, r, name, width) == IF r.err # "" THEN r ELSE v1Converted(b, ReadStr(b, r, name), name, width)

\* The bytes of the memory from a place to the next zero.
CString(b, at) ==
    LET ends == {i \in (at + 1)..(End(b) + 2) : Byte(b, i) = 0}
    IN  [k \in 1..(Min(ends) - at - 1) |-> Byte(b, at + k)]
IndexOf(s, t) == SelectInSeq([i \in DOMAIN s |-> i], LAMBDA i : i + Len(t) - 1 <= Len(s) /\ SubSeq(s, i, i + Len(t) - 1) = t)

v1ParseUrlEntry(b, r, width) ==
    IF End(b) - r.pos < 6 THEN Fail(r, PARSE_ERROR)
    ELSE v1Str(b, With(r, "lifetime", Num(b, r.pos, 2), r.pos + 2), "url", width)

\* s is the predicate, slash and scope where its first two fields end.
Unscoped(s, slash) == slash < Len(s) /\ s[slash + 1] = Slash /\ ~SameString(Before(s, slash), DirectoryAgent)
v1CutPredicate(n, p, slash, unscoped, scope) ==
    LET skip == slash + (IF unscoped THEN 1 ELSE scope)
    IN  IF slash = 0 \/ (~unscoped /\ scope = 0) THEN Fail(n, PARSE_ERROR)
        ELSE With(With(With(n, "srvtype", [at |-> p.at, len |-> slash - 1], n.pos),
                       "scopelist", IF unscoped THEN ByDefault ELSE [at |-> p.at + slash, len |-> scope - 1], n.pos),
                  "predicate", [at |-> p.at + skip, len |-> p.len - skip - 1], n.pos)
v1CutFields(n, s, slash) ==
    v1CutPredicate(n, n.f["predicate"], slash, Unscoped(s, slash), IndexOf(From(s, slash + 1), <<Slash>>))
v1CutSrvRqst(n, s) == v1CutFields(n, s, IndexOf(s, <<Slash>>))

v1Predicate(b, n) ==
    IF n.err # "" THEN n
    ELSE v1CutSrvRqst(n, CString([data |-> SubSeq(b.data, 1, n.f["predicate"].at + n.f["predicate"].len), slack |-> 0],
                                 n.f["predicate"].at))
v1ParseSrvRqst(b, r, width) ==
    v1Predicate(b, v1Str(b, v1Str(b, Least(b, r, 4), "prlist", width), "predicate", width))

\* The scope: behind the word, spaces and equals signs, up to a space or a bracket.
WordScope(s) == IF IndexOf(s, SCOPE) # 0 THEN IndexOf(s, SCOPE) ELSE IndexOf(s, [i \in 1..5 |-> Lower(SCOPE[i])])
ScopeBehind(s, at) ==
    LET rest == From(s, at + 5)
        first == SelectInSeq(rest, LAMBDA c : ~IsSpace(c) /\ c # 61)
        start == IF first = 0 THEN Len(rest) + 1 ELSE first
        stop == SelectInSeq(From(rest, start), LAMBDA c : IsSpace(c) \/ c = 41)
    IN  IF at = 0 THEN [at |-> -1, len |-> 0]
        ELSE [at |-> at + 3 + start, len |-> IF stop = 0 THEN Len(rest) - start + 1 ELSE stop - 1]
ScopeIn(s) == ScopeBehind(s, WordScope(s))

v1SrvType(b, n, sep) ==
    IF sep = 0 THEN Fail(n, PARSE_ERROR) ELSE With(n, "srvtype", [at |-> n.f["url"].at, len |-> sep - 1], n.pos)
v1EntryType(b, n) == IF n.err # "" THEN n ELSE v1SrvType(b, n, IndexOf(CString(b, n.f["url"].at), <<58, 47, 47>>))
v1ScopeOf(n, scope) ==
    With(n, "scopelist", IF scope.at < 0 THEN ByDefault ELSE [at |-> n.f["attrlist"].at + scope.at, len |-> scope.len], n.pos)
v1AttrScope(b, n) == IF n.err # "" THEN n ELSE v1ScopeOf(n, ScopeIn(CString(b, n.f["attrlist"].at)))
v1ParseSrvReg(b, r, width) ==
    v1AttrScope(b, v1Str(b, v1EntryType(b, v1ParseUrlEntry(b, r, width)), "attrlist", width))

\* An empty scope is the default one.
v1Scope(b, r, width) ==
    IF r.err # "" \/ Num(b, r.pos, 2) # 0 THEN v1Str(b, r, "scopelist", width) ELSE With(r, "scopelist", ByDefault, r.pos + 2)

v1ParseSrvDeReg(b, r, width) == v1Str(b, v1Str(b, Least(b, r, 4), "url", width), "taglist", width)

v1ParseAttrRqst(b, r, width) ==
    v1Str(b, v1Scope(b, v1Str(b, v1Str(b, Least(b, r, 8), "prlist", width), "url", width), width), "taglist", width)

v1ParseAttrRply(b, r, width) ==
    Terminate(v1Str(b, With(Least(b, r, 4), "errorcode", Num(b, r.pos, 2), r.pos + 2), "attrlist", width), "attrlist")

v1Authority(b, r, width) ==
    CASE r.err # "" -> r
      [] Num(b, r.pos, 2) = 0 -> With(r, "namingauth", [at |-> r.pos + 2, len |-> 0], r.pos + 2)
      [] Num(b, r.pos, 2) = 65535 -> With(r, "namingauth", AllAuthorities, r.pos + 2)
      [] OTHER -> v1Str(b, r, "namingauth", width)
v1ParseSrvTypeRqst(b, r, width) ==
    v1Scope(b, v1Authority(b, v1Str(b, Least(b, r, 6), "prlist", width), width), width)

v1ParseHeader(b) ==
    [version |-> 1, fn |-> Byte(b, 2), length |-> Num(b, 2, 2), flags |-> Byte(b, 5), langtag |-> [at |-> 6, len |-> 2],
     encoding |-> Num(b, 8, 2), xid |-> Num(b, 10, 2), extoffset |-> 0]

v1HeaderError(b, h) ==
    IF End(b) < 12 \/ h.fn \notin 1..10 THEN PARSE_ERROR
    ELSE IF h.encoding \notin {SLP_CHAR_ASCII, SLP_CHAR_UTF8, SLP_CHAR_UNICODE16, SLP_CHAR_UNICODE32}
    THEN "SLP_ERROR_CHARSET_NOT_UNDERSTOOD"
    ELSE IF h.flags % 8 # 0 THEN PARSE_ERROR ELSE ""

v1ParseBody(b, fn, width, start) ==
    CASE fn = "SrvRqst" -> v1ParseSrvRqst(b, start, width)
      [] fn = "SrvReg" -> v1ParseSrvReg(b, start, width)
      [] fn = "SrvDeReg" -> v1ParseSrvDeReg(b, start, width)
      [] fn = "AttrRqst" -> v1ParseAttrRqst(b, start, width)
      [] fn = "AttrRply" -> v1ParseAttrRply(b, start, width)
      [] fn = "DAAdvert" -> start
      [] fn = "SrvTypeRqst" -> v1ParseSrvTypeRqst(b, start, width)
      [] OTHER -> Fail(start, "SLP_ERROR_MESSAGE_NOT_SUPPORTED")
v1ParseFrom(b, h) ==
    IF v1HeaderError(b, h) # "" THEN Fail(Reading(12), v1HeaderError(b, h))
    ELSE [v1ParseBody(b, Functions[h.fn], WidthOf(h.encoding), Reading(12)) EXCEPT !.f = ("header" :> h) @@ @]
v1ParseBuffer(b) == v1ParseFrom(b, v1ParseHeader(b))

ParseBuffer(b) ==
    CASE Byte(b, 1) = 1 -> v1ParseBuffer(b) [] Byte(b, 1) = 2 -> v2ParseBuffer(b)
      [] OTHER -> Fail(Reading(0), "SLP_ERROR_VER_NOT_SUPPORTED")
=============================================================================
