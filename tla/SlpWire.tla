------------------------------- MODULE SlpWire -------------------------------
(***************************************************************************)
(* What programs and the daemon write, and that it is read as it was       *)
(* meant.  The fields of a message are a record m; a writer gives the      *)
(* bytes it puts into its buffer and the size it had reserved, and put     *)
(* into the header, before.                                                *)
(***************************************************************************)
EXTENDS SlpMessages

SLP_FLAG_FRESH == 16384
SLP_FLAG_MCAST == 8192

PutUINT(n, width) == BytesOf(n, width)
PutL16String(s) == PutUINT(Len(s), 2) \o s

\* One authentication block at most.
PutAuth(auth) == IF auth = <<>> THEN <<0>> ELSE <<1>> \o auth
PutURLEntry(lifetime, url, auth) == <<0>> \o PutUINT(lifetime, 2) \o PutL16String(url) \o PutAuth(auth)

v2Header(name, size, flags, ext, xid, langtag) ==
    <<2, FunctionId(name)>> \o PutUINT(size, 3) \o PutUINT(flags, 2) \o PutUINT(ext, 3) \o PutUINT(xid, 2)
    \o PutL16String(langtag)
v1Header(name, size, xid, langtag) ==
    <<1, FunctionId(name)>> \o PutUINT(size, 2) \o <<0, 0>>
    \o (IF Len(langtag) < 2 THEN <<101, 110>> ELSE SubSeq(langtag, 1, 2)) \o PutUINT(SLP_CHAR_UTF8, 2) \o PutUINT(xid, 2)

-----------------------------------------------------------------------------
(***************************************************************************)
(* The library.  A request's body, then the message (NetworkRqstRply),     *)
(* where the offset of an extension in the body becomes one in the         *)
(* message.  extoffset is 0 without one.                                   *)
(***************************************************************************)
HasPRList(name) == name \in {"SrvRqst", "AttrRqst", "SrvTypeRqst"}
CalcBufferSize(v, name, m, bufsize) ==
    (IF v = 1 THEN 12 ELSE 14 + Len(m.langtag)) + bufsize + (IF HasPRList(name) THEN 2 + Len(m.prlist) ELSE 0)

\* A bug: the offset is left as it was in the body.
NetworkMessage_Offset(v, name, m, body) ==
    LET size == CalcBufferSize(v, name, m, Len(body.data))
        flags == (IF m.mcast THEN SLP_FLAG_MCAST ELSE 0) + (IF name = "SrvReg" THEN SLP_FLAG_FRESH ELSE 0)
    IN  [size |-> size, data |-> (IF v = 1 THEN v1Header(name, size, m.xid, m.langtag)
                 ELSE v2Header(name, size, flags, body.extoffset, m.xid, m.langtag))
                \o (IF HasPRList(name) THEN PutL16String(m.prlist) ELSE <<>>) \o body.data]
NetworkMessage(v, name, m, body) ==
    LET size == CalcBufferSize(v, name, m, Len(body.data))
        flags == (IF m.mcast THEN SLP_FLAG_MCAST ELSE 0) + (IF name = "SrvReg" THEN SLP_FLAG_FRESH ELSE 0)
        ext == IF body.extoffset = 0 THEN 0 ELSE body.extoffset + Len(m.langtag) + 14
    IN  [size |-> size, data |-> (IF v = 1 THEN v1Header(name, size, m.xid, m.langtag)
                 ELSE v2Header(name, size, flags, ext, m.xid, m.langtag))
                \o (IF HasPRList(name) THEN PutL16String(m.prlist) ELSE <<>>) \o body.data]

Body(data) == [data |-> data, extoffset |-> 0]

SrvRegBody(m) ==
    LET data == PutURLEntry(m.lifetime, m.url, m.auth) \o PutL16String(m.srvtype) \o PutL16String(m.scopelist)
                \o PutL16String(m.attrlist) \o PutAuth(m.auth)
    IN  IF m.pid = 0 THEN Body(data)
        ELSE [data |-> data \o PutUINT(REG_PID_EXP, 2) \o PutUINT(0, 3) \o PutUINT(m.pid, 4), extoffset |-> Len(data)]

SrvDeRegBody(m) == Body(PutL16String(m.scopelist) \o PutURLEntry(0, m.url, m.auth) \o PutL16String(<<>>))

SrvRqstBody(m) ==
    Body(PutL16String(m.srvtype) \o PutL16String(m.scopelist) \o PutL16String(m.predicate) \o PutL16String(m.spistr))

AttrRqstBody(v, m) ==
    Body(PutL16String(m.url) \o PutL16String(m.scopelist) \o PutL16String(m.taglist)
         \o (IF v = 1 THEN <<>> ELSE PutL16String(m.spistr)))

Asterisk == <<42>>
SrvTypeRqstBody(m) ==
    Body((IF m.namingauth = Asterisk THEN PutUINT(65535, 2) ELSE PutL16String(m.namingauth)) \o PutL16String(m.scopelist))

-----------------------------------------------------------------------------
(***************************************************************************)
(* The daemon.  A result of the database that came in an SLPv2 message is  *)
(* copied from there, opaque, with its lifetime now and its count of       *)
(* authentication blocks, which the parser had written a zero over.        *)
(***************************************************************************)
SrvRply(m) ==
    LET size == Len(m.langtag) + 18 + FoldLeft(LAMBDA n, e : n + Len(e.url) + 6, 0, m.entries)
    IN  [size |-> size, data |-> v2Header("SrvRply", size, 0, 0, m.xid, m.langtag) \o PutUINT(0, 2)
            \o PutUINT(Len(m.entries), 2) \o FlattenSeq([i \in DOMAIN m.entries |->
                    PutURLEntry(m.entries[i].lifetime, m.entries[i].url, m.entries[i].auth)])]

SrvAck(m) ==
    LET size == Len(m.langtag) + 16
    IN  [size |-> size, data |-> v2Header("SrvAck", size, 0, 0, m.xid, m.langtag) \o PutUINT(m.errorcode, 2)]

AttrRply(m) ==
    LET size == Len(m.langtag) + 19 + Len(m.attrlist)
    IN  [size |-> size, data |-> v2Header("AttrRply", size, 0, 0, m.xid, m.langtag) \o PutUINT(0, 2)
                                 \o PutL16String(m.attrlist) \o <<0>>]

SrvTypeRply(m) ==
    LET size == Len(m.langtag) + 18 + Len(m.srvtypelist)
    IN  [size |-> size, data |-> v2Header("SrvTypeRply", size, 0, 0, m.xid, m.langtag) \o PutUINT(0, 2)
                                 \o PutL16String(m.srvtypelist)]

\* The daemon's URL is its prefix with the address of the interface.
SAAdvert(m) ==
    LET size == Len(m.langtag) + 21 + Len(m.url) + Len(m.scopelist)
    IN  [size |-> size, data |-> v2Header("SAAdvert", size, 0, 0, m.xid, m.langtag) \o PutL16String(m.url)
                                 \o PutL16String(m.scopelist) \o PutUINT(0, 2) \o <<0>>]

DAAdvert(m) ==
    LET size == Len(m.langtag) + 29 + Len(m.url) + Len(m.scopelist)
    IN  [size |-> size, data |-> v2Header("DAAdvert", size, IF m.mcast THEN SLP_FLAG_MCAST ELSE 0, 0, m.xid, m.langtag)
            \o PutUINT(0, 2) \o PutUINT(m.bootstamp, 4) \o PutL16String(m.url) \o PutL16String(m.scopelist)
            \o PutUINT(0, 2) \o PutUINT(0, 2) \o <<0>>]

ServiceDirectoryAgent == <<115, 101, 114, 118, 105, 99, 101, 58>> \o DirectoryAgent
MakeActiveDiscoveryRqst(m) ==
    LET size == 47 + Len(m.langtag) + Len(m.prlist)
    IN  [size |-> size, data |-> v2Header("SrvRqst", size, IF m.mcast THEN SLP_FLAG_MCAST ELSE 0, 0, m.xid, m.langtag)
            \o PutL16String(m.prlist) \o PutL16String(ServiceDirectoryAgent) \o PutUINT(0, 2) \o PutUINT(0, 2) \o PutUINT(0, 2)]

\* From the registration as it has been parsed: its opaque URL entry.
MakeSrvderegFromSrvReg(b, r, xid) ==
    LET f == r.f
        e == f["urlentry"]
        lang == Text(b, f["header"].langtag)
        size == Len(lang) + 18 + e.opaque.len + f["scopelist"].len
    IN  [size |-> size, data |-> v2Header("SrvDeReg", size, 0, 0, xid, lang) \o PutL16String(Text(b, f["scopelist"]))
            \o Text(b, e.opaque) \o PutUINT(0, 2)]

v1AttrRply(m) ==
    LET size == 16 + Len(m.attrlist)
    IN  [size |-> size, data |-> v1Header("AttrRply", size, m.xid, m.langtag) \o PutUINT(0, 2) \o PutL16String(m.attrlist)]

v1DAAdvert(m) ==
    LET size == 18 + Len(m.url) + Len(m.scopelist)
    IN  [size |-> size, data |-> v1Header("DAAdvert", size, m.xid, m.langtag) \o PutUINT(0, 2)
                                 \o PutL16String(m.url) \o PutL16String(m.scopelist)]

\* Messages of agents of SLPv1, which is as RFC 2165 has them.
v1SrvRqst(m) ==
    LET pred == m.srvtype \o <<Slash>> \o m.scopelist \o <<Slash>> \o m.predicate \o <<Slash>>
        data == PutL16String(m.prlist) \o PutL16String(pred)
    IN  [size |-> 12 + Len(data), data |-> v1Header("SrvRqst", 12 + Len(data), m.xid, m.langtag) \o data]
v1SrvReg(m) ==
    LET attrs == <<40>> \o SCOPE \o <<61>> \o m.scopelist \o <<41>>
        data == PutUINT(m.lifetime, 2) \o PutL16String(m.url) \o PutL16String(IF m.scopelist = <<>> THEN <<>> ELSE attrs)
    IN  [size |-> 12 + Len(data), data |-> v1Header("SrvReg", 12 + Len(data), m.xid, m.langtag) \o data]

Written(writer, m) ==
    CASE writer = "SrvReg" -> NetworkMessage(2, "SrvReg", m, SrvRegBody(m))
      [] writer = "SrvDeReg" -> NetworkMessage(2, "SrvDeReg", m, SrvDeRegBody(m))
      [] writer = "SrvRqst" -> NetworkMessage(2, "SrvRqst", m, SrvRqstBody(m))
      [] writer = "AttrRqst" -> NetworkMessage(2, "AttrRqst", m, AttrRqstBody(2, m))
      [] writer = "SrvTypeRqst" -> NetworkMessage(2, "SrvTypeRqst", m, SrvTypeRqstBody(m))
      [] writer = "v1AttrRqst" -> NetworkMessage(1, "AttrRqst", m, AttrRqstBody(1, m))
      [] writer = "SrvRply" -> SrvRply(m)
      [] writer = "SrvAck" -> SrvAck(m)
      [] writer = "AttrRply" -> AttrRply(m)
      [] writer = "SrvTypeRply" -> SrvTypeRply(m)
      [] writer = "SAAdvert" -> SAAdvert(m)
      [] writer = "DAAdvert" -> DAAdvert(m)
      [] writer = "Discovery" -> MakeActiveDiscoveryRqst(m)
      [] writer = "v1AttrRply" -> v1AttrRply(m)
      [] writer = "v1DAAdvert" -> v1DAAdvert(m)
      [] writer = "v1SrvRqst" -> v1SrvRqst(m)
      [] writer = "v1SrvReg" -> v1SrvReg(m)

-----------------------------------------------------------------------------
(***************************************************************************)
(* A case is a message, how many bytes of it are lost at its end, and the  *)
(* byte behind it.  Its verdict: the message, the parse, and the second    *)
(* parse of the buffer as the first has left it.                           *)
(***************************************************************************)
Terminated(b, r) ==
    [data |-> [i \in DOMAIN b.data |-> IF i \in r.zeros THEN 0 ELSE b.data[i]],
     slack |-> IF Len(b.data) + 1 \in r.zeros THEN 0 ELSE b.slack]

Reread(w, b, r) == [size |-> w.size, written |-> Len(w.data), buffer |-> b, parse |-> r,
                    again |-> IF r.err = "" THEN ParseBuffer(Terminated(b, r)) ELSE r]
Read(w, b) == Reread(w, b, ParseBuffer(b))
Received(w, cut, slack) == Read(w, [data |-> SubSeq(w.data, 1, Len(w.data) - cut), slack |-> slack])
MessageVerdict(c) == Received(Written(c.writer, c.m), c.cut, c.slack)

Means(b, s) == IF s = ByDefault THEN DEFAULT ELSE IF s = AllAuthorities THEN Asterisk ELSE Text(b, s)

\* The fields a writer's message carries, the same in the message and in its parse.
Carried ==
    [SrvReg |-> {"srvtype", "scopelist", "attrlist"}, SrvDeReg |-> {"scopelist"},
     SrvRqst |-> {"prlist", "srvtype", "scopelist", "predicate", "spistr"},
     AttrRqst |-> {"prlist", "url", "scopelist", "taglist", "spistr"}, SrvTypeRqst |-> {"prlist", "namingauth", "scopelist"},
     v1AttrRqst |-> {"prlist", "url", "taglist"}, SrvRply |-> {}, SrvAck |-> {}, AttrRply |-> {"attrlist"},
     SrvTypeRply |-> {"srvtypelist"}, SAAdvert |-> {"url", "scopelist"}, DAAdvert |-> {"url", "scopelist"},
     Discovery |-> {"prlist"}, v1AttrRply |-> {"attrlist"}, v1DAAdvert |-> {},
     v1SrvRqst |-> {"prlist", "srvtype", "predicate"}, v1SrvReg |-> {"url"}]
Numbers == [SrvReg |-> {"pid"}, SrvAck |-> {"errorcode"}, DAAdvert |-> {"bootstamp"}]

SameEntry(b, e, meant) ==
    e.lifetime = meant.lifetime /\ Text(b, e.url) = meant.url /\ e.auths = IF meant.auth = <<>> THEN 0 ELSE 1

(* A whole message is accepted and says what was meant: every field its    *)
(* writer was given, the URL entries with their lifetimes and counts of    *)
(* authentication blocks, and the process to be watched, in an extension   *)
(* whose offset the library moves; the size in its header is that of the   *)
(* buffer.  An empty scope of SLPv1 is the default one                     *)
(* (libslp_network.c:752, slp_v2message.c:985, slp_v1message.c:119).       *)
SaysWhatWasMeant ==
    Judged("message") /\ case.cut = 0 =>
        LET v == verdict[1]
            f == v.parse.f
            m == case.m
        IN  /\ v.parse.err = "" /\ v.size = v.written /\ f["header"].length = v.written /\ f["header"].xid = m.xid
            /\ \A name \in Carried[case.writer] : Means(v.buffer, f[name]) = m[name]
            /\ case.writer \in DOMAIN Numbers =>
                    \A name \in Numbers[case.writer] : m[name] # 0 => f[name] = m[name]
            /\ case.writer \in {"v1SrvReg", "v1SrvRqst", "v1AttrRqst"} =>
                    Means(v.buffer, f["scopelist"]) = IF m.scopelist = <<>> THEN DEFAULT ELSE m.scopelist
            /\ case.writer = "SrvReg" => SameEntry(v.buffer, f["urlentry"], m)
            /\ case.writer = "SrvDeReg" => SameEntry(v.buffer, f["urlentry"], [m EXCEPT !.lifetime = 0])
            /\ case.writer = "SrvRply" =>
                    /\ Len(f["urlarray"]) = Len(m.entries)
                    /\ \A i \in DOMAIN m.entries : SameEntry(v.buffer, f["urlarray"][i], m.entries[i])

(* A message that was cut short is refused, unless all that it lacks is a  *)
(* count of authentication blocks and a zero happens to be there instead;  *)
(* whatever is accepted says what the whole message said                   *)
(* (slp_v2message.c:133).                                                  *)
CutsAreNoticed ==
    Judged("message") /\ case.cut > 0 /\ case.writer # "v1DAAdvert" /\ verdict[1].parse.err = "" =>
        LET b == verdict[1].buffer
            r == verdict[1].parse
        IN  /\ case.cut = 1 /\ case.slack = 0 /\ r.pos = Len(b.data) + 1
            /\ \A name \in Carried[case.writer] : Means(b, r.f[name]) = case.m[name]

(* Parsing "overwrites the first byte of the # of URL auths field, but     *)
(* it's okay because we've already read and stored it away"                *)
(* (slp_v2message.c:152): parsed again, the buffer, which the daemon keeps *)
(* and forwards to its DAs, is the same message.                           *)
ReadsTheSameAgain ==
    Judged("message") /\ verdict[1].parse.err = "" =>
        LET v == verdict[1] IN v.again.err = "" /\ v.again.f = v.parse.f

(* The deregistration slpd makes of a registration it keeps, for a DA that *)
(* is to forget it, is of that registration: it has its size, scopes and   *)
(* URL (slpd_knownda.c:312).                                               *)
DeregistersWhatWasRegistered ==
    Judged("message") /\ case.writer = "SrvReg" /\ case.cut = 0 /\ case.m.auth = <<>> /\ verdict[1].parse.err = "" =>
        LET dereg(v) == /\ v.size = v.written /\ v.parse.err = "" /\ v.parse.f["header"].fn = FunctionId("SrvDeReg")
                        /\ Text(v.buffer, v.parse.f["scopelist"]) = case.m.scopelist
                        /\ Text(v.buffer, v.parse.f["urlentry"].url) = case.m.url
        IN  dereg(Received(MakeSrvderegFromSrvReg(Terminated(verdict[1].buffer, verdict[1].parse), verdict[1].parse, 7), 0, 0))
=============================================================================
