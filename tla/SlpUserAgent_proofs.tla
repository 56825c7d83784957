------------------------ MODULE SlpUserAgent_proofs ------------------------
(***************************************************************************)
(* Proofs about SlpUserAgent, for any servers, scopes and calls, any       *)
(* number of transmissions, and any loss and duplication.                  *)
(***************************************************************************)
EXTENDS SlpUserAgent, SlpSequences

-----------------------------------------------------------------------------
(* The inductive invariant.                                                *)

Searching == call.op \in {"find", "sas"}

\* Where an engine runs, and what it runs for.
Single == {"send", "recv", "back"}
Mcast  == {"msend", "mrecv"}
Multi  == {"usend", "urecv"}

\* The engine that runs is the one its call came to, with its own locals.
Places ==
    /\ pc \in {"idle", "das", "sa", "path", "connect", "probe"} => x = Idle
    /\ pc \in Single => <<x.what, x.sock>> \in {<<"probe", "da">>, <<"find", "da">>,
                                               <<"find", "uc">>, <<"reg", "sa">>}
    /\ x.what = "reg" => x.to = Local
    /\ pc \in Mcast => x.what = "find" /\ x.sock = "mc" /\ (pc = "msend" => x.xmit < MaxXmit)
    /\ pc = "mrecv" => x.group < Groups
    /\ pc \in Multi => x.what = "find" /\ x.sock = "md" /\ x.xmit < MaxXmit
    /\ pc = "das" => call.op = "das"
    /\ pc = "sa" => call.op = "reg"
    /\ pc \in {"path", "connect", "probe"} \cup Mcast \cup Multi => Searching
    /\ pc \in Single => IF x.what = "reg" THEN call.op = "reg" ELSE Searching

\* The DA socket is for scopes its DA serves; a probed DA serves those asked.
DAServes ==
    /\ da.open => da.addr \in DA /\ da.scope \subseteq Scopes[da.addr]
    /\ pc = "probe" => ~da.open
    /\ x.sock = "da" => x.to \in DA
    /\ x.what = "probe" =>
         /\ ~da.open /\ da.addr = x.to /\ x.to \in DA
         /\ call.scopes \subseteq Scopes[x.to]

\* What carries the identifier of the exchange answers the call, and so does
\* what comes by the stream; it brings one answer to one request.
NetMine ==
    pc \in Single \cup Mcast \cup Multi =>
        \A m \in net : m.mine => m.asked = call.scopes /\ (m.sock = "da" => m.from \in DA)

OnStream == {m \in net : m.sock = "sa"}

TheAnswer == [sock |-> "sa", from |-> Local, asked |-> call.scopes, mine |-> TRUE]

StreamMine ==
    /\ OnStream # {} => pc \in {"recv", "back"} /\ x.what = "reg" /\ OnStream = {TheAnswer}
    /\ pc = "back" /\ x.what = "reg" /\ x.result = "ok" => OnStream = {}

\* What the user was told: nothing yet, URLs that may be followed by others, or
\* something after which there is nothing more.
Fresh == told = <<>> /\ found = {} /\ count = 0

GoesOn == told \in Seq(call.scopes) /\ IsInjective(told) /\ found = ToSet(told)

Sound(t) ==
    /\ t \in Seq(call.scopes \cup {NoMore}) /\ IsInjective(t)
    /\ \A i \in DOMAIN t : t[i] = NoMore => i = Len(t)

Closed(t) == t # <<>> /\ (t[Len(t)] = NoMore \/ Len(t) = call.wants)

Over == Sound(told) /\ Closed(told) /\ found = {} /\ count = 0

TheDaemons == <<IF call.scopes \subseteq Scopes[Local] THEN "ok" ELSE "refused">>

\* Before an engine hears an answer it has told nothing, and its result says
\* whether it has told all.
Heard ==
    /\ pc \in {"das", "sa", "path", "connect", "probe", "send", "recv"} => Fresh
    /\ pc \in {"send", "recv"} => x.result = "ok" /\ (x.what # "probe" => ~x.got)
    /\ pc = "back" /\ x.what = "probe" => Fresh
    /\ pc = "back" /\ x.what = "find" => IF x.result = "ok" THEN Over ELSE Fresh
    /\ pc = "back" /\ x.what = "reg" =>
         IF x.result = "ok" THEN told = TheDaemons /\ found = {} /\ count = 0 ELSE Fresh
    /\ pc \in Mcast \cup Multi => GoesOn /\ (~x.got => Fresh)
    /\ pc = "idle" =>
         /\ found = {} /\ count = 0
         /\ Searching => Sound(told)
         /\ call.op = "reg" => told = IF ret = "ok" THEN TheDaemons ELSE <<>>
         /\ ret \in {"timeout", "neterr", "noserver"} => told = <<>>

IInv == TypeOK /\ Places /\ DAServes /\ EveryScopeIsAsked /\ NetMine /\ StreamMine /\ Heard

-----------------------------------------------------------------------------
(* What the callback of SLPFindSrvs makes of an answer.                    *)

\* The callback may be told more.
StillOpen(h) ==
    /\ h.more = TRUE /\ h.count \in 0..MaxResults + 1
    /\ h.told \in Seq(call.scopes) /\ IsInjective(h.told) /\ h.found = ToSet(h.told)

\* It was told all, or the user has what it wants.
Ended(h) ==
    /\ h.more = FALSE /\ h.count = 0 /\ h.found = {}
    /\ Sound(h.told) /\ Closed(h.told)

\* The scopes of a call are scopes, and not what the last callback is told.
LEMMA CallProperties ==
    ASSUME call \in Calls
    PROVE  /\ call.scopes \subseteq Scope /\ call.scopes # {} /\ NoMore \notin call.scopes
           /\ call.op \in {"find", "sas", "das", "reg"} /\ call.wants \in Nat \ {0}
           /\ call.uc \in Server \cup {None}
  BY UserAgentAssumption DEF UserAgentAssumption

\* The last callback ends what is still open.
LEMMA LastCallEnds ==
    ASSUME call \in Calls, NEW h, StillOpen(h) \/ Ended(h)
    PROVE  Ended(LastCall(h))
<1>1. CASE Ended(h)
  BY <1>1 DEF Ended, LastCall
<1>2. CASE StillOpen(h)
  <2>1. h.more = TRUE /\ h.told \in Seq(call.scopes) /\ IsInjective(h.told)
    BY <1>2 DEF StillOpen
  <2>2. NoMore \notin ToSet(h.told) /\ NoMore \notin call.scopes
    BY <2>1, CallProperties, LenProperties DEF ToSet
  <2> DEFINE t == Append(h.told, NoMore)
  <2>3. /\ t \in Seq(call.scopes \cup {NoMore}) /\ t # <<>> /\ IsInjective(t)
        /\ Len(t) = Len(h.told) + 1 /\ t[Len(h.told) + 1] = NoMore
        /\ \A i \in 1..Len(h.told) : t[i] = h.told[i] /\ h.told[i] \in call.scopes
    <3>1. PICK r \in Seq(call.scopes) : r = h.told
      BY <2>1
    <3>2. IsInjective(r) /\ NoMore \notin ToSet(r)
      BY <2>1, <2>2, <3>1
    <3>3. Append(r, NoMore) \in Seq(call.scopes \cup {NoMore})
      BY <3>2, AppendNew, Zenon
    <3>4. IsInjective(Append(r, NoMore))
      BY <3>2, AppendNew, Zenon
    <3>5. \A i \in 1..Len(r) : Append(r, NoMore)[i] = r[i] /\ r[i] \in call.scopes
      BY <3>2, AppendNew
    <3>6. Append(r, NoMore)[Len(r) + 1] = NoMore /\ Len(Append(r, NoMore)) = Len(r) + 1
      BY <3>2, AppendNew, Zenon
    <3>7. Append(r, NoMore) # <<>>
      BY <3>6, LenProperties
    <3> QED
      BY <3>1, <3>3, <3>5, <3>6, <3>4, <3>7
  <2>4. DOMAIN t = 1..Len(t) /\ Len(h.told) \in Nat
    BY <2>1, <2>3, LenProperties
  <2> HIDE DEF t
  <2>5. Sound(t) /\ Closed(t)
    BY <2>2, <2>3, <2>4 DEF Sound, Closed
  <2>6. LastCall(h) = [told |-> t, found |-> {}, count |-> 0, more |-> FALSE]
    BY <2>1 DEF LastCall, t
  <2> QED
    BY <2>5, <2>6 DEF Ended
<1> QED
  BY <1>1, <1>2

\* One URL: it is told unless it was told before, and ends the telling when
\* it is the last the user wants or one result too many.
LEMMA CollateOne ==
    ASSUME call \in Calls, NEW h \in [told : Seq(call.scopes \cup {NoMore}), found : SUBSET Scope,
                                      count : 0..MaxResults + 1, more : BOOLEAN],
           StillOpen(h) \/ Ended(h), NEW u \in call.scopes
    PROVE  /\ Collate(h, u) \in [told : Seq(call.scopes \cup {NoMore}), found : SUBSET Scope,
                                 count : 0..MaxResults + 1, more : BOOLEAN]
           /\ StillOpen(Collate(h, u)) \/ Ended(Collate(h, u))
<1> DEFINE H == [told : Seq(call.scopes \cup {NoMore}), found : SUBSET Scope,
                 count : 0..MaxResults + 1, more : BOOLEAN]
<1>0. MaxResults \in Nat
  BY UserAgentAssumption DEF UserAgentAssumption
<1>1. CASE Ended(h)
  BY <1>1 DEF Ended, Collate
<1>2. CASE StillOpen(h)
  <2>1. /\ h.more = TRUE /\ h.told \in Seq(call.scopes) /\ IsInjective(h.told)
        /\ h.found = ToSet(h.told) /\ h.count \in 0..MaxResults + 1
    BY <1>2 DEF StillOpen
  <2>2. CASE h.count > MaxResults
    <3>1. Collate(h, u) = LastCall(h)
      BY <2>1, <2>2 DEF Collate, LastCall
    <3>2. Ended(LastCall(h))
      BY <1>2, LastCallEnds
    <3>3. LastCall(h) \in H
      BY <1>0, <2>1, <3>2 DEF LastCall, Ended, Sound
    <3> QED
      BY <3>1, <3>2, <3>3
  <2>3. CASE ~(h.count > MaxResults) /\ u \in h.found
    <3>1. Collate(h, u) = [h EXCEPT !.count = @ + 1]
      BY <2>1, <2>3 DEF Collate
    <3> QED
      BY <1>0, <2>1, <2>3, <3>1 DEF StillOpen
  <2>4. CASE ~(h.count > MaxResults) /\ u \notin h.found
    <3> DEFINE t == Append(h.told, u)
    <3>1. /\ t \in Seq(call.scopes \cup {u}) /\ t # <<>> /\ IsInjective(t)
          /\ Len(t) = Len(h.told) + 1 /\ ToSet(t) = h.found \cup {u}
      BY <2>1, <2>4, AppendNew
    <3>2. call.scopes \cup {u} = call.scopes /\ call.scopes \subseteq Scope
      BY CallProperties
    <3>3. t \in Seq(call.scopes) /\ ToSet(t) \subseteq call.scopes /\ NoMore \notin call.scopes
      BY <3>1, <3>2, CallProperties, LenProperties DEF ToSet
    <3>4. \A i \in DOMAIN t : t[i] # NoMore
      BY <3>3 DEF ToSet
    <3>5. t \in Seq(call.scopes \cup {NoMore})
      BY <3>3
    <3> HIDE DEF t
    <3>6. CASE Len(h.told) + 1 = call.wants
      <4>1. Collate(h, u) = [told |-> t, found |-> {}, count |-> 0, more |-> FALSE]
        BY <2>1, <2>4, <3>6 DEF Collate, t
      <4>2. Sound(t) /\ Closed(t)
        BY <3>1, <3>4, <3>5, <3>6 DEF Sound, Closed
      <4> QED
        BY <1>0, <4>1, <4>2, <3>5 DEF Ended
    <3>7. CASE Len(h.told) + 1 # call.wants
      <4>1. Collate(h, u) = [told |-> t, found |-> h.found \cup {u}, count |-> h.count + 1,
                             more |-> TRUE]
        BY <2>1, <2>4, <3>7 DEF Collate, t
      <4>2. h.found \cup {u} \in SUBSET Scope /\ h.count + 1 \in 0..MaxResults + 1
        BY <1>0, <2>1, <2>4, <3>2
      <4> QED
        BY <4>1, <4>2, <3>1, <3>3, <3>5 DEF StillOpen
    <3> QED
      BY <3>6, <3>7
  <2> QED
    BY <2>2, <2>3, <2>4
<1> QED
  BY <1>1, <1>2

\* The URLs of one reply, one after the other.
LEMMA ReplyProperties ==
    ASSUME TypeOK, GoesOn, NEW m, m.asked = call.scopes, m.from \in Server \cup {Local}
    PROVE  StillOpen(Reply(m)) \/ Ended(Reply(m))
<1> DEFINE H == [told : Seq(call.scopes \cup {NoMore}), found : SUBSET Scope,
                 count : 0..MaxResults + 1, more : BOOLEAN]
<1> DEFINE St == {h \in H : StillOpen(h) \/ Ended(h)}
<1> DEFINE base == [told |-> told, found |-> found, count |-> count, more |-> TRUE]
<1> DEFINE us == SetToSeq(m.asked \cap Scopes[m.from])
<1>0. call \in Calls
  BY DEF TypeOK
<1>1. us \in Seq(call.scopes)
  <2> DEFINE U == m.asked \cap Scopes[m.from]
  <2>1. IsFiniteSet(U)
    <3>1. U \subseteq Scope /\ IsFiniteSet(Scope)
      BY <1>0, CallProperties, UserAgentAssumption DEF UserAgentAssumption
    <3> QED
      BY <3>1, FS_Subset
  <2>2. \E f \in [1..Cardinality(U) -> U] : IsInjective(f)
    <3>1. PICK k \in Nat : ExistsBijection(1..k, U)
      BY <2>1, FS_NatBijection
    <3>2. Cardinality(U) = k
      BY <3>1, FS_CountingElements
    <3> QED
      BY <3>1, <3>2 DEF ExistsBijection, Bijection, Injection, IsInjective
  <2>3. us \in [1..Cardinality(U) -> U]
    BY <2>2 DEF SetToSeq
  <2>4. Cardinality(U) \in Nat /\ U \subseteq call.scopes
    BY <2>1, FS_CardinalityType
  <2>5. us \in [1..Cardinality(U) -> call.scopes]
    BY <2>3, <2>4
  <2> HIDE DEF us, U
  <2> QED
    BY <2>4, <2>5
<1> HIDE DEF us
<1> DEFINE n == Len(us)
<1> DEFINE step == [y \in St \X (1..n) |-> Collate(y[1], us[y[2]])]
<1>2. n \in Nat /\ DOMAIN us = 1..n /\ \A i \in 1..n : us[i] \in call.scopes
  BY <1>1, LenProperties
<1>3. step \in [St \X (1..n) -> St]
  <2> SUFFICES ASSUME NEW y \in St \X (1..n) PROVE Collate(y[1], us[y[2]]) \in St
    OBVIOUS
  <2>1. y[1] \in H /\ (StillOpen(y[1]) \/ Ended(y[1])) /\ us[y[2]] \in call.scopes
    BY <1>2
  <2> QED
    BY <1>0, <2>1, CollateOne
<1>4. base \in St
  <2>1. /\ told \in Seq(call.scopes) /\ IsInjective(told) /\ found = ToSet(told)
        /\ found \subseteq Scope /\ count \in 0..MaxResults + 1
    BY DEF TypeOK, GoesOn
  <2>2. told \in Seq(call.scopes \cup {NoMore})
    BY <2>1
  <2> QED
    BY <2>1, <2>2 DEF StillOpen
<1> DEFINE Eq(it) == it = [s \in SUBSET (1..n) |->
                 IF s = {} THEN base ELSE Collate(it[s \ {Max(s)}], us[Max(s)])]
<1>5. \E it : Eq(it)
  <2>1. PICK it \in [SUBSET (1..n) -> St] : FoldsWith(it, n, base, step)
    <3> HIDE DEF n, St, step, base
    <3> QED
      BY <1>2, <1>3, <1>4, FoldExists
  <2>2. \A s \in SUBSET (1..n) : s # {} => Max(s) \in 1..n /\ s \ {Max(s)} \in SUBSET (1..n)
    BY <1>2, LargestPosition
  <2>3. \A s \in SUBSET (1..n) :
              it[s] = IF s = {} THEN base ELSE Collate(it[s \ {Max(s)}], us[Max(s)])
    <3> HIDE DEF n, St, base
    <3> QED
      BY <2>1, <2>2 DEF FoldsWith
  <2> QED
    BY <2>1, <2>3
<1>6. Reply(m) = (CHOOSE it : Eq(it))[1..n]
  BY <1>2 DEF Reply, FoldLeft, MapThenFoldSet, us
<1>7. Eq(CHOOSE it : Eq(it))
  <2> HIDE DEF Eq
  <2> QED
    BY <1>5, Zenon
<1>8. PICK it : it = (CHOOSE f : Eq(f))
  OBVIOUS
<1>9. \A s \in SUBSET (1..n) :
        it[s] = IF s = {} THEN base ELSE Collate(it[s \ {Max(s)}], us[Max(s)])
  BY <1>7, <1>8, Zenon
<1> DEFINE P == {s \in SUBSET (1..n) : it[s] \in St}
<1>10. {} \in P
  BY <1>4, <1>9
<1>11. ASSUME NEW s \in SUBSET (1..n), s # {}, s \ {Max(s)} \in P PROVE s \in P
  <2>1. Max(s) \in 1..n /\ it[s \ {Max(s)}] \in St
    BY <1>2, <1>11, LargestPosition
  <2>2. Collate(it[s \ {Max(s)}], us[Max(s)]) \in St
    BY <1>0, <1>2, <2>1, CollateOne
  <2> QED
    BY <1>9, <1>11, <2>2
<1>12. \A s \in SUBSET (1..n) : s \in P
  <2> HIDE DEF P
  <2> QED
    BY <1>2, <1>10, <1>11, PositionsInduction
<1>13. it[1..n] \in St
  BY <1>12
<1> QED
  BY <1>6, <1>8, <1>13

\* DAs taken for the scopes left serve those that are not left any more.
LEMMA SpanningListProperties ==
    ASSUME TypeOK
    PROVE  /\ SpanningList \in SUBSET DA
           /\ SpanningList # {} => call.scopes \subseteq UNION {Scopes[d] : d \in SpanningList}
<1> DEFINE Covers(r) == call.scopes \subseteq r.left \cup UNION {Scopes[d] : d \in r.das}
<1> DEFINE St == {r \in [left : SUBSET Scope, das : SUBSET DA] : Covers(r)}
<1> DEFINE base == [left |-> call.scopes, das |-> {}]
<1> DEFINE n == Len(cache)
<1> DEFINE step == [y \in St \X (1..n) |-> Spanned(y[1], cache[y[2]])]
<1>1. ASSUME NEW r \in St, NEW d \in DA PROVE Spanned(r, d) \in St
  <2>1. Scopes[d] \subseteq Scope
    BY UserAgentAssumption DEF UserAgentAssumption, Server
  <2>2. CASE Scopes[d] \cap r.left = {}
    BY <2>2 DEF Spanned
  <2>3. CASE Scopes[d] \cap r.left # {}
    <3> DEFINE q == [left |-> r.left \ Scopes[d], das |-> r.das \cup {d}]
    <3>1. Spanned(r, d) = q
      BY <2>3 DEF Spanned
    <3>2. UNION {Scopes[e] : e \in q.das} = Scopes[d] \cup UNION {Scopes[e] : e \in r.das}
      OBVIOUS
    <3>3. Covers(q) /\ q \in [left : SUBSET Scope, das : SUBSET DA]
      BY <2>1, <3>2
    <3> QED
      BY <3>1, <3>3
  <2> QED
    BY <2>2, <2>3
<1>2. n \in Nat /\ DOMAIN cache = 1..n /\ \A i \in 1..n : cache[i] \in DA
  BY LenProperties DEF TypeOK
<1>3. step \in [St \X (1..n) -> St]
  <2> SUFFICES ASSUME NEW y \in St \X (1..n) PROVE Spanned(y[1], cache[y[2]]) \in St
    OBVIOUS
  <2>1. y[1] \in St /\ cache[y[2]] \in DA
    BY <1>2
  <2> HIDE DEF St
  <2> QED
    BY <1>1, <2>1
<1>4. base \in St
  BY CallProperties DEF TypeOK
<1> DEFINE Eq(it) == it = [s \in SUBSET (1..n) |->
                 IF s = {} THEN base ELSE Spanned(it[s \ {Max(s)}], cache[Max(s)])]
<1>5. \E it : Eq(it)
  <2>1. PICK it \in [SUBSET (1..n) -> St] : FoldsWith(it, n, base, step)
    <3> HIDE DEF n, St, step, base
    <3> QED
      BY <1>2, <1>3, <1>4, FoldExists
  <2>2. \A s \in SUBSET (1..n) : s # {} => Max(s) \in 1..n /\ s \ {Max(s)} \in SUBSET (1..n)
    BY <1>2, LargestPosition
  <2>3. \A s \in SUBSET (1..n) :
              it[s] = IF s = {} THEN base ELSE Spanned(it[s \ {Max(s)}], cache[Max(s)])
    <3> HIDE DEF n, St, base
    <3> QED
      BY <2>1, <2>2 DEF FoldsWith
  <2> QED
    BY <2>1, <2>3
<1> DEFINE last == FoldLeft(Spanned, base, cache)
<1>6. last = (CHOOSE it : Eq(it))[1..n]
  BY <1>2 DEF FoldLeft, MapThenFoldSet
<1>7. Eq(CHOOSE it : Eq(it))
  <2> HIDE DEF Eq
  <2> QED
    BY <1>5, Zenon
<1>8. PICK it : it = (CHOOSE f : Eq(f))
  OBVIOUS
<1>9. \A s \in SUBSET (1..n) :
        it[s] = IF s = {} THEN base ELSE Spanned(it[s \ {Max(s)}], cache[Max(s)])
  BY <1>7, <1>8, Zenon
<1> DEFINE P == {s \in SUBSET (1..n) : it[s] \in St}
<1>10. {} \in P
  BY <1>4, <1>9
<1>11. ASSUME NEW s \in SUBSET (1..n), s # {}, s \ {Max(s)} \in P PROVE s \in P
  <2>1. Max(s) \in 1..n /\ it[s \ {Max(s)}] \in St
    BY <1>2, <1>11, LargestPosition
  <2>2. Spanned(it[s \ {Max(s)}], cache[Max(s)]) \in St
    <3> HIDE DEF St
    <3> QED
      BY <1>1, <1>2, <2>1
  <2> QED
    BY <1>9, <1>11, <2>2
<1>12. \A s \in SUBSET (1..n) : s \in P
  <2> HIDE DEF P
  <2> QED
    BY <1>2, <1>10, <1>11, PositionsInduction
<1>13. last \in St
  BY <1>6, <1>8, <1>12
<1>14. SpanningList = IF last.left = {} THEN last.das ELSE {}
  BY DEF SpanningList
<1> HIDE DEF last
<1> QED
  BY <1>13, <1>14

-----------------------------------------------------------------------------
(* Parts of steps.                                                         *)

\* The locals with which the engines begin.
LEMMA ExchangeProperties ==
    ASSUME NEW t \in Server \cup {Local, None}
    PROVE  /\ Exchange("find", "da", t) \in Locals /\ Exchange("find", "uc", t) \in Locals
           /\ Exchange("find", "mc", t) \in Locals /\ Exchange("probe", "da", t) \in Locals
           /\ Exchange("reg", "sa", t) \in Locals
<1>1. 0 \in 0..MaxXmit /\ 0 \in 0..Groups
  BY UserAgentAssumption DEF UserAgentAssumption
<1>2. [d \in DA |-> "none"] \in
        [DA -> {"none", "udp", "connect", "receive", "complete", "failed"}]
  OBVIOUS
<1> QED
  BY <1>1, <1>2 DEF Exchange, Locals

\* The locals with which NetworkMultiUcastRqstRply begins.
LEMMA MultiLocals ==
    ASSUME NEW c \in [DA -> {"none", "udp"}]
    PROVE  [Exchange("find", "md", None) EXCEPT !.conn = c] \in Locals
<1>1. 0 \in 0..MaxXmit /\ 0 \in 0..Groups
  BY UserAgentAssumption DEF UserAgentAssumption
<1>2. c \in [DA -> {"none", "udp", "connect", "receive", "complete", "failed"}]
  OBVIOUS
<1> QED
  BY <1>1, <1>2 DEF Exchange, Locals

\* The locals when no engine runs.
LEMMA IdleProperties == Idle \in Locals /\ Idle.what = "none" /\ Idle.sock = "none"
<1>1. Exchange("none", "none", None) \in Locals
  BY UserAgentAssumption DEF UserAgentAssumption, Exchange, Locals
<1> QED
  BY <1>1 DEF Idle, Exchange

\* Under a new identifier the messages are where they were, and nobody's.
LEMMA StaleProperties ==
    ASSUME NEW n \in SUBSET Message
    PROVE  /\ Stale(n) \in SUBSET Message
           /\ \A m \in Stale(n) : m.mine = FALSE
           /\ \A s : (\A m \in n : m.sock # s) => (\A m \in Stale(n) : m.sock # s)
  BY DEF Stale, Message

\* An answer to a transmission.
LEMMA AnswersProperties ==
    ASSUME NEW s, NEW agents, NEW new \in Answers(s, agents)
    PROVE  new \subseteq [sock : {s}, from : agents, asked : {call.scopes}, mine : {TRUE}]
<1>1. PICK who \in SUBSET agents :
        new = {[sock |-> s, from |-> a, asked |-> call.scopes, mine |-> TRUE] : a \in who}
  BY DEF Answers
<1>2. ASSUME NEW m \in new
      PROVE  m \in [sock : {s}, from : agents, asked : {call.scopes}, mine : {TRUE}]
  <2>1. PICK a \in who : m = [sock |-> s, from |-> a, asked |-> call.scopes, mine |-> TRUE]
    BY <1>1
  <2> QED
    BY <2>1
<1> QED
  BY <1>2

\* A message received leaves no message that was not there.
LEMMA TakenProperties ==
    ASSUME NEW m, Taken(m)
    PROVE  net' \subseteq net
  BY DEF Taken, Kept

\* What the cache is filled with.
LEMMA DiscoverProperties ==
    ASSUME Discover
    PROVE  cache' \in Seq(DA) /\ IsInjective(cache')
<1>1. PICK s \in SUBSET DA : cache' \in SetToSeqs(s)
  BY DEF Discover, SetToAllKPermutations
<1>2. Cardinality(s) \in Nat
  BY FS_Subset, FS_CardinalityType, UserAgentAssumption DEF UserAgentAssumption
<1>3. cache' \in [1..Cardinality(s) -> s] /\ IsInjective(cache')
  BY <1>1 DEF SetToSeqs, IsInjective
<1>4. cache' \in [1..Cardinality(s) -> DA]
  BY <1>3
<1> QED
  BY <1>2, <1>3, <1>4

\* A DA taken out, and one put at the end.
LEMMA CacheProperties ==
    ASSUME cache \in Seq(DA), IsInjective(cache), NEW d
    PROVE  /\ KnownDABadDA(d) => cache' \in Seq(DA) /\ IsInjective(cache')
           /\ d \in DA /\ KnownDAAdd(d) => cache' \in Seq(DA) /\ IsInjective(cache')
<1>1. ASSUME KnownDABadDA(d) PROVE cache' \in Seq(DA) /\ IsInjective(cache')
  BY <1>1, RemoveFirstProperties DEF KnownDABadDA
<1>2. ASSUME d \in DA, KnownDAAdd(d) PROVE cache' \in Seq(DA) /\ IsInjective(cache')
  <2> DEFINE r == RemoveFirst(cache, d)
  <2>1. r \in Seq(DA) /\ IsInjective(r) /\ d \notin ToSet(r)
    BY RemoveFirstProperties
  <2>2. cache' = Append(r, d)
    BY <1>2 DEF KnownDAAdd
  <2> HIDE DEF r
  <2>3. Append(r, d) \in Seq(DA \cup {d}) /\ IsInjective(Append(r, d))
    BY <2>1, AppendNew
  <2>4. DA \cup {d} = DA
    BY <1>2
  <2> QED
    BY <2>2, <2>3, <2>4
<1> QED
  BY <1>1, <1>2

\* What was told stays told; what is told by an answer.
LEMMA SilentKeeps ==
    ASSUME UNCHANGED <<told, found, count, call>>
    PROVE  /\ Fresh' = Fresh /\ GoesOn' = GoesOn /\ Over' = Over
           /\ TheDaemons' = TheDaemons /\ Sound(told)' = Sound(told)
           /\ Searching' = Searching
  BY DEF Fresh, GoesOn, Over, TheDaemons, Sound, Closed, Searching

\* What the user was told by a callback that goes on, or that ended.
LEMMA TellingProperties ==
    ASSUME TypeOK, NEW h, Telling(h), UNCHANGED call
    PROVE  /\ Ended(h) => Over' /\ found' \subseteq Scope /\ count' \in 0..MaxResults + 1
           /\ StillOpen(h) => GoesOn' /\ found' \subseteq Scope /\ count' \in 0..MaxResults + 1
<1>0. MaxResults \in Nat /\ call.scopes \subseteq Scope
  BY CallProperties, UserAgentAssumption DEF UserAgentAssumption, TypeOK
<1>1. Sound(h.told) /\ Closed(h.told) /\ told' = h.told => Sound(told)' /\ Closed(told)'
  BY DEF Sound, Closed
<1>2. ASSUME Ended(h) PROVE Over' /\ found' \subseteq Scope /\ count' \in 0..MaxResults + 1
  BY <1>0, <1>1, <1>2 DEF Ended, Over, Telling
<1>3. ASSUME StillOpen(h)
      PROVE  GoesOn' /\ found' \subseteq Scope /\ count' \in 0..MaxResults + 1
  <2>1. told' \in Seq(call.scopes) /\ IsInjective(told') /\ found' = ToSet(told')
    BY <1>3 DEF StillOpen, Telling
  <2>2. found' \subseteq call.scopes
    BY <2>1, LenProperties DEF ToSet
  <2> QED
    BY <1>0, <1>3, <2>1, <2>2 DEF GoesOn, StillOpen, Telling
<1> QED
  BY <1>2, <1>3

\* Nothing told may go on, and so may what has gone on so far.
LEMMA HeardStillOpen ==
    ASSUME TypeOK, GoesOn
    PROVE  StillOpen([told |-> told, found |-> found, count |-> count, more |-> TRUE])
  BY DEF StillOpen, GoesOn, TypeOK

\* A user that was told nothing may be told more.
LEMMA FreshGoesOn == Fresh => GoesOn
  BY DEF Fresh, GoesOn, IsInjective, ToSet

\* A period of the multicast engine ends: its sockets are closed, and it goes on
\* with the next period or address.
PeriodEnded ==
    /\ pc' = "msend" /\ net' = Without(net, "mc") /\ ret' = ret
    /\ x' \in Locals /\ x'.what = x.what /\ x'.sock = x.sock /\ x'.to = x.to
    /\ x'.got = x.got /\ x'.xmit < MaxXmit

\* PeriodEnds leaves the locals of the multicast engine in order.
LEMMA PeriodProperties ==
    ASSUME TypeOK, Places, pc = "mrecv", NEW e \in {"timeout", "neterr"}, PeriodEnds(e)
    PROVE  PeriodEnded
<1>1. PICK done \in BOOLEAN :
        /\ x' = [x EXCEPT !.result = e, !.group = IF done THEN @ + 1 ELSE @,
                          !.xmit = IF done THEN 0 ELSE @]
        /\ x.xmit = MaxXmit => done
  BY DEF PeriodEnds, Go
<1>2. x \in Locals /\ MaxXmit \in Nat \ {0} /\ Groups \in Nat /\ x.group < Groups
  BY UserAgentAssumption DEF TypeOK, Places, UserAgentAssumption
<1>3. /\ (IF done THEN x.group + 1 ELSE x.group) \in 0..Groups
      /\ (IF done THEN 0 ELSE x.xmit) \in 0..MaxXmit
      /\ (IF done THEN 0 ELSE x.xmit) < MaxXmit
  BY <1>1, <1>2 DEF Locals
<1>4. /\ x' \in Locals /\ x'.what = x.what /\ x'.sock = x.sock /\ x'.to = x.to
      /\ x'.got = x.got /\ x'.xmit < MaxXmit
  BY <1>1, <1>2, <1>3 DEF Locals
<1> QED
  BY <1>4 DEF PeriodEnded, PeriodEnds, Go

\* An engine that asks many goes on, with what it told so far,
Continues ==
    /\ x' \in Locals /\ x'.what = x.what /\ x'.sock = x.sock
    /\ \/ pc \in Mcast /\ pc' = "mrecv" /\ x'.group < Groups
       \/ pc \in Mcast /\ pc' = "msend" /\ x'.xmit < MaxXmit
       \/ /\ pc \in Multi /\ pc' \in Multi /\ x'.xmit < MaxXmit
          /\ \A d \in DA : x'.conn[d] = "none" => x.conn[d] = "none"
    /\ GoesOn' /\ (~x'.got => Fresh')

\* or returns, having told all there is or nothing.
Returns == pc' = "idle" /\ x' = Idle /\ ((ret' = "ok" /\ Over') \/ Fresh')

\* The messages left are those of the call, none of them on the stream.
Ours(n) ==
    /\ n \subseteq Message
    /\ \A m \in n : /\ m.sock # "sa"
                    /\ m.mine => m.asked = call.scopes /\ (m.sock = "da" => m.from \in DA)

\* So they are wherever one of these engines runs.
LEMMA OursHere ==
    ASSUME IInv, pc \in Mcast \cup Multi
    PROVE  Ours(net) /\ Searching
  BY DEF IInv, TypeOK, Places, NetMine, StreamMine, OnStream, Ours, Single, Mcast, Multi

\* The steps of these engines keep the invariant.
LEMMA ManyKeep ==
    ASSUME IInv, pc \in Mcast \cup Multi, Continues \/ Returns, Ours(net'),
           found' \subseteq Scope, count' \in 0..MaxResults + 1,
           UNCHANGED <<ipv4, up, cache, quiet, da, sa, call, calls>>
    PROVE  IInv'
<1> USE DEF IInv
<1>1. Searching /\ Searching' /\ x.what = "find" /\ x.sock \in {"mc", "md"}
  BY OursHere DEF Places, Mcast, Multi, Searching
<1>2. CASE Continues
  <2>1. TypeOK'
    BY <1>2 DEF TypeOK, Ours, Continues, Mcast, Multi
  <2>2. Places'
    BY <1>1, <1>2 DEF Places, Continues, Single, Mcast, Multi
  <2>3. DAServes'
    BY <1>1, <1>2 DEF DAServes, Continues, Mcast, Multi
  <2>4. EveryScopeIsAsked'
    BY <1>1, <1>2 DEF Places, EveryScopeIsAsked, In, Continues, Mcast, Multi
  <2>5. NetMine' /\ StreamMine'
    BY <1>1, <1>2 DEF NetMine, Ours, Continues, StreamMine, OnStream, Mcast, Multi
  <2>6. Heard'
    BY <1>1, <1>2 DEF Heard, Continues, Mcast, Multi
  <2> QED
    BY <2>1, <2>2, <2>3, <2>4, <2>5, <2>6
<1>3. CASE Returns
  <2>0. x' \in Locals /\ x'.what = "none" /\ x'.sock = "none"
    BY <1>3, IdleProperties DEF Returns
  <2>1. TypeOK'
    BY <1>3, <2>0 DEF TypeOK, Ours, Returns
  <2>2. Places'
    BY <1>1, <1>3, <2>0 DEF Places, Returns, Single, Mcast, Multi
  <2>3. DAServes'
    BY <1>1, <1>3, <2>0 DEF DAServes, Returns
  <2>4. EveryScopeIsAsked'
    BY <2>0 DEF EveryScopeIsAsked
  <2>5. NetMine' /\ StreamMine'
    BY <1>1, <1>3, <2>0
    DEF NetMine, Ours, Returns, StreamMine, OnStream, Single, Mcast, Multi
  <2>6. Heard'
    <3>1. Over' => Sound(told)' /\ found' = {} /\ count' = 0
      BY DEF Over
    <3>2. Fresh' => Sound(told)' /\ told' = <<>> /\ found' = {} /\ count' = 0
      BY DEF Fresh, Sound, IsInjective
    <3>3. call'.op # "reg"
      BY <1>1 DEF Searching
    <3> QED
      BY <1>1, <1>3, <3>1, <3>2, <3>3 DEF Heard, Returns, Mcast, Multi
  <2> QED
    BY <2>1, <2>2, <2>3, <2>4, <2>5, <2>6
<1> QED
  BY <1>2, <1>3

\* Where an answer is told, the user may be told more unless it was the end.
LEMMA AnswerTold ==
    ASSUME TypeOK, GoesOn, NEW m, m.asked = call.scopes, m.from \in Server \cup {Local},
           Telling(Reply(m)), UNCHANGED call
    PROVE  /\ Reply(m).more = TRUE => GoesOn'
           /\ Reply(m).more # TRUE => Over'
           /\ found' \subseteq Scope /\ count' \in 0..MaxResults + 1
<1>1. StillOpen(Reply(m)) \/ Ended(Reply(m))
  BY ReplyProperties
<1> QED
  BY <1>1, TellingProperties DEF StillOpen, Ended

\* The last callback of an engine.
LEMMA LastTold ==
    ASSUME TypeOK, GoesOn, UNCHANGED call,
           Telling(LastCall([told |-> told, found |-> found, count |-> count, more |-> TRUE]))
    PROVE  Over' /\ found' \subseteq Scope /\ count' \in 0..MaxResults + 1
<1> DEFINE h == [told |-> told, found |-> found, count |-> count, more |-> TRUE]
<1>1. Ended(LastCall(h))
  BY HeardStillOpen, LastCallEnds DEF TypeOK
<1> QED
  BY <1>1, TellingProperties

-----------------------------------------------------------------------------
(* The choice of whom to ask.                                              *)

\* KnownDAProcessSrvRqst fills the cache, and tells what is in it.
LEMMA KnownDAProcessSrvRqstKeeps ==
    ASSUME IInv, KnownDAProcessSrvRqst, UNCHANGED <<world, dups>>
    PROVE  IInv'
<1> USE DEF IInv
<1>1. /\ pc = "das" /\ pc' = "idle" /\ ret' = "ok" /\ x' = Idle
      /\ Discover
      /\ UNCHANGED <<ipv4, up, switches, quiet, da, sa, found, count, call, calls, net,
                     dups>>
  BY DEF KnownDAProcessSrvRqst, Return, known, socks, heard, user, world
<1>2. cache' \in Seq(DA) /\ IsInjective(cache')
  BY <1>1, DiscoverProperties
<1>3. call.op = "das" /\ Fresh
  BY <1>1 DEF Places, Heard
<1>4. x' \in Locals /\ x'.what = "none" /\ x'.sock = "none"
  BY <1>1, IdleProperties
<1>5. TypeOK'
  BY <1>1, <1>2, <1>3, <1>4 DEF TypeOK
<1>6. Places'
  BY <1>1, <1>2, <1>3, <1>4 DEF Places, Searching, Single, Mcast, Multi
<1>7. DAServes'
  BY <1>1, <1>2, <1>3, <1>4 DEF TypeOK, Places, DAServes, Single, Mcast, Multi
<1>8. EveryScopeIsAsked'
  BY <1>1, <1>2, <1>3, <1>4
  DEF Places, DAServes, EveryScopeIsAsked, In, Single, Mcast, Multi
<1>9. NetMine'
  BY <1>1, <1>2, <1>3, <1>4 DEF Places, NetMine, Single, Mcast, Multi
<1>10. StreamMine'
  BY <1>1, <1>2, <1>3, <1>4
  DEF Places, StreamMine, OnStream, TheAnswer, Single, Mcast, Multi
<1>11. Heard'
  BY <1>1, <1>2, <1>3, <1>4 DEF Places, Heard, Single, Mcast, Multi, Fresh, Searching
<1> QED
  BY <1>5, <1>6, <1>7, <1>8, <1>9, <1>10, <1>11

\* ProcessSrvRqst: the DAs of the spanning list serve every scope asked.
LEMMA ProcessSrvRqstKeeps ==
    ASSUME IInv, ProcessSrvRqst, UNCHANGED <<world, dups>>
    PROVE  IInv'
<1> USE DEF IInv
<1>1. /\ pc = "path"
      /\ \/ pc' = "send" /\ call.uc # None /\ x' = Exchange("find", "uc", call.uc) /\ net' = Stale(net)
         \/ /\ pc' = "usend" /\ SpanningList # {} /\ net' = Stale(net)
            /\ x' = [Exchange("find", "md", None) EXCEPT
                       !.conn = [d \in DA |-> IF d \in SpanningList THEN "udp" ELSE "none"]]
         \/ pc' = "msend" /\ x' = Exchange("find", "mc", None) /\ net' = Stale(net)
         \/ pc' = "connect" /\ x' = Idle /\ net' = net
      /\ UNCHANGED <<ipv4, up, switches, cache, quiet, da, sa, told, found, count, call,
                     calls, ret, dups>>
  BY DEF ProcessSrvRqst, Go, known, socks, heard, user, world
<1>2. Searching /\ Fresh
  BY <1>1 DEF Places, Heard
<1>3. x' \in Locals
  <2>1. call.uc \in Server \cup {Local, None} /\ None \in Server \cup {Local, None}
    BY CallProperties DEF TypeOK
  <2>2. [d \in DA |-> IF d \in SpanningList THEN "udp" ELSE "none"] \in [DA -> {"none", "udp"}]
    OBVIOUS
  <2> QED
    BY <1>1, <2>1, <2>2, ExchangeProperties, MultiLocals, IdleProperties
<1>4. /\ x'.result = "ok" /\ x'.got = FALSE /\ x'.xmit < MaxXmit
      /\ x'.what # "probe" /\ x'.what # "reg" /\ (pc' = "connect" => x'.what = "none")
      /\ pc' \in {"send", "usend", "msend"} => x'.what = "find"
      /\ pc' = "send" => x'.sock = "uc"
      /\ pc' = "usend" => /\ x'.sock = "md"
                          /\ x'.conn = [d \in DA |-> IF d \in SpanningList THEN "udp" ELSE "none"]
      /\ pc' = "msend" => x'.sock = "mc"
  BY <1>1, UserAgentAssumption DEF Exchange, Idle, UserAgentAssumption
<1>5. /\ net' \subseteq Message
      /\ pc' # "connect" => \A m \in net' : m.mine = FALSE
      /\ OnStream' = {}
  BY <1>1, StaleProperties DEF TypeOK, StreamMine, OnStream
<1>6. TypeOK'
  BY <1>1, <1>2, <1>3, <1>4, <1>5 DEF TypeOK
<1>7. Places'
  BY <1>1, <1>2, <1>4, <1>5 DEF Places, Searching, Single, Mcast, Multi
<1>8. DAServes'
  BY <1>1, <1>2, <1>4, <1>5 DEF TypeOK, Places, DAServes, Single, Mcast, Multi
<1>9. EveryScopeIsAsked'
  BY <1>1, <1>2, <1>4, <1>5, SpanningListProperties
  DEF Places, DAServes, EveryScopeIsAsked, In, Single, Mcast, Multi, TypeOK
<1>10. NetMine'
  BY <1>1, <1>2, <1>4, <1>5 DEF Places, NetMine, Single, Mcast, Multi
<1>11. StreamMine'
  BY <1>1, <1>2, <1>4, <1>5
  DEF Places, StreamMine, OnStream, TheAnswer, Single, Mcast, Multi
<1>12. Heard'
  BY <1>1, <1>2, <1>4, <1>5, FreshGoesOn, SilentKeeps
  DEF Places, Heard, Single, Mcast, Multi
<1> QED
  BY <1>6, <1>7, <1>8, <1>9, <1>10, <1>11, <1>12

\* NetworkConnectToDA: the DA of a socket used again serves the scopes asked, as
\* the socket was opened for at least these.
LEMMA NetworkConnectToDAKeeps ==
    ASSUME IInv, NetworkConnectToDA, UNCHANGED <<world, dups>>
    PROVE  IInv'
<1> USE DEF IInv
<1>1. /\ pc = "connect"
      /\ \/ /\ Reusable /\ pc' = "send" /\ x' = Exchange("find", "da", da.addr)
            /\ net' = Stale(net) /\ da' = da
         \/ /\ da' = [da EXCEPT !.open = FALSE] /\ net' = Without(net, "da")
            /\ pc' = "probe" /\ x' = Idle
      /\ UNCHANGED <<ipv4, up, switches, cache, quiet, sa, told, found, count, call, calls,
                     ret, dups>>
  BY DEF NetworkConnectToDA, Go, known, socks, heard, user, world
<1>2. Searching /\ Fresh /\ (da.open => da.addr \in DA /\ da.scope \subseteq Scopes[da.addr])
  BY <1>1 DEF Places, Heard, DAServes
<1>3. x' \in Locals
  <2>1. Reusable => da.addr \in Server \cup {Local, None}
    BY <1>2 DEF Reusable, Server
  <2> QED
    BY <1>1, <2>1, ExchangeProperties, IdleProperties
<1>4. /\ x'.result = "ok" /\ x'.got = FALSE
      /\ x'.what = (IF pc' = "send" THEN "find" ELSE "none") /\ (pc' = "send" => x'.sock = "da")
      /\ pc' = "send" => x'.to = da.addr /\ da.addr \in DA /\ call.scopes \subseteq Scopes[da.addr]
  BY <1>1, <1>2 DEF Reusable, Exchange, Idle
<1>5. /\ net' \subseteq Message
      /\ pc' = "send" => \A m \in net' : m.mine = FALSE
      /\ OnStream' = {}
  BY <1>1, StaleProperties DEF TypeOK, StreamMine, OnStream, Without
<1>6. TypeOK'
  BY <1>1, <1>2, <1>3, <1>4, <1>5 DEF TypeOK
<1>7. Places'
  BY <1>1, <1>2, <1>4, <1>5 DEF Places, Searching, Single, Mcast, Multi
<1>8. DAServes'
  BY <1>1, <1>2, <1>4, <1>5 DEF TypeOK, Places, DAServes, Single, Mcast, Multi
<1>9. EveryScopeIsAsked'
  BY <1>1, <1>2, <1>4, <1>5
  DEF Places, DAServes, EveryScopeIsAsked, In, Single, Mcast, Multi, TypeOK
<1>10. NetMine'
  BY <1>1, <1>2, <1>4, <1>5 DEF Places, NetMine, Single, Mcast, Multi
<1>11. StreamMine'
  BY <1>1, <1>2, <1>4, <1>5
  DEF Places, StreamMine, OnStream, TheAnswer, Single, Mcast, Multi
<1>12. Heard'
  BY <1>1, <1>2, <1>4, <1>5, SilentKeeps DEF Places, Heard, Single, Mcast, Multi
<1> QED
  BY <1>6, <1>7, <1>8, <1>9, <1>10, <1>11, <1>12

\* KnownDAConnect probes a DA of the cache that serves all the scopes.
LEMMA KnownDAConnectKeeps ==
    ASSUME IInv, KnownDAConnect, UNCHANGED <<world, dups>>
    PROVE  IInv'
<1> USE DEF IInv
<1>1. /\ pc = "probe"
      /\ \/ /\ Serving # {} /\ da' = [da EXCEPT !.addr = cache[Min(Serving)]]
            /\ pc' = "send" /\ x' = Exchange("probe", "da", cache[Min(Serving)])
         \/ da' = [da EXCEPT !.addr = None] /\ pc' = "msend" /\ x' = Exchange("find", "mc", None)
      /\ net' = Stale(net)
      /\ UNCHANGED <<ipv4, up, switches, cache, quiet, sa, told, found, count, call, calls,
                     ret, dups>>
  BY DEF KnownDAConnect, Go, known, socks, heard, user, world
<1>2. Searching /\ Fresh /\ ~da.open
  BY <1>1 DEF Places, Heard, DAServes
<1>3. Serving # {} => /\ cache[Min(Serving)] \in DA
                      /\ call.scopes \subseteq Scopes[cache[Min(Serving)]]
  <2>1. DOMAIN cache = 1..Len(cache) /\ Len(cache) \in Nat /\ \A i \in 1..Len(cache) : cache[i] \in DA
    BY LenProperties DEF TypeOK
  <2>2. Serving \in SUBSET Nat /\ Serving \subseteq DOMAIN cache
    BY <2>1 DEF Serving
  <2>3. Serving # {} => Min(Serving) \in Serving
    BY <2>2, LeastNatural
  <2> QED
    BY <2>1, <2>2, <2>3 DEF Serving
<1>4. x' \in Locals
  <2>1. Serving # {} => cache[Min(Serving)] \in Server \cup {Local, None}
    BY <1>3 DEF Server
  <2>2. None \in Server \cup {Local, None}
    OBVIOUS
  <2> QED
    BY <1>1, <2>1, <2>2, ExchangeProperties
<1>5. da' \in [open : BOOLEAN, addr : DA \cup {None}, scope : SUBSET Scope] /\ ~da'.open
  BY <1>1, <1>2, <1>3 DEF TypeOK
<1>6. /\ x'.result = "ok" /\ x'.got = FALSE /\ x'.xmit = 0 /\ 0 < MaxXmit
      /\ x'.what = (IF pc' = "send" THEN "probe" ELSE "find")
      /\ x'.sock = (IF pc' = "send" THEN "da" ELSE "mc")
      /\ pc' = "send" => /\ x'.to = da'.addr /\ da'.addr \in DA /\ call.scopes \subseteq Scopes[da'.addr]
  BY <1>1, <1>3, UserAgentAssumption DEF TypeOK, Exchange, UserAgentAssumption
<1>7. /\ net' \subseteq Message
      /\ \A m \in net' : m.mine = FALSE
      /\ OnStream' = {}
  <2>1. net \in SUBSET Message
    BY DEF TypeOK
  <2>2. \A m \in net : m.sock # "sa"
    BY <1>1 DEF StreamMine, OnStream
  <2> QED
    BY <1>1, <2>1, <2>2, StaleProperties DEF OnStream
<1>8. TypeOK'
  BY <1>1, <1>2, <1>3, <1>4, <1>5, <1>6, <1>7 DEF TypeOK
<1>9. Places'
  BY <1>1, <1>2, <1>3, <1>6, <1>7 DEF Places, Searching, Single, Mcast, Multi
<1>10. DAServes'
  BY <1>1, <1>2, <1>3, <1>6, <1>7 DEF TypeOK, Places, DAServes, Single, Mcast, Multi
<1>11. EveryScopeIsAsked'
  BY <1>1, <1>2, <1>3, <1>6, <1>7
  DEF Places, DAServes, EveryScopeIsAsked, In, Single, Mcast, Multi
<1>12. NetMine'
  BY <1>1, <1>2, <1>3, <1>6, <1>7 DEF Places, NetMine, Single, Mcast, Multi
<1>13. StreamMine'
  BY <1>1, <1>2, <1>3, <1>6, <1>7
  DEF Places, StreamMine, OnStream, TheAnswer, Single, Mcast, Multi
<1>14. Heard'
  BY <1>1, <1>2, <1>3, <1>6, <1>7, FreshGoesOn, SilentKeeps
  DEF Places, Heard, Single, Mcast, Multi
<1> QED
  BY <1>8, <1>9, <1>10, <1>11, <1>12, <1>13, <1>14

\* NetworkConnectToSA: nothing is left on the stream when a request begins, neither
\* on one used again nor on a new one.
LEMMA NetworkConnectToSAKeeps ==
    ASSUME IInv, NetworkConnectToSA, UNCHANGED <<world, dups>>
    PROVE  IInv'
<1> USE DEF IInv
<1>1. /\ pc = "sa"
      /\ \/ /\ pc' = "send" /\ x' = Exchange("reg", "sa", Local) /\ ret' = ret
            /\ net' = Stale(net) /\ sa' = sa
         \/ /\ pc' = "send" /\ x' = Exchange("reg", "sa", Local) /\ ret' = ret
            /\ net' = Stale(Without(net, "sa")) /\ sa' = [state |-> "open", scope |-> call.scopes]
         \/ /\ pc' = "idle" /\ x' = Idle /\ ret' = "noserver"
            /\ net' = Stale(Without(net, "sa")) /\ sa' = [sa EXCEPT !.state = "closed"]
      /\ UNCHANGED <<ipv4, up, switches, cache, quiet, da, told, found, count, call, calls,
                     dups>>
  BY DEF NetworkConnectToSA, Go, Return, known, socks, heard, user, world
<1>2. call.op = "reg" /\ Fresh
  BY <1>1 DEF Places, Heard
<1>3. x' \in Locals
  <2>1. Local \in Server \cup {Local, None}
    OBVIOUS
  <2> QED
    BY <1>1, <2>1, ExchangeProperties, IdleProperties
<1>4. sa' \in [state : {"closed", "open", "broken"}, scope : SUBSET Scope]
  BY <1>1, CallProperties DEF TypeOK
<1>5. /\ x'.result = "ok" /\ x'.got = FALSE
      /\ x'.what = (IF pc' = "send" THEN "reg" ELSE "none")
      /\ x'.sock = (IF pc' = "send" THEN "sa" ELSE "none") /\ (pc' = "send" => x'.to = Local)
  BY <1>1 DEF Exchange, Idle
<1>6. /\ net' \subseteq Message
      /\ \A m \in net' : m.mine = FALSE
      /\ OnStream' = {}
  <2>1. net \in SUBSET Message /\ Without(net, "sa") \in SUBSET Message
    BY DEF TypeOK, Without
  <2>2. /\ \A m \in net : m.sock # "sa"
        /\ \A m \in Without(net, "sa") : m.sock # "sa"
    BY <1>1 DEF StreamMine, OnStream, Without
  <2> QED
    BY <1>1, <2>1, <2>2, StaleProperties DEF OnStream
<1>7. TypeOK'
  BY <1>1, <1>2, <1>3, <1>4, <1>5, <1>6 DEF TypeOK
<1>8. Places'
  BY <1>1, <1>2, <1>5, <1>6 DEF Places, Searching, Single, Mcast, Multi
<1>9. DAServes'
  BY <1>1, <1>2, <1>5, <1>6 DEF TypeOK, Places, DAServes, Single, Mcast, Multi
<1>10. EveryScopeIsAsked'
  BY <1>1, <1>2, <1>5, <1>6
  DEF Places, DAServes, EveryScopeIsAsked, In, Single, Mcast, Multi
<1>11. NetMine'
  BY <1>1, <1>2, <1>5, <1>6 DEF Places, NetMine, Single, Mcast, Multi
<1>12. StreamMine'
  BY <1>1, <1>2, <1>5, <1>6
  DEF Places, StreamMine, OnStream, TheAnswer, Single, Mcast, Multi
<1>13. Heard'
  BY <1>1, <1>2, <1>5, <1>6, SilentKeeps
  DEF Places, Heard, Single, Mcast, Multi, Searching, Fresh
<1> QED
  BY <1>7, <1>8, <1>9, <1>10, <1>11, <1>12, <1>13

\* KnownDARefreshCache only fills the cache.
LEMMA RefreshKeeps ==
    ASSUME IInv, RefreshForSpan \/ RefreshForDA, UNCHANGED <<world, dups>>
    PROVE  IInv'
<1> USE DEF IInv
<1>1. /\ Discover /\ quiet' = TRUE
      /\ UNCHANGED <<ipv4, up, switches, da, sa, told, found, count, call, calls, ret, pc,
                     x, net, dups>>
  BY DEF RefreshForSpan, RefreshForDA, RefreshCache, known, socks, heard, user, world
<1>2. TypeOK'
  BY <1>1, DiscoverProperties DEF TypeOK
<1>3. (Places /\ DAServes /\ EveryScopeIsAsked)'
  BY <1>1 DEF Places, Searching, DAServes, EveryScopeIsAsked, In
<1>4. (NetMine /\ StreamMine)'
  BY <1>1 DEF NetMine, StreamMine, OnStream, TheAnswer
<1>5. Heard'
  BY <1>1, SilentKeeps DEF Heard
<1> QED
  BY <1>2, <1>3, <1>4, <1>5

-----------------------------------------------------------------------------
(* One peer: NetworkRqstRply and what follows.                             *)

\* NetworkRqstRply transmits: what comes by the stream answers this request.
LEMMA RqstSendKeeps ==
    ASSUME IInv, RqstSend, UNCHANGED <<world, dups>>
    PROVE  IInv'
<1> USE DEF IInv
<1>1. /\ pc = "send" /\ pc' = "recv" /\ x.xmit < MaxXmit
      /\ x' = [x EXCEPT !.xmit = IF Stream THEN MaxXmit ELSE @ + 1]
      /\ \E agents \in SUBSET (up \cap {x.to}) : \E new \in Answers(x.sock, agents) : net' = net \cup new
      /\ UNCHANGED <<ipv4, up, switches, cache, quiet, da, sa, told, found, count, call,
                     calls, ret, dups>>
  BY DEF RqstSend, Go, known, socks, heard, user, world
<1>2. /\ x.sock \in {"da", "uc", "sa"}
      /\ x.what = "reg" => x.to = Local
      /\ x.what = "reg" <=> x.sock = "sa"
      /\ x.sock = "da" => x.to \in DA
  <2>1. <<x.what, x.sock>> \in {<<"probe", "da">>, <<"find", "da">>,
                                <<"find", "uc">>, <<"reg", "sa">>}
    BY <1>1 DEF Places, Single
  <2>2. (x.what = "reg" => x.to = Local) /\ (x.sock = "da" => x.to \in DA)
    BY DEF Places, DAServes
  <2> QED
    BY <2>1, <2>2
<1>3. PICK new \in SUBSET Message :
        /\ net' = net \cup new
        /\ new \subseteq [sock : {x.sock}, from : {x.to}, asked : {call.scopes}, mine : {TRUE}]
  <2>0. PICK agents \in SUBSET (up \cap {x.to}) : \E new \in Answers(x.sock, agents) : net' = net \cup new
    BY <1>1
  <2>1. PICK new \in Answers(x.sock, agents) : net' = net \cup new
    BY <2>0
  <2>2. new \subseteq [sock : {x.sock}, from : agents, asked : {call.scopes}, mine : {TRUE}]
    BY AnswersProperties
  <2>3. agents \subseteq Server \cup {Local} /\ call.scopes \in SUBSET Scope
    BY CallProperties DEF TypeOK
  <2>4. new \subseteq Message
    BY <1>2, <2>2, <2>3 DEF Message
  <2>5. agents \subseteq {x.to}
    OBVIOUS
  <2>6. new \subseteq [sock : {x.sock}, from : {x.to}, asked : {call.scopes}, mine : {TRUE}]
    BY <2>2, <2>5
  <2> QED
    BY <2>1, <2>4, <2>6
<1>4. x' \in Locals /\ x'.what = x.what /\ x'.sock = x.sock /\ x'.to = x.to
      /\ x'.result = x.result /\ x'.got = x.got
  <2>1. x \in Locals /\ MaxXmit \in Nat
    BY UserAgentAssumption DEF UserAgentAssumption, TypeOK
  <2>2. (IF Stream THEN MaxXmit ELSE x.xmit + 1) \in 0..MaxXmit
    BY <1>1, <2>1 DEF Locals
  <2> QED
    BY <1>1, <2>1, <2>2 DEF Locals
<1>5. net' \subseteq Message
  BY <1>3 DEF TypeOK
<1>6. TypeOK'
  BY <1>1, <1>2, <1>3, <1>4, <1>5 DEF TypeOK
<1>7. Places'
  BY <1>1, <1>2, <1>3, <1>4, <1>5 DEF Places, Searching, Single, Mcast, Multi
<1>8. DAServes'
  BY <1>1, <1>2, <1>3, <1>4, <1>5 DEF TypeOK, Places, DAServes, Single, Mcast, Multi
<1>9. EveryScopeIsAsked'
  BY <1>1, <1>2, <1>3, <1>4, <1>5
  DEF Places, DAServes, EveryScopeIsAsked, In, Single, Mcast, Multi
<1>10. NetMine'
  BY <1>1, <1>2, <1>3, <1>4, <1>5 DEF Places, NetMine, Single, Mcast, Multi
<1>11. StreamMine'
  <2>1. OnStream = {} /\ TheAnswer' = TheAnswer
    BY <1>1 DEF StreamMine, TheAnswer
  <2>2. ASSUME NEW m \in net', m.sock = "sa" PROVE x.what = "reg" /\ m = TheAnswer
    <3>1. m \in new
      BY <1>3, <2>1, <2>2 DEF OnStream
    <3>2. x.sock = "sa" /\ x.to = Local /\ m.from = Local
      BY <1>2, <1>3, <2>2, <3>1
    <3> QED
      BY <1>2, <1>3, <3>1, <3>2 DEF TheAnswer
  <2>3. OnStream' # {} => x.what = "reg" /\ OnStream' = {TheAnswer}
    BY <2>2 DEF OnStream
  <2> QED
    BY <1>1, <1>4, <2>1, <2>3 DEF StreamMine
<1>12. Heard'
  BY <1>1, <1>2, <1>3, <1>4, <1>5, SilentKeeps DEF Places, Heard, Single, Mcast, Multi
<1> QED
  BY <1>6, <1>7, <1>8, <1>9, <1>10, <1>11, <1>12

\* Without an answer nothing was told, so that the datagram may be sent again.
LEMMA RqstTimeOutKeeps ==
    ASSUME IInv, RqstTimeOut, UNCHANGED <<world, dups>>
    PROVE  IInv'
<1> USE DEF IInv
<1>1. /\ pc = "recv"
      /\ \/ /\ pc' = "back" /\ x' = [x EXCEPT !.result = IF x.got THEN "ok" ELSE "timeout"]
            /\ x.got \/ Stream
         \/ pc' = "send" /\ x' = x /\ ~x.got /\ ~Stream
      /\ UNCHANGED <<ipv4, up, switches, cache, quiet, da, sa, told, found, count, call,
                     calls, ret, net, dups>>
  BY DEF RqstTimeOut, Go, known, socks, heard, user, world
<1>2. x' \in Locals /\ x'.what = x.what /\ x'.sock = x.sock /\ x'.to = x.to /\ x'.got = x.got
  BY <1>1 DEF TypeOK, Locals
<1>3. pc' = "back" => x'.result = IF x.got THEN "ok" ELSE "timeout"
  BY <1>1 DEF TypeOK, Locals
<1>4. (x.what # "probe" => ~x.got) /\ Fresh /\ x.result = "ok"
  BY <1>1 DEF Heard
<1>5. pc' = "send" => x.what # "reg"
  BY <1>1 DEF Stream, Places, Single
<1>6. TypeOK'
  BY <1>1, <1>2, <1>3, <1>4, <1>5 DEF TypeOK
<1>7. Places'
  BY <1>1, <1>2, <1>3, <1>4, <1>5 DEF Places, Searching, Single, Mcast, Multi
<1>8. DAServes'
  BY <1>1, <1>2, <1>3, <1>4, <1>5 DEF TypeOK, Places, DAServes, Single, Mcast, Multi
<1>9. EveryScopeIsAsked'
  BY <1>1, <1>2, <1>3, <1>4, <1>5
  DEF Places, DAServes, EveryScopeIsAsked, In, Single, Mcast, Multi
<1>10. NetMine'
  BY <1>1, <1>2, <1>3, <1>4, <1>5 DEF Places, NetMine, Single, Mcast, Multi
<1>11. StreamMine'
  BY <1>1, <1>2, <1>3, <1>4, <1>5
  DEF Places, StreamMine, OnStream, TheAnswer, Single, Mcast, Multi
<1>12. Heard'
  BY <1>1, <1>2, <1>3, <1>4, <1>5, SilentKeeps DEF Places, Heard, Single, Mcast, Multi
<1> QED
  BY <1>6, <1>7, <1>8, <1>9, <1>10, <1>11, <1>12

\* The DA that answered the probe is the DA of the handle from now on.
LEMMA ProbeBackKeeps ==
    ASSUME IInv, ProbeBack, UNCHANGED <<world, dups>>
    PROVE  IInv'
<1> USE DEF IInv
<1>1. /\ pc = "back" /\ x.what = "probe"
      /\ \/ /\ da' = [da EXCEPT !.open = TRUE, !.scope = call.scopes]
            /\ pc' = "send" /\ x' = Exchange("find", "da", x.to) /\ net' = Stale(net) /\ cache' = cache
         \/ /\ KnownDABadDA(x.to) /\ net' = Without(net, "da") /\ pc' = "probe" /\ x' = Idle /\ da' = da
      /\ UNCHANGED <<ipv4, up, switches, quiet, sa, told, found, count, call, calls, ret,
                     dups>>
  BY DEF ProbeBack, Go, known, socks, heard, user, world
<1>2. /\ Searching /\ Fresh /\ ~da.open /\ da.addr = x.to /\ x.to \in DA
      /\ call.scopes \subseteq Scopes[x.to]
  BY <1>1 DEF Places, Heard, DAServes, Single
<1>3. x' \in Locals
  <2>1. x.to \in Server \cup {Local, None}
    BY <1>2 DEF Server
  <2> QED
    BY <1>1, <2>1, ExchangeProperties, IdleProperties
<1>4. /\ x'.result = "ok" /\ x'.got = FALSE
      /\ x'.what = (IF pc' = "send" THEN "find" ELSE "none")
      /\ x'.sock = (IF pc' = "send" THEN "da" ELSE "none")
      /\ pc' = "send" => x'.to = x.to
  BY <1>1 DEF Exchange, Idle
<1>5. /\ net' \subseteq Message
      /\ pc' = "send" => \A m \in net' : m.mine = FALSE
      /\ OnStream' = {}
  <2>1. net \in SUBSET Message
    BY DEF TypeOK
  <2>2. \A m \in net : m.sock # "sa"
    BY <1>1 DEF StreamMine, OnStream
  <2> QED
    BY <1>1, <2>1, <2>2, StaleProperties DEF OnStream, Without
<1>6. cache' \in Seq(DA) /\ IsInjective(cache')
  BY <1>1, CacheProperties DEF TypeOK
<1>7. /\ da' \in [open : BOOLEAN, addr : DA \cup {None}, scope : SUBSET Scope]
      /\ da'.addr = x.to /\ (pc' = "send" => da'.scope = call.scopes) /\ (pc' = "probe" => ~da'.open)
  BY <1>1, <1>2, CallProperties DEF TypeOK
<1>8. TypeOK'
  BY <1>1, <1>2, <1>3, <1>4, <1>5, <1>6, <1>7 DEF TypeOK
<1>9. Places'
  BY <1>1, <1>2, <1>3, <1>4, <1>5, <1>6, <1>7 DEF Places, Searching, Single, Mcast, Multi
<1>10. DAServes'
  BY <1>1, <1>2, <1>3, <1>4, <1>5, <1>6, <1>7
  DEF TypeOK, Places, DAServes, Single, Mcast, Multi
<1>11. EveryScopeIsAsked'
  BY <1>1, <1>2, <1>3, <1>4, <1>5, <1>6, <1>7
  DEF Places, DAServes, EveryScopeIsAsked, In, Single, Mcast, Multi
<1>12. NetMine'
  BY <1>1, <1>2, <1>3, <1>4, <1>5, <1>6, <1>7 DEF Places, NetMine, Single, Mcast, Multi
<1>13. StreamMine'
  BY <1>1, <1>2, <1>3, <1>4, <1>5, <1>6, <1>7
  DEF Places, StreamMine, OnStream, TheAnswer, Single, Mcast, Multi
<1>14. Heard'
  BY <1>1, <1>2, <1>3, <1>4, <1>5, <1>6, <1>7, SilentKeeps
  DEF Places, Heard, Single, Mcast, Multi
<1> QED
  BY <1>8, <1>9, <1>10, <1>11, <1>12, <1>13, <1>14

\* A search that returns has told all, or failed and told nothing.
LEMMA FindBackKeeps ==
    ASSUME IInv, FindBack, UNCHANGED <<world, dups>>
    PROVE  IInv'
<1> USE DEF IInv
<1>1. /\ pc = "back" /\ x.what = "find" /\ x.sock = "da"
      /\ \/ x.result = "ok" /\ UNCHANGED <<da, cache, net>>
         \/ /\ x.result # "ok" /\ da' = [da EXCEPT !.open = FALSE]
            /\ net' = Without(net, "da") /\ KnownDABadDA(da.addr)
      /\ \/ x.result = "neterr" /\ pc' = "path" /\ x' = Idle /\ ret' = ret
         \/ x.result # "neterr" /\ pc' = "idle" /\ x' = Idle /\ ret' = x.result
      /\ UNCHANGED <<ipv4, up, switches, quiet, sa, told, found, count, call, calls, dups>>
  BY DEF FindBack, Go, Return, known, socks, heard, user, world
<1>2. Searching /\ IF x.result = "ok" THEN Over ELSE Fresh
  BY <1>1 DEF Places, Heard, Single
<1>3. x' \in Locals /\ x'.what = "none" /\ x'.sock = "none"
  BY <1>1, IdleProperties
<1>4. net' \subseteq Message /\ OnStream' = {}
  BY <1>1 DEF TypeOK, StreamMine, OnStream, Without
<1>5. cache' \in Seq(DA) /\ IsInjective(cache')
  BY <1>1, CacheProperties DEF TypeOK
<1>6. /\ da' \in [open : BOOLEAN, addr : DA \cup {None}, scope : SUBSET Scope]
      /\ da'.open => da' = da
  BY <1>1 DEF TypeOK
<1>7. TypeOK'
  BY <1>1, <1>2, <1>3, <1>4, <1>5, <1>6 DEF TypeOK
<1>8. Places'
  BY <1>1, <1>2, <1>3, <1>4, <1>5, <1>6 DEF Places, Searching, Single, Mcast, Multi
<1>9. DAServes'
  BY <1>1, <1>2, <1>3, <1>4, <1>5, <1>6 DEF TypeOK, Places, DAServes, Single, Mcast, Multi
<1>10. EveryScopeIsAsked'
  BY <1>1, <1>2, <1>3, <1>4, <1>5, <1>6
  DEF Places, DAServes, EveryScopeIsAsked, In, Single, Mcast, Multi
<1>11. NetMine'
  BY <1>1, <1>2, <1>3, <1>4, <1>5, <1>6 DEF Places, NetMine, Single, Mcast, Multi
<1>12. StreamMine'
  BY <1>1, <1>2, <1>3, <1>4, <1>5, <1>6
  DEF Places, StreamMine, OnStream, TheAnswer, Single, Mcast, Multi
<1>13. Heard'
  <2>1. /\ Fresh' = Fresh /\ Over' = Over /\ Sound(told)' = Sound(told) /\ Searching' = Searching
    BY <1>1, SilentKeeps
  <2>2. Over => Sound(told) /\ found = {} /\ count = 0
    BY DEF Over
  <2>3. Fresh => Sound(told) /\ told = <<>> /\ found = {} /\ count = 0
    BY DEF Fresh, Sound, IsInjective
  <2>4. call'.op # "reg"
    BY <1>1, <1>2 DEF Searching
  <2> QED
    BY <1>1, <1>2, <2>1, <2>2, <2>3, <2>4 DEF Heard, Mcast, Multi
<1> QED
  BY <1>7, <1>8, <1>9, <1>10, <1>11, <1>12, <1>13

\* So has a search by NetworkUcastRqstRply.
LEMMA UcastBackKeeps ==
    ASSUME IInv, UcastBack, UNCHANGED <<world, dups>>
    PROVE  IInv'
<1> USE DEF IInv
<1>1. /\ pc = "back" /\ x.sock = "uc"
      /\ pc' = "idle" /\ x' = Idle /\ ret' = x.result
      /\ UNCHANGED <<ipv4, up, switches, cache, quiet, da, sa, told, found, count, call,
                     calls, net, dups>>
  BY DEF UcastBack, Return, known, socks, heard, user, world
<1>2. Searching /\ IF x.result = "ok" THEN Over ELSE Fresh
  BY <1>1 DEF Places, Heard, Single
<1>3. x' \in Locals /\ x'.what = "none" /\ x'.sock = "none"
  BY <1>1, IdleProperties
<1>4. OnStream' = {}
  BY <1>1 DEF Places, Single, StreamMine, OnStream
<1>5. TypeOK'
  BY <1>1, <1>2, <1>3, <1>4 DEF TypeOK
<1>6. Places'
  BY <1>1, <1>2, <1>3, <1>4 DEF Places, Searching, Single, Mcast, Multi
<1>7. DAServes'
  BY <1>1, <1>2, <1>3, <1>4 DEF TypeOK, Places, DAServes, Single, Mcast, Multi
<1>8. EveryScopeIsAsked'
  BY <1>1, <1>2, <1>3, <1>4
  DEF Places, DAServes, EveryScopeIsAsked, In, Single, Mcast, Multi
<1>9. NetMine'
  BY <1>1, <1>2, <1>3, <1>4 DEF Places, NetMine, Single, Mcast, Multi
<1>10. StreamMine'
  BY <1>1, <1>2, <1>3, <1>4
  DEF Places, StreamMine, OnStream, TheAnswer, Single, Mcast, Multi
<1>11. Heard'
  <2>1. /\ Fresh' = Fresh /\ Over' = Over /\ Sound(told)' = Sound(told) /\ Searching' = Searching
    BY <1>1, SilentKeeps
  <2>2. Over => Sound(told) /\ found = {} /\ count = 0
    BY DEF Over
  <2>3. Fresh => Sound(told) /\ told = <<>> /\ found = {} /\ count = 0
    BY DEF Fresh, Sound, IsInjective
  <2>4. call'.op # "reg"
    BY <1>1, <1>2 DEF Searching
  <2> QED
    BY <1>1, <1>2, <2>1, <2>2, <2>3, <2>4 DEF Heard, Mcast, Multi
<1> QED
  BY <1>5, <1>6, <1>7, <1>8, <1>9, <1>10, <1>11

\* A registration that succeeded has told what the daemon said; after an error the
\* stream is closed, and with it goes an answer that comes late.
LEMMA RegBackKeeps ==
    ASSUME IInv, RegBack, UNCHANGED <<world, dups>>
    PROVE  IInv'
<1> USE DEF IInv
<1>1. /\ pc = "back" /\ x.what = "reg"
      /\ \/ x.result = "ok" /\ UNCHANGED <<sa, net>>
         \/ /\ x.result # "ok" /\ sa' = [sa EXCEPT !.state = "closed"] /\ net' = Without(net, "sa")
      /\ pc' = "idle" /\ x' = Idle /\ ret' = x.result
      /\ UNCHANGED <<ipv4, up, switches, cache, quiet, da, told, found, count, call, calls,
                     dups>>
  BY DEF RegBack, Return, known, socks, heard, user, world
<1>2. /\ call.op = "reg"
      /\ IF x.result = "ok" THEN told = TheDaemons /\ found = {} /\ count = 0 ELSE Fresh
  BY <1>1 DEF Places, Heard, Single
<1>3. x' \in Locals /\ x'.what = "none" /\ x'.sock = "none"
  BY <1>1, IdleProperties
<1>4. net' \subseteq Message /\ OnStream' = {}
  BY <1>1 DEF TypeOK, StreamMine, OnStream, Without
<1>5. sa' \in [state : {"closed", "open", "broken"}, scope : SUBSET Scope]
  BY <1>1 DEF TypeOK
<1>6. TypeOK'
  BY <1>1, <1>2, <1>3, <1>4, <1>5 DEF TypeOK
<1>7. Places'
  BY <1>1, <1>2, <1>3, <1>4, <1>5 DEF Places, Searching, Single, Mcast, Multi
<1>8. DAServes'
  BY <1>1, <1>2, <1>3, <1>4, <1>5 DEF TypeOK, Places, DAServes, Single, Mcast, Multi
<1>9. EveryScopeIsAsked'
  BY <1>1, <1>2, <1>3, <1>4, <1>5
  DEF Places, DAServes, EveryScopeIsAsked, In, Single, Mcast, Multi
<1>10. NetMine'
  BY <1>1, <1>2, <1>3, <1>4, <1>5 DEF Places, NetMine, Single, Mcast, Multi
<1>11. StreamMine'
  BY <1>1, <1>2, <1>3, <1>4, <1>5
  DEF Places, StreamMine, OnStream, TheAnswer, Single, Mcast, Multi
<1>12. Heard'
  BY <1>1, <1>2, <1>3, <1>4, <1>5, SilentKeeps
  DEF Places, Heard, Single, Mcast, Multi, Fresh, Searching
<1> QED
  BY <1>6, <1>7, <1>8, <1>9, <1>10, <1>11, <1>12

\* KnownDADiscoveryCallback moves the DA to the end of the cache.
LEMMA ProbeReceiveKeeps ==
    ASSUME IInv, NEW m \in net, ProbeReceive(m), UNCHANGED world
    PROVE  IInv'
<1> USE DEF IInv
<1>1. /\ pc = "recv" /\ pc' = "recv" /\ x.what = "probe" /\ x' = [x EXCEPT !.got = TRUE]
      /\ KnownDAAdd(m.from) /\ Taken(m) /\ m.mine /\ m.sock = x.sock
      /\ UNCHANGED <<ipv4, up, switches, quiet, da, sa, told, found, count, call, calls,
                     ret>>
  BY DEF ProbeReceive, Go, Accepts, Arrived, known, socks, heard, user, world
<1>2. /\ x' \in Locals /\ x'.what = x.what /\ x'.sock = x.sock /\ x'.to = x.to /\ x'.result = x.result /\ x'.got = TRUE
  BY <1>1 DEF TypeOK, Locals
<1>3. net' \subseteq net
  BY <1>1, TakenProperties
<1>4. cache' \in Seq(DA) /\ IsInjective(cache')
  <2>1. x.sock = "da"
    BY <1>1 DEF Places, Single
  <2>2. m.from \in DA
    BY <1>1, <2>1 DEF NetMine, Single
  <2> QED
    BY <1>1, <2>2, CacheProperties DEF TypeOK
<1>5. TypeOK'
  BY <1>1, <1>2, <1>3, <1>4 DEF TypeOK
<1>6. Places'
  BY <1>1, <1>2, <1>3, <1>4 DEF Places, Searching, Single, Mcast, Multi
<1>7. DAServes'
  BY <1>1, <1>2, <1>3, <1>4 DEF TypeOK, Places, DAServes, Single, Mcast, Multi
<1>8. EveryScopeIsAsked'
  BY <1>1, <1>2, <1>3, <1>4
  DEF Places, DAServes, EveryScopeIsAsked, In, Single, Mcast, Multi
<1>9. NetMine'
  BY <1>1, <1>2, <1>3, <1>4 DEF Places, NetMine, Single, Mcast, Multi
<1>10. StreamMine'
  BY <1>1, <1>2, <1>3, <1>4
  DEF Places, StreamMine, OnStream, TheAnswer, Single, Mcast, Multi
<1>11. Heard'
  BY <1>1, <1>2, <1>3, <1>4, SilentKeeps DEF Places, Heard, Single, Mcast, Multi
<1> QED
  BY <1>5, <1>6, <1>7, <1>8, <1>9, <1>10, <1>11

\* The answer is one to this call, as its identifier is that of the exchange.
LEMMA FindReceiveKeeps ==
    ASSUME IInv, NEW m \in net, FindReceive(m), UNCHANGED world
    PROVE  IInv'
<1> USE DEF IInv
<1>1. /\ pc = "recv" /\ pc' = "back" /\ x.what = "find" /\ x' = [x EXCEPT !.got = TRUE]
      /\ m.mine /\ Telling(LastCall(Reply(m))) /\ Taken(m)
      /\ UNCHANGED <<ipv4, up, switches, cache, quiet, da, sa, call, calls, ret>>
  BY DEF FindReceive, Go, Accepts, known, socks, heard, user, world
<1>2. /\ x' \in Locals /\ x'.what = x.what /\ x'.sock = x.sock /\ x'.to = x.to /\ x'.got = TRUE
      /\ x'.result = "ok"
  BY <1>1 DEF TypeOK, Locals, Heard
<1>3. net' \subseteq net
  BY <1>1, TakenProperties
<1>4. Over' /\ found' \subseteq Scope /\ count' \in 0..MaxResults + 1
  <2>1. GoesOn /\ m.asked = call.scopes /\ m.from \in Server \cup {Local} /\ call \in Calls
    BY <1>1, FreshGoesOn DEF Heard, NetMine, TypeOK, Message, Single
  <2>2. Ended(LastCall(Reply(m)))
    BY <2>1, ReplyProperties, LastCallEnds
  <2> QED
    BY <1>1, <2>2, TellingProperties
<1>5. TypeOK'
  BY <1>1, <1>2, <1>3, <1>4 DEF TypeOK
<1>6. Places'
  BY <1>1, <1>2, <1>3, <1>4 DEF Places, Searching, Single, Mcast, Multi
<1>7. DAServes'
  BY <1>1, <1>2, <1>3, <1>4 DEF TypeOK, Places, DAServes, Single, Mcast, Multi
<1>8. EveryScopeIsAsked'
  BY <1>1, <1>2, <1>3, <1>4
  DEF Places, DAServes, EveryScopeIsAsked, In, Single, Mcast, Multi
<1>9. NetMine'
  BY <1>1, <1>2, <1>3, <1>4 DEF Places, NetMine, Single, Mcast, Multi
<1>10. StreamMine'
  BY <1>1, <1>2, <1>3, <1>4
  DEF Places, StreamMine, OnStream, TheAnswer, Single, Mcast, Multi
<1>11. Heard'
  BY <1>1, <1>2, <1>3, <1>4 DEF Places, Heard, Single, Mcast, Multi
<1> QED
  BY <1>5, <1>6, <1>7, <1>8, <1>9, <1>10, <1>11

\* Whatever its identifier, the message on the stream is the answer to this request:
\* there is no other on it.
LEMMA RegReceiveKeeps ==
    ASSUME IInv, NEW m \in net, RegReceive(m), UNCHANGED world
    PROVE  IInv'
<1> USE DEF IInv
<1>1. /\ pc = "recv" /\ pc' = "back" /\ Stream /\ m.sock = x.sock
      /\  x' = [x EXCEPT !.got = Accepts(m)] /\ net' = net \ {m}
      /\ told' = Append(told, IF m.asked \subseteq Scopes[Local] THEN "ok" ELSE "refused")
      /\ UNCHANGED <<ipv4, up, switches, cache, quiet, da, sa, found, count, call, calls,
                     ret, dups>>
  BY DEF RegReceive, Go, Arrived, known, socks, heard, user, world
<1>2. x.what = "reg" /\ m = TheAnswer /\ OnStream = {TheAnswer} /\ Fresh /\ x.result = "ok"
  BY <1>1 DEF Stream, Places, StreamMine, OnStream, Heard, Single
<1>3. /\ x' \in Locals /\ x'.what = x.what /\ x'.sock = x.sock /\ x'.to = x.to /\ x'.result = x.result
  BY <1>1 DEF TypeOK, Locals, Accepts, Message
<1>4. OnStream' = {} /\ TheAnswer' = TheAnswer /\ TheDaemons' = TheDaemons
  BY <1>1, <1>2 DEF OnStream, TheAnswer, TheDaemons
<1>5. told' = TheDaemons'
  BY <1>1, <1>2, <1>4 DEF Fresh, TheAnswer, TheDaemons
<1>6. TypeOK'
  BY <1>1, <1>2, <1>3, <1>4, <1>5 DEF TypeOK
<1>7. Places'
  BY <1>1, <1>2, <1>3, <1>4, <1>5 DEF Places, Searching, Single, Mcast, Multi
<1>8. DAServes'
  BY <1>1, <1>2, <1>3, <1>4, <1>5 DEF TypeOK, Places, DAServes, Single, Mcast, Multi
<1>9. EveryScopeIsAsked'
  BY <1>1, <1>2, <1>3, <1>4, <1>5
  DEF Places, DAServes, EveryScopeIsAsked, In, Single, Mcast, Multi
<1>10. NetMine'
  BY <1>1, <1>2, <1>3, <1>4, <1>5 DEF Places, NetMine, Single, Mcast, Multi
<1>11. StreamMine'
  BY <1>1, <1>2, <1>3, <1>4, <1>5
  DEF Places, StreamMine, OnStream, TheAnswer, Single, Mcast, Multi
<1>12. Heard'
  BY <1>1, <1>2, <1>3, <1>4, <1>5 DEF Fresh, Places, Heard, Single, Mcast, Multi
<1> QED
  BY <1>6, <1>7, <1>8, <1>9, <1>10, <1>11, <1>12

\* An engine that gives up, or whose transmission fails, has told nothing.
LEMMA ErrorKeeps ==
    ASSUME IInv, RqstSendFails \/ RqstGivesUp \/ StreamEnds, UNCHANGED <<world, dups>>
    PROVE  IInv'
<1> USE DEF IInv
<1>1. /\ pc \in {"send", "recv"} /\ pc' = "back"
      /\ \E e \in {"neterr", "timeout"} : x' = [x EXCEPT !.result = e]
      /\ UNCHANGED <<ipv4, up, switches, cache, quiet, da, sa, told, found, count, call,
                     calls, ret, net, dups>>
  BY DEF RqstSendFails, RqstGivesUp, StreamEnds, Go, known, socks, heard, user, world
<1>2. /\ x' \in Locals /\ x'.what = x.what /\ x'.sock = x.sock /\ x'.to = x.to /\ x'.got = x.got
      /\ x'.result \in {"neterr", "timeout"}
  BY <1>1 DEF TypeOK, Locals
<1>3. TypeOK' /\ Places'
  BY <1>1, <1>2 DEF TypeOK, Places, Searching, Single, Mcast, Multi
<1>4. DAServes' /\ EveryScopeIsAsked'
  BY <1>1, <1>2 DEF Places, DAServes, EveryScopeIsAsked, Single
<1>5. NetMine' /\ StreamMine'
  BY <1>1, <1>2 DEF NetMine, StreamMine, OnStream, TheAnswer, Single
<1>6. Heard'
  BY <1>1, <1>2, SilentKeeps DEF Places, Heard, Single, Mcast, Multi
<1> QED
  BY <1>3, <1>4, <1>5, <1>6

\* A message of another exchange changes nothing.
LEMMA RqstIgnoresKeeps ==
    ASSUME IInv, NEW m \in net, RqstIgnores(m), UNCHANGED world
    PROVE  IInv'
<1> USE DEF IInv
<1>1. /\ pc = "recv" /\ ~Stream /\ Taken(m)
      /\ UNCHANGED <<ipv4, up, switches, cache, quiet, da, sa, told, found, count, call,
                     calls, ret, pc, x>>
  BY DEF RqstIgnores, agent, known, socks, heard, user, world
<1>2. net' \subseteq net
  BY <1>1, TakenProperties
<1>3. TypeOK'
  BY <1>1, <1>2 DEF TypeOK
<1>4. Places'
  BY <1>1, <1>2 DEF Places, Searching, Single, Mcast, Multi
<1>5. DAServes'
  BY <1>1, <1>2 DEF TypeOK, Places, DAServes, Single, Mcast, Multi
<1>6. EveryScopeIsAsked'
  BY <1>1, <1>2 DEF Places, DAServes, EveryScopeIsAsked, In, Single, Mcast, Multi
<1>7. NetMine'
  BY <1>1, <1>2 DEF Places, NetMine, Single, Mcast, Multi
<1>8. StreamMine'
  BY <1>1, <1>2 DEF Places, StreamMine, OnStream, TheAnswer, Single, Mcast, Multi
<1>9. Heard'
  BY <1>1, <1>2, SilentKeeps DEF Places, Heard, Single, Mcast, Multi
<1> QED
  BY <1>3, <1>4, <1>5, <1>6, <1>7, <1>8, <1>9

\* A call begins with nothing told, nothing collated and nothing on the stream.
LEMMA SLPFindSrvsKeeps ==
    ASSUME IInv, NEW c \in Calls, SLPFindSrvs(c), UNCHANGED <<world, dups>>
    PROVE  IInv'
<1> USE DEF IInv
<1>1. /\ pc = "idle" /\ calls < MaxCalls /\ calls' = calls + 1
      /\ call' = c /\ told' = <<>> /\ ret' = "none" /\ x' = Idle
      /\ pc' = CASE c.op = "das" -> "das" [] c.op = "reg" -> "sa" [] OTHER -> "path"
      /\ UNCHANGED <<ipv4, up, switches, cache, quiet, da, sa, found, count, net, dups>>
  BY DEF SLPFindSrvs, known, socks, heard, user, world
<1>2. /\ call' \in Calls /\ x' \in Locals /\ x'.what = "none" /\ x'.sock = "none"
      /\ call'.op \in {"find", "sas", "das", "reg"} /\ pc' \in {"das", "sa", "path"}
      /\ call'.op = "das" <=> pc' = "das"
      /\ call'.op = "reg" <=> pc' = "sa"
  BY <1>1, IdleProperties, CallProperties, UserAgentAssumption DEF UserAgentAssumption
<1>3. Fresh'
  BY <1>1 DEF Heard, Fresh
<1>4. TypeOK'
  BY <1>1, <1>2, <1>3, UserAgentAssumption DEF TypeOK, UserAgentAssumption
<1>5. Places'
  BY <1>1, <1>2, <1>3 DEF Places, Searching, Single, Mcast, Multi
<1>6. DAServes'
  BY <1>1, <1>2, <1>3 DEF TypeOK, Places, DAServes, Single, Mcast, Multi
<1>7. EveryScopeIsAsked'
  BY <1>1, <1>2, <1>3 DEF Places, DAServes, EveryScopeIsAsked, In, Single, Mcast, Multi
<1>8. NetMine'
  BY <1>1, <1>2, <1>3 DEF Places, NetMine, Single, Mcast, Multi
<1>9. StreamMine'
  BY <1>1, <1>2, <1>3 DEF Places, StreamMine, OnStream, TheAnswer, Single, Mcast, Multi
<1>10. Heard'
  BY <1>1, <1>2, <1>3 DEF Places, Heard, Single, Mcast, Multi, Searching
<1> QED
  BY <1>4, <1>5, <1>6, <1>7, <1>8, <1>9, <1>10

\* What the servers do, and time, leave the call as it is.
LEMMA WorldKeeps ==
    ASSUME IInv,
           \/ \E s \in Server \cup {Local} : Stop(s) \/ Start(s)
           \/ DaemonCloses \/ IntervalPasses \/ UNCHANGED vars
    PROVE  IInv'
<1> USE DEF IInv
<1>1. /\ up' \subseteq Server \cup {Local} /\ quiet' \in BOOLEAN
      /\ sa' \in {sa, [sa EXCEPT !.state = "broken"]}
      /\ UNCHANGED <<ipv4, cache, da, told, found, count, call, calls, ret, pc, x, net>>
  BY
  DEF Stop, Start, DaemonCloses, IntervalPasses, TypeOK, vars, agent, known, socks, heard,
         user, world
<1>2. TypeOK'
  BY <1>1 DEF TypeOK
<1>3. (Places /\ DAServes /\ EveryScopeIsAsked)'
  BY <1>1 DEF Places, Searching, DAServes, EveryScopeIsAsked, In
<1>4. (NetMine /\ StreamMine)'
  BY <1>1 DEF NetMine, StreamMine, OnStream, TheAnswer
<1>5. Heard'
  BY <1>1, SilentKeeps DEF Heard
<1> QED
  BY <1>2, <1>3, <1>4, <1>5

-----------------------------------------------------------------------------
(* Many peers: NetworkMcastRqstRply and NetworkMultiUcastRqstRply.         *)

\* The period ends.
LEMMA McastTimeOutKeeps ==
    ASSUME IInv, McastTimeOut, UNCHANGED <<world, dups>>
    PROVE  IInv'
<1>1. /\ pc = "mrecv" /\ PeriodEnds("timeout")
      /\ UNCHANGED <<ipv4, up, switches, cache, quiet, da, sa, told, found, count, call,
                     calls, dups>>
  BY DEF McastTimeOut, known, socks, heard, user, world
<1>2. PeriodEnded
  BY <1>1, PeriodProperties DEF IInv
<1>3. GoesOn' /\ (~x'.got => Fresh')
  BY <1>1, <1>2, SilentKeeps DEF IInv, Heard, Mcast, PeriodEnded
<1>4. Ours(net')
  BY <1>1, <1>2, OursHere DEF Ours, PeriodEnded, Without, Mcast
<1> QED
  BY <1>1, <1>2, <1>3, <1>4, ManyKeep DEF Continues, PeriodEnded, Mcast, IInv, TypeOK

\* A period begins; its answers are ours.
LEMMA McastSendKeeps ==
    ASSUME IInv, McastSend, UNCHANGED <<world, dups>>
    PROVE  IInv'
<1>1. /\ pc = "msend" /\ pc' = "mrecv" /\ x.group < Groups
      /\ x' = [x EXCEPT !.xmit = @ + 1, !.period = FALSE, !.result = "ok"]
      /\ \E new \in Answers("mc", (up \cap Server) \ x.pr) : net' = net \cup new
      /\ UNCHANGED <<ipv4, up, switches, cache, quiet, da, sa, told, found, count, call,
                     calls, ret, dups>>
  BY DEF McastSend, Go, known, socks, heard, user, world
<1>2. /\ x' \in Locals /\ x'.what = x.what /\ x'.sock = x.sock /\ x'.got = x.got
      /\ x'.group = x.group
  <2>1. x \in Locals /\ MaxXmit \in Nat \ {0} /\ x.xmit < MaxXmit
    BY <1>1, UserAgentAssumption DEF IInv, TypeOK, Places, Mcast, UserAgentAssumption
  <2>2. x.xmit + 1 \in 0..MaxXmit
    BY <2>1 DEF Locals
  <2> QED
    BY <1>1, <2>1, <2>2 DEF Locals
<1>3. Ours(net')
  <2>1. PICK new \in Answers("mc", (up \cap Server) \ x.pr) : net' = net \cup new
    BY <1>1
  <2>2. new \subseteq [sock : {"mc"}, from : (up \cap Server) \ x.pr,
                       asked : {call.scopes}, mine : {TRUE}]
    BY AnswersProperties
  <2>3. new \subseteq Message
    BY <2>2, CallProperties DEF Message, IInv, TypeOK
  <2> QED
    BY <1>1, <2>1, <2>2, <2>3, OursHere DEF Ours, Mcast
<1>4. GoesOn' /\ (~x'.got => Fresh')
  BY <1>1, <1>2, SilentKeeps DEF IInv, Heard, Mcast
<1> QED
  BY <1>1, <1>2, <1>3, <1>4, ManyKeep DEF Continues, Mcast, IInv, TypeOK

\* All addresses are tried: the last callback, or an error and nothing told.
LEMMA McastEndsKeeps ==
    ASSUME IInv, McastEnds, UNCHANGED <<world, dups>>
    PROVE  IInv'
<1> DEFINE h == LastCall([told |-> told, found |-> found, count |-> count, more |-> TRUE])
<1>1. /\ pc = "msend" /\ pc' = "idle" /\ x' = Idle
      /\ \/ ret' = "ok" /\ Telling(h)
         \/ ~x.got /\ UNCHANGED <<told, found, count>>
      /\ UNCHANGED <<ipv4, up, switches, cache, quiet, da, sa, call, calls, net, dups>>
  BY DEF McastEnds, Return, Silent, known, socks, heard, user, world
<1>2. GoesOn /\ (~x.got => Fresh)
  BY <1>1 DEF IInv, Heard, Mcast
<1>3. Ours(net')
  BY <1>1, OursHere DEF Ours, Mcast
<1>4. CASE ret' = "ok" /\ Telling(h)
  <2>1. Over' /\ found' \subseteq Scope /\ count' \in 0..MaxResults + 1
    BY <1>1, <1>2, <1>4, LastTold DEF IInv
  <2> QED
    BY <1>1, <1>3, <1>4, <2>1, ManyKeep DEF Returns, Mcast
<1>5. CASE ~x.got /\ UNCHANGED <<told, found, count>>
  <2>1. Fresh'
    BY <1>1, <1>2, <1>5, SilentKeeps
  <2> QED
    BY <1>1, <1>3, <1>5, <2>1, ManyKeep DEF Returns, Mcast, IInv, TypeOK
<1> QED
  BY <1>1, <1>4, <1>5

\* An answer is told; the engine goes on, or returns as the user has enough.
LEMMA McastAnswerKeeps ==
    ASSUME IInv, pc = "mrecv", NEW m, m.asked = call.scopes, m.from \in Server \cup {Local},
           McastAnswer(m), Ours(net'), UNCHANGED <<ipv4, up, cache, quiet, da, sa, call,
                                                   calls>>
    PROVE  IInv'
<1>1. GoesOn /\ TypeOK /\ x \in Locals /\ x.group < Groups
  BY DEF IInv, Heard, Mcast, TypeOK, Places
<1>2. /\ Telling(Reply(m))
      /\ \/ /\ Reply(m).more = TRUE /\ pc' = "mrecv"
            /\ x' = [x EXCEPT !.got = TRUE, !.period = TRUE, !.result = "ok",
                              !.pr = @ \cup {m.from}]
         \/ Reply(m).more # TRUE /\ pc' = "idle" /\ x' = Idle /\ ret' = "ok"
  BY DEF McastAnswer, Go, Return
<1>3. found' \subseteq Scope /\ count' \in 0..MaxResults + 1
  BY <1>1, <1>2, AnswerTold
<1>4. CASE Reply(m).more = TRUE
  <2>0. x.pr \cup {m.from} \in SUBSET (Server \cup {Local})
    BY <1>1 DEF Locals
  <2>1. x' \in Locals /\ x'.what = x.what /\ x'.sock = x.sock /\ x'.group = x.group /\ x'.got = TRUE
    BY <1>1, <1>2, <1>4, <2>0 DEF Locals
  <2>2. GoesOn'
    BY <1>1, <1>2, <1>4, AnswerTold
  <2> QED
    BY <1>1, <1>2, <1>3, <1>4, <2>1, <2>2, ManyKeep DEF Continues, Mcast
<1>5. CASE Reply(m).more # TRUE
  <2>1. Over'
    BY <1>1, <1>2, <1>5, AnswerTold
  <2> QED
    BY <1>2, <1>3, <1>5, <2>1, ManyKeep DEF Returns, Mcast
<1> QED
  BY <1>4, <1>5

\* A datagram, of this exchange or another.
LEMMA McastReceiveKeeps ==
    ASSUME IInv, NEW m \in net, McastReceive(m), UNCHANGED world
    PROVE  IInv'
<1>1. /\ pc = "mrecv" /\ Taken(m)
      /\ \/ m.mine /\ McastAnswer(m)
         \/ UNCHANGED <<told, found, count, ret, pc, x>>
      /\ UNCHANGED <<ipv4, up, switches, cache, quiet, da, sa, call, calls>>
  BY DEF McastReceive, Accepts, known, socks, heard, user, world
<1>2. Ours(net) /\ Ours(net')
  BY <1>1, OursHere, TakenProperties DEF Ours, Mcast
<1>3. CASE m.mine /\ McastAnswer(m)
  <2>1. m.asked = call.scopes /\ m.from \in Server \cup {Local}
    BY <1>2, <1>3 DEF Ours, Message
  <2> QED
    BY <1>1, <1>2, <1>3, <2>1, McastAnswerKeeps
<1>4. CASE UNCHANGED <<told, found, count, ret, pc, x>>
  <2>1. GoesOn' /\ (~x'.got => Fresh')
    BY <1>1, <1>4, SilentKeeps DEF IInv, Heard, Mcast
  <2>2. x \in Locals /\ x.group < Groups
    BY <1>1 DEF IInv, TypeOK, Places
  <2> QED
    BY <1>1, <1>2, <1>4, <2>1, <2>2, ManyKeep DEF Continues, Mcast, IInv, TypeOK
<1> QED
  BY <1>1, <1>3, <1>4

\* A truncated datagram, and the stream that is asked in its place.
LEMMA McastBigKeeps ==
    ASSUME IInv, NEW m \in net, McastBig(m), UNCHANGED world
    PROVE  IInv'
<1>1. /\ pc = "mrecv" /\ m.from \in Big
      /\ \/ McastAnswer([m EXCEPT !.asked = call.scopes]) /\ net' = Stale(Kept \ {m})
         \/ (\E e \in {"timeout", "neterr"} : PeriodEnds(e)) /\ UNCHANGED <<told, found,
                                                                            count>>
      /\ UNCHANGED <<ipv4, up, switches, cache, quiet, da, sa, call, calls, dups>>
  BY DEF McastBig, Silent, known, socks, heard, user, world
<1>2. Ours(net)
  BY <1>1, OursHere DEF Mcast
<1>3. CASE McastAnswer([m EXCEPT !.asked = call.scopes]) /\ net' = Stale(Kept \ {m})
  <2> DEFINE r == [m EXCEPT !.asked = call.scopes]
  <2>1. r.asked = call.scopes /\ r.from \in Server \cup {Local}
    BY <1>2 DEF Ours, Message
  <2>2. /\ Kept \ {m} \in SUBSET Message
        /\ \A q \in Kept \ {m} : q.sock # "sa"
    BY <1>2 DEF Ours, Kept
  <2>3. /\ net' \in SUBSET Message /\ \A q \in net' : q.mine = FALSE
        /\ \A q \in net' : q.sock # "sa"
    BY <1>3, <2>2, StaleProperties
  <2>4. Ours(net')
    BY <2>3 DEF Ours
  <2> QED
    BY <1>1, <1>3, <2>1, <2>4, McastAnswerKeeps
<1>4. CASE (\E e \in {"timeout", "neterr"} : PeriodEnds(e)) /\ UNCHANGED <<told, found,
                                                                           count>>
  <2>1. PeriodEnded
    BY <1>1, <1>4, PeriodProperties DEF IInv
  <2>2. GoesOn' /\ (~x'.got => Fresh')
    BY <1>1, <1>4, <2>1, SilentKeeps DEF IInv, Heard, Mcast, PeriodEnded
  <2>3. Ours(net')
    BY <1>1, <1>2, <2>1 DEF Ours, PeriodEnded, Without
  <2> QED
    BY <1>1, <1>4, <2>1, <2>2, <2>3, ManyKeep
    DEF Continues, PeriodEnded, Mcast, IInv, TypeOK
<1> QED
  BY <1>1, <1>3, <1>4

\* A period begins; the answers are ours.
LEMMA MultiSendKeeps ==
    ASSUME IInv, MultiSend, UNCHANGED <<world, dups>>
    PROVE  IInv'
<1>1. /\ pc = "usend" /\ pc' = "urecv" /\ x' = x
      /\ \E new \in Answers("md", up \cap In({"udp"})) : net' = net \cup new
      /\ UNCHANGED <<ipv4, up, switches, cache, quiet, da, sa, told, found, count, call,
                     calls, ret, dups>>
  BY DEF MultiSend, Go, known, socks, heard, user, world
<1>2. Ours(net')
  <2>1. PICK new \in Answers("md", up \cap In({"udp"})) : net' = net \cup new
    BY <1>1
  <2>2. new \subseteq [sock : {"md"}, from : up \cap In({"udp"}),
                       asked : {call.scopes}, mine : {TRUE}]
    BY AnswersProperties
  <2>3. new \subseteq Message
    BY <2>2, CallProperties DEF Message, IInv, TypeOK
  <2> QED
    BY <1>1, <2>1, <2>2, <2>3, OursHere DEF Ours, Multi
<1>3. GoesOn' /\ (~x'.got => Fresh') /\ x \in Locals /\ x.xmit < MaxXmit
  BY <1>1, SilentKeeps DEF IInv, Heard, Multi, TypeOK, Places
<1> QED
  BY <1>1, <1>2, <1>3, ManyKeep DEF Continues, Multi, IInv, TypeOK

\* FINISHED: the last callback, or nothing told at all.
LEMMA MultiFinishKeeps ==
    ASSUME IInv, pc \in Multi, NEW result, MultiFinish(result), UNCHANGED <<world, dups>>
    PROVE  IInv'
<1> DEFINE h == LastCall([told |-> told, found |-> found, count |-> count, more |-> TRUE])
<1>1. /\ pc' = "idle" /\ x' = Idle /\ net' = Without(net, "md")
      /\ \/ ret' = "ok" /\ Telling(h)
         \/ ~x.got /\ UNCHANGED <<told, found, count>>
      /\ UNCHANGED <<ipv4, up, switches, cache, quiet, da, sa, call, calls, dups>>
  BY DEF MultiFinish, Return, Silent, known, socks, heard, user, world
<1>2. GoesOn /\ (~x.got => Fresh)
  BY DEF IInv, Heard
<1>3. Ours(net')
  BY <1>1, OursHere DEF Ours, Without
<1>4. CASE ret' = "ok" /\ Telling(h)
  <2>1. Over' /\ found' \subseteq Scope /\ count' \in 0..MaxResults + 1
    BY <1>1, <1>2, <1>4, LastTold DEF IInv
  <2> QED
    BY <1>1, <1>3, <1>4, <2>1, ManyKeep DEF Returns
<1>5. CASE ~x.got /\ UNCHANGED <<told, found, count>>
  <2>1. Fresh'
    BY <1>1, <1>2, <1>5, SilentKeeps
  <2> QED
    BY <1>1, <1>3, <1>5, <2>1, ManyKeep DEF Returns, IInv, TypeOK
<1> QED
  BY <1>1, <1>4, <1>5

\* The ways to get there.
LEMMA MultiEndsKeeps ==
    ASSUME IInv, MultiSendFails \/ MultiAllDone \/ MultiTimeOut, UNCHANGED <<world, dups>>
    PROVE  IInv'
<1>1. CASE MultiSendFails
  BY <1>1, MultiFinishKeeps DEF MultiSendFails, Multi
<1>2. CASE MultiAllDone
  BY <1>2, MultiFinishKeeps DEF MultiAllDone, Multi
<1>3. CASE MultiTimeOut
  <2>1. CASE MultiFinish("timeout")
    BY <1>3, <2>1, MultiFinishKeeps DEF MultiTimeOut, Multi
  <2>2. CASE /\ x.xmit + 1 # MaxXmit /\ pc' = "usend" /\ x' = [x EXCEPT !.xmit = @ + 1]
             /\ UNCHANGED <<cache, quiet, da, sa, told, found, count, call, calls, net>>
    <3>1. pc = "urecv" /\ x \in Locals /\ x.xmit < MaxXmit /\ MaxXmit \in Nat
      BY <1>3, UserAgentAssumption
      DEF MultiTimeOut, IInv, TypeOK, Places, Multi, UserAgentAssumption
    <3>2. x.xmit + 1 \in 0..MaxXmit /\ x.xmit + 1 < MaxXmit
      BY <2>2, <3>1 DEF Locals
    <3>3. /\ x' \in Locals /\ x'.what = x.what /\ x'.sock = x.sock /\ x'.got = x.got
          /\ x'.conn = x.conn /\ x'.xmit < MaxXmit
      BY <2>2, <3>1, <3>2 DEF Locals
    <3>4. GoesOn' /\ (~x'.got => Fresh')
      BY <2>2, <3>1, <3>3, SilentKeeps DEF IInv, Heard, Multi
    <3>5. Ours(net')
      BY <2>2, <3>1, OursHere DEF Ours, Multi
    <3> QED
      BY <2>2, <3>1, <3>3, <3>4, <3>5, ManyKeep DEF Continues, Multi, IInv, TypeOK, world
  <2> QED
    BY <1>3, <2>1, <2>2 DEF MultiTimeOut, Go, known, socks, heard, user
<1> QED
  BY <1>1, <1>2, <1>3

\* The answer of a DA, told or passed over for an error left from another one.
LEMMA MultiAnswerKeeps ==
    ASSUME IInv, pc = "urecv", NEW d \in Server \cup {Local},
           NEW result \in {"ok", "timeout", "neterr", "retry"}, MultiAnswer(d, result),
           Ours(net'), UNCHANGED <<ipv4, up, cache, quiet, da, sa, call, calls>>
    PROVE  IInv'
<1> DEFINE m == [from |-> d, asked |-> call.scopes]
<1> DEFINE y == [x EXCEPT !.conn[d] = "complete", !.got = TRUE, !.result = result]
<1>1. GoesOn /\ (~x.got => Fresh) /\ TypeOK /\ x \in Locals /\ x.xmit < MaxXmit
  BY DEF IInv, Heard, Multi, TypeOK, Places
<1>2. /\ y \in Locals /\ y.what = x.what /\ y.sock = x.sock /\ y.xmit < MaxXmit /\ y.got = TRUE
      /\ \A e \in DA : y.conn[e] = "none" => x.conn[e] = "none"
  <2>1. [x.conn EXCEPT ![d] = "complete"] \in
          [DA -> {"none", "udp", "connect", "receive", "complete", "failed"}]
    BY <1>1 DEF Locals
  <2>2. y = [x EXCEPT !.conn = [x.conn EXCEPT ![d] = "complete"], !.got = TRUE, !.result = result]
    BY <1>1 DEF Locals
  <2>3. y \in Locals
    BY <1>1, <2>1, <2>2 DEF Locals
  <2>4. /\ y.what = x.what /\ y.sock = x.sock /\ y.xmit = x.xmit /\ y.got = TRUE
        /\ y.conn = [x.conn EXCEPT ![d] = "complete"]
    BY <1>1, <2>2 DEF Locals
  <2>5. x.conn \in [DA -> {"none", "udp", "connect", "receive", "complete", "failed"}]
    BY <1>1 DEF Locals
  <2>6. \A e \in DA : y.conn[e] = "none" => x.conn[e] = "none"
    BY <2>4, <2>5
  <2> QED
    BY <1>1, <2>3, <2>4, <2>6
<1>3. m.from \in Server \cup {Local} /\ m.asked = call.scopes
  OBVIOUS
<1>4. \/ /\ Telling(Reply(m))
         /\ \/ Reply(m).more = TRUE /\ pc' = "urecv" /\ x' = y
            \/ Reply(m).more # TRUE /\ pc' = "idle" /\ x' = Idle /\ ret' = "ok"
      \/ UNCHANGED <<told, found, count>> /\ pc' = "urecv" /\ x' = y
  BY DEF MultiAnswer, Go, Return, Silent, heard
<1> HIDE DEF m, y
<1>5. CASE UNCHANGED <<told, found, count>> /\ pc' = "urecv" /\ x' = y
  <2>1. GoesOn'
    BY <1>1, <1>5, SilentKeeps
  <2> QED
    BY <1>1, <1>2, <1>5, <2>1, ManyKeep DEF Continues, Multi, TypeOK
<1>6. CASE /\ Telling(Reply(m)) /\ Reply(m).more = TRUE /\ pc' = "urecv" /\ x' = y
  <2>1. GoesOn' /\ found' \subseteq Scope /\ count' \in 0..MaxResults + 1
    BY <1>1, <1>3, <1>6, AnswerTold
  <2> QED
    BY <1>1, <1>2, <1>6, <2>1, ManyKeep DEF Continues, Multi
<1>7. CASE /\ Telling(Reply(m)) /\ Reply(m).more # TRUE
           /\ pc' = "idle" /\ x' = Idle /\ ret' = "ok"
  <2>1. Over' /\ found' \subseteq Scope /\ count' \in 0..MaxResults + 1
    BY <1>1, <1>3, <1>7, AnswerTold
  <2> QED
    BY <1>7, <2>1, ManyKeep DEF Returns, Multi
<1> QED
  BY <1>4, <1>5, <1>6, <1>7

\* The answer comes by a stream,
LEMMA MultiStreamAnswerKeeps ==
    ASSUME IInv, NEW d \in DA, MultiStreamAnswer(d), UNCHANGED <<world, dups>>
    PROVE  IInv'
<1>1. /\ pc = "urecv" /\ MultiAnswer(d, x.result) /\ net' = Kept
      /\ UNCHANGED <<ipv4, up, switches, cache, quiet, da, sa, call, calls, dups>>
  BY DEF MultiStreamAnswer, known, socks, user, world
<1>2. Ours(net')
  BY <1>1, OursHere DEF Ours, Kept, Multi
<1>3. x.result \in {"ok", "timeout", "neterr", "retry"} /\ d \in Server \cup {Local}
  BY DEF IInv, TypeOK, Locals, Server
<1> QED
  BY <1>1, <1>2, <1>3, MultiAnswerKeeps

\* A message that only sets the result.
LEMMA MultiResultKeeps ==
    ASSUME IInv, pc = "urecv", pc' = "urecv", Ours(net'), NEW r \in {"ok", "retry"},
           x' = [x EXCEPT !.result = r],
           UNCHANGED <<ipv4, up, cache, quiet, da, sa, told, found, count, call, calls>>
    PROVE  IInv'
<1>1. x \in Locals /\ x.xmit < MaxXmit
  BY DEF IInv, TypeOK, Places, Multi
<1>2. /\ x' \in Locals /\ x'.what = x.what /\ x'.sock = x.sock /\ x'.got = x.got
      /\ x'.conn = x.conn /\ x'.xmit = x.xmit
  BY <1>1 DEF Locals
<1>3. GoesOn' /\ (~x'.got => Fresh')
  BY <1>2, SilentKeeps DEF IInv, Heard, Multi
<1> QED
  BY <1>1, <1>2, <1>3, ManyKeep DEF Continues, Multi, IInv, TypeOK

\* or in a datagram.
LEMMA MultiReceiveKeeps ==
    ASSUME IInv, NEW m \in net, MultiReceive(m), UNCHANGED world
    PROVE  IInv'
<1>1. /\ pc = "urecv" /\ Taken(m)
      /\ \/ MultiAnswer(m.from, "ok")
         \/ /\ UNCHANGED <<told, found, count>>
            /\ pc' = "urecv" /\ x' = [x EXCEPT !.result = "ok"] /\ ret' = ret
      /\ UNCHANGED <<ipv4, up, switches, cache, quiet, da, sa, call, calls>>
  BY DEF MultiReceive, Silent, Go, known, socks, heard, user, world
<1>2. Ours(net) /\ Ours(net')
  BY <1>1, OursHere, TakenProperties DEF Ours, Multi
<1>3. CASE MultiAnswer(m.from, "ok")
  <2>1. m.from \in Server \cup {Local}
    BY <1>2 DEF Ours, Message
  <2> QED
    BY <1>1, <1>2, <1>3, <2>1, MultiAnswerKeeps
<1>4. CASE /\ UNCHANGED <<told, found, count>>
           /\ pc' = "urecv" /\ x' = [x EXCEPT !.result = "ok"] /\ ret' = ret
  BY <1>1, <1>2, <1>4, MultiResultKeeps
<1> QED
  BY <1>1, <1>3, <1>4

\* A connection comes one step further.
LEMMA MultiConnKeeps ==
    ASSUME IInv, pc = "urecv", pc' = "urecv", Ours(net'), NEW d \in Server \cup {Local},
           NEW c \in {"connect", "receive", "failed"}, NEW r \in {"ok", "timeout", "neterr", "retry"},
           x' = [x EXCEPT !.conn[d] = c, !.result = r],
           UNCHANGED <<ipv4, up, cache, quiet, da, sa, told, found, count, call, calls>>
    PROVE  IInv'
<1>1. x \in Locals /\ x.xmit < MaxXmit
  BY DEF IInv, TypeOK, Places, Multi
<1>2. /\ [x.conn EXCEPT ![d] = c] \in
            [DA -> {"none", "udp", "connect", "receive", "complete", "failed"}]
      /\ x' = [x EXCEPT !.conn = [x.conn EXCEPT ![d] = c], !.result = r]
  BY <1>1 DEF Locals
<1>3. x' \in Locals
  BY <1>1, <1>2 DEF Locals
<1>4. /\ x'.what = x.what /\ x'.sock = x.sock /\ x'.got = x.got /\ x'.xmit = x.xmit
      /\ x'.conn = [x.conn EXCEPT ![d] = c]
  BY <1>1, <1>2 DEF Locals
<1>5. x.conn \in [DA -> {"none", "udp", "connect", "receive", "complete", "failed"}]
  BY <1>1 DEF Locals
<1>6. \A e \in DA : x'.conn[e] = "none" => x.conn[e] = "none"
  BY <1>4, <1>5
<1>7. GoesOn' /\ (~x'.got => Fresh')
  BY <1>4, SilentKeeps DEF IInv, Heard, Multi
<1> QED
  BY <1>1, <1>3, <1>4, <1>6, <1>7, ManyKeep DEF Continues, Multi, IInv, TypeOK

\* The stream is writable.
LEMMA MultiConnectedKeeps ==
    ASSUME IInv, NEW d \in DA, MultiConnected(d), UNCHANGED <<world, dups>>
    PROVE  IInv'
<1> DEFINE c == IF d \in up THEN "receive" ELSE "failed"
<1>1. /\ pc = "urecv" /\ pc' = "urecv" /\ x' = [x EXCEPT !.conn[d] = c]
      /\ UNCHANGED <<ipv4, up, switches, cache, quiet, da, sa, told, found, count, call,
                     calls, net, dups>>
  BY DEF MultiConnected, Go, known, socks, heard, user, world
<1>2. Ours(net')
  BY <1>1, OursHere DEF Ours, Multi
<1>3. /\ c \in {"connect", "receive", "failed"} /\ d \in Server \cup {Local}
      /\ x.result \in {"ok", "timeout", "neterr", "retry"}
  BY DEF IInv, TypeOK, Locals, Server
<1>4. x' = [x EXCEPT !.conn[d] = c, !.result = x.result]
  BY <1>1 DEF IInv, TypeOK, Locals
<1> HIDE DEF c
<1> QED
  BY <1>1, <1>2, <1>3, <1>4, MultiConnKeeps

\* An answer that does not fit a datagram.
LEMMA MultiBigKeeps ==
    ASSUME IInv, NEW m \in net, MultiBig(m), UNCHANGED world
    PROVE  IInv'
<1>1. /\ pc = "urecv" /\ pc' = "urecv" /\ Taken(m)
      /\ \/ x' = [x EXCEPT !.conn[m.from] = "connect", !.result = "ok"]
         \/ x' = [x EXCEPT !.result = "retry"]
      /\ UNCHANGED <<ipv4, up, switches, cache, quiet, da, sa, told, found, count, call,
                     calls, ret>>
  BY DEF MultiBig, Go, known, socks, heard, user, world
<1>2. Ours(net) /\ Ours(net')
  BY <1>1, OursHere, TakenProperties DEF Ours, Multi
<1>3. m.from \in Server \cup {Local}
  BY <1>2 DEF Ours, Message
<1>4. CASE x' = [x EXCEPT !.conn[m.from] = "connect", !.result = "ok"]
  BY <1>1, <1>2, <1>3, <1>4, MultiConnKeeps
<1>5. CASE x' = [x EXCEPT !.result = "retry"]
  BY <1>1, <1>2, <1>5, MultiResultKeeps
<1> QED
  BY <1>1, <1>4, <1>5

-----------------------------------------------------------------------------
(* The theorems.                                                           *)

\* A user that has made no call has been told nothing.
LEMMA InitEstablishes ==
    ASSUME UserAgentInit
    PROVE  IInv
<1>1. call \in Calls
  BY UserAgentAssumption, Zenon DEF UserAgentInit, UserAgentAssumption
<1>2. x = Idle /\ Idle \in Locals /\ x.what = "none" /\ x.sock = "none"
  BY IdleProperties DEF UserAgentInit
<1>3. TypeOK
  <2>1. /\ cache = <<>> /\ da = [open |-> FALSE, addr |-> None, scope |-> {}]
        /\ sa = [state |-> "closed", scope |-> {}] /\ net = {} /\ pc = "idle"
        /\ ipv4 \in BOOLEAN /\ up = Server \cup {Local} /\ quiet = FALSE
        /\ found = {} /\ count = 0 /\ calls = 0
    BY DEF UserAgentInit
  <2>2. cache \in Seq(DA) /\ IsInjective(cache)
    BY <2>1 DEF IsInjective
  <2>3. 0 \in 0..MaxResults + 1 /\ 0 \in 0..MaxCalls
    BY UserAgentAssumption DEF UserAgentAssumption
  <2>4. da \in [open : BOOLEAN, addr : DA \cup {None}, scope : SUBSET Scope]
    BY <2>1
  <2>5. sa \in [state : {"closed", "open", "broken"}, scope : SUBSET Scope]
    BY <2>1
  <2> QED
    BY <1>1, <1>2, <2>1, <2>2, <2>3, <2>4, <2>5 DEF TypeOK
<1>4. Places
  BY <1>2 DEF UserAgentInit, Places, Single, Mcast, Multi
<1>5. DAServes /\ EveryScopeIsAsked
  BY <1>2 DEF UserAgentInit, DAServes, EveryScopeIsAsked
<1>6. NetMine /\ StreamMine
  BY DEF UserAgentInit, NetMine, StreamMine, OnStream
<1>7. Heard
  BY DEF UserAgentInit, Heard, Single, Mcast, Multi, Sound, IsInjective
<1> QED
  BY <1>3, <1>4, <1>5, <1>6, <1>7 DEF IInv

\* Every step keeps the invariant.
LEMMA NextKeeps ==
    ASSUME IInv, [UserAgentNext]_vars
    PROVE  IInv'
<1>1. CASE Choosing /\ UNCHANGED <<world, dups>>
  BY <1>1, KnownDAProcessSrvRqstKeeps, ProcessSrvRqstKeeps, RefreshKeeps,
     NetworkConnectToDAKeeps, KnownDAConnectKeeps, NetworkConnectToSAKeeps
  DEF Choosing
<1>2. CASE Engines /\ UNCHANGED <<world, dups>>
  <2>1. CASE \/ RqstSend \/ RqstSendFails \/ RqstGivesUp \/ RqstTimeOut \/ StreamEnds
             \/ ProbeBack \/ FindBack \/ UcastBack \/ RegBack
    BY <1>2, <2>1, RqstSendKeeps, ErrorKeeps, RqstTimeOutKeeps, ProbeBackKeeps,
       FindBackKeeps, UcastBackKeeps, RegBackKeeps
  <2>2. CASE \/ McastSend \/ McastTimeOut \/ McastEnds
             \/ MultiSend \/ MultiSendFails \/ MultiAllDone \/ MultiTimeOut
    BY <1>2, <2>2, McastSendKeeps, McastTimeOutKeeps, McastEndsKeeps, MultiSendKeeps,
       MultiEndsKeeps
  <2>3. CASE \E d \in DA : MultiConnected(d) \/ MultiStreamAnswer(d)
    BY <1>2, <2>3, MultiConnectedKeeps, MultiStreamAnswerKeeps
  <2> QED
    BY <1>2, <2>1, <2>2, <2>3 DEF Engines
<1>3. CASE Receives /\ UNCHANGED world
  <2>1. PICK m \in net :
          \/ ProbeReceive(m) \/ FindReceive(m) \/ RegReceive(m) \/ RqstIgnores(m)
          \/ McastReceive(m) \/ McastBig(m)
          \/ MultiReceive(m) \/ MultiBig(m)
    BY <1>3 DEF Receives
  <2> QED
    BY <1>3, <2>1, ProbeReceiveKeeps, FindReceiveKeeps, RegReceiveKeeps, RqstIgnoresKeeps,
       McastReceiveKeeps, McastBigKeeps, MultiReceiveKeeps, MultiBigKeeps
<1>4. CASE (\E c \in Calls : SLPFindSrvs(c)) /\ UNCHANGED <<world, dups>>
  BY <1>4, SLPFindSrvsKeeps
<1>5. CASE \/ \E s \in Server \cup {Local} : Stop(s) \/ Start(s)
           \/ DaemonCloses \/ IntervalPasses \/ UNCHANGED vars
  BY <1>5, WorldKeeps
<1> QED
  BY <1>1, <1>2, <1>3, <1>4, <1>5 DEF UserAgentNext, Library

\* The invariant holds: in particular, at any point of a call of libslp what was told,
\* what is collated on the handle and the result the engine will return agree.
THEOREM Invariant == UserAgentSpec => []IInv
<1>1. UserAgentInit => IInv
  BY InitEstablishes
<1>2. IInv /\ [UserAgentNext]_vars => IInv'
  BY NextKeeps
<1> QED
  BY <1>1, <1>2, PTL DEF UserAgentSpec

\* The state of a handle keeps its types; so every DA is in the cache once
\* (KnownDAAdd), and no engine transmits more often than it may.
THEOREM TypeCorrect == UserAgentSpec => []TypeOK
<1>1. IInv => TypeOK
  BY DEF IInv
<1> QED
  BY <1>1, Invariant, PTL

\* The agents a search is put to by unicast serve between them all its scopes, also
\* where NetworkConnectToDA uses a socket of an earlier call again.
THEOREM NoScopeIsPassedOver == UserAgentSpec => []EveryScopeIsAsked
<1>1. IInv => EveryScopeIsAsked
  BY DEF IInv
<1> QED
  BY <1>1, Invariant, PTL

\* However late an answer comes, and whichever socket it comes by, the user is told
\* of its own call only, of every URL once, and nothing after the last callback.
THEOREM LateAnswersAreToldToNobody == UserAgentSpec => []AnswersAreMine
<1>1. IInv => AnswersAreMine
  <2> SUFFICES ASSUME IInv PROVE AnswersAreMine
    OBVIOUS
  <2> USE DEF IInv
  <2>1. ASSUME Searching PROVE Sound(told)
    <3>1. Fresh => Sound(told)
      BY DEF Fresh, Sound, IsInjective
    <3>2. GoesOn => Sound(told)
      <4> SUFFICES ASSUME GoesOn PROVE Sound(told)
        OBVIOUS
      <4>1. told \in Seq(call.scopes) /\ IsInjective(told) /\ NoMore \notin call.scopes
        BY CallProperties DEF GoesOn, TypeOK
      <4>2. told \in Seq(call.scopes \cup {NoMore})
        BY <4>1
      <4>3. \A i \in DOMAIN told : told[i] # NoMore
        BY <4>1, LenProperties
      <4> QED
        BY <4>1, <4>2, <4>3 DEF Sound
    <3>3. Over => Sound(told)
      BY DEF Over
    <3>4. pc \in Single => x.what \in {"probe", "find"}
      BY <2>1 DEF Places, Searching
    <3> QED
      BY <2>1, <3>1, <3>2, <3>3, <3>4 DEF Heard, TypeOK, Single, Mcast, Multi
  <2>2. ASSUME call.op = "reg" PROVE told \in {<<>>, TheDaemons}
    <3>1. pc \in Single => x.what = "reg"
      BY <2>2 DEF Places, Searching
    <3>2. pc \notin {"path", "connect", "probe", "das"} \cup Mcast \cup Multi
      BY <2>2 DEF Places, Searching
    <3> QED
      BY <2>2, <3>1, <3>2 DEF Heard, Fresh, TypeOK, Single, Mcast, Multi
  <2>3. \A i \in DOMAIN told : Sound(told) => told[i] \in call.scopes \cup {NoMore}
    BY LenProperties DEF Sound
  <2>4. call.op = "reg" =>
          \A i \in DOMAIN told :
             i = 1 /\ told[i] = IF call.scopes \subseteq Scopes[Local] THEN "ok" ELSE "refused"
    BY <2>2 DEF TheDaemons
  <2>5. call.op \in {"find", "sas"} => Sound(told)
    BY <2>1 DEF Searching
  <2> QED
    BY <2>3, <2>4, <2>5 DEF AnswersAreMine, Sound
<1> QED
  BY <1>1, Invariant, PTL

-----------------------------------------------------------------------------
(* What success means, where no stream ends before its answer.             *)

Clear(n) == \A m \in n : m.sock # "md"

\* A DA that is connected to is up, so that every connection that is over
\* brought an answer; no datagram outlives the engine that asked for it.
Streams ==
    /\ pc \notin Multi => Clear(net)
    /\ pc \in Multi =>
         /\ \A d \in DA : x.conn[d] = "complete" => x.got
         /\ \E d \in DA : x.conn[d] # "none"
         /\ \A d \in DA : x.conn[d] # "failed"
         /\ \A d \in DA : x.conn[d] \in {"connect", "receive"} => d \in Big /\ d \in up
         /\ \A m \in net :
              m.sock = "md" /\ m.from \in Big \cap DA /\ x.conn[m.from] = "udp" => m.from \in up

\* A search that succeeds has told its user that it is over.
Ends == pc = "idle" /\ Searching /\ ret = "ok" => Closed(told)

\* Messages that are dropped, made stale or taken leave no others.
LEMMA ClearProperties ==
    ASSUME IInv, Clear(net)
    PROVE  /\ \A s : Clear(Without(net, s))
           /\ Clear(Stale(net)) /\ Clear(Stale(Without(net, "sa")))
           /\ \A m : Taken(m) => Clear(net')
<1>1. net \in SUBSET Message /\ Without(net, "sa") \in SUBSET Message
  BY DEF IInv, TypeOK, Without
<1>2. /\ \A m \in net : m.sock # "md"
      /\ \A m \in Without(net, "sa") : m.sock # "md"
  BY DEF Clear, Without
<1>3. \A s : Clear(Without(net, s))
  BY DEF Clear, Without
<1>4. Clear(Stale(net)) /\ Clear(Stale(Without(net, "sa")))
  BY <1>1, <1>2, StaleProperties DEF Clear
<1>5. \A m : Taken(m) => Clear(net')
  BY DEF Clear, Taken, Kept
<1> QED
  BY <1>3, <1>4, <1>5

\* The steps of a call that waits for nobody or for one peer, up to its return.
LEMMA SingleEnds ==
    ASSUME IInv, Streams, Ends,
           \/ RefreshForSpan \/ NetworkConnectToDA \/ KnownDAConnect \/ RefreshForDA
           \/ RqstSendFails \/ RqstGivesUp \/ RqstTimeOut \/ StreamEnds \/ ProbeBack
           \/ RqstSend \/ McastSend \/ McastTimeOut
           \/ \E m \in net : \/ ProbeReceive(m) \/ FindReceive(m) \/ RegReceive(m)
                             \/ RqstIgnores(m)
           \/ \E c \in Calls : SLPFindSrvs(c)
    PROVE  Streams' /\ Ends'
<1>1. Clear(net) \/ pc \in Multi
  BY DEF Streams
<1>2. SUFFICES pc' \notin Multi \cup {"idle"} /\ Clear(net')
  BY DEF Streams, Ends, Multi
<1>3. CASE RefreshForSpan \/ RefreshForDA
  BY <1>1, <1>3 DEF RefreshForSpan, RefreshForDA, RefreshCache, Multi
<1>4. CASE NetworkConnectToDA
  <2>1. Clear(Stale(net)) /\ Clear(Without(net, "da"))
    BY <1>1, <1>4, ClearProperties DEF NetworkConnectToDA, Multi
  <2> QED
    BY <1>4, <2>1 DEF NetworkConnectToDA, Go, Multi
<1>5. CASE KnownDAConnect
  <2>1. Clear(Stale(net))
    BY <1>1, <1>5, ClearProperties DEF KnownDAConnect, Multi
  <2> QED
    BY <1>5, <2>1 DEF KnownDAConnect, Go, Multi
<1>6. CASE RqstSendFails \/ RqstGivesUp \/ RqstTimeOut \/ StreamEnds
  BY <1>1, <1>6 DEF RqstSendFails, RqstGivesUp, RqstTimeOut, StreamEnds, Go, Multi
<1>7. CASE ProbeBack
  <2>1. Clear(Stale(net)) /\ Clear(Without(net, "da"))
    BY <1>1, <1>7, ClearProperties DEF ProbeBack, Multi
  <2> QED
    BY <1>7, <2>1 DEF ProbeBack, Go, Multi
<1>8. CASE RqstSend
  <2>1. Clear(net) /\ x.sock # "md"
    BY <1>1, <1>8 DEF RqstSend, Multi, IInv, Places, Single
  <2>2. PICK agents : \E new \in Answers(x.sock, agents) : net' = net \cup new
    BY <1>8 DEF RqstSend
  <2>3. PICK new \in Answers(x.sock, agents) : net' = net \cup new
    BY <2>2
  <2>4. new \subseteq [sock : {x.sock}, from : agents, asked : {call.scopes}, mine : {TRUE}]
    BY AnswersProperties
  <2> QED
    BY <1>8, <2>1, <2>3, <2>4 DEF RqstSend, Go, Clear, Multi
<1>9. CASE McastSend
  <2>1. PICK new \in Answers("mc", (up \cap Server) \ x.pr) : net' = net \cup new
    BY <1>9 DEF McastSend
  <2>2. new \subseteq [sock : {"mc"}, from : (up \cap Server) \ x.pr,
                       asked : {call.scopes}, mine : {TRUE}]
    BY AnswersProperties
  <2> QED
    BY <1>1, <1>9, <2>1, <2>2 DEF McastSend, Go, Clear, Multi
<1>10. CASE McastTimeOut
  <2>1. Clear(Without(net, "mc"))
    BY <1>1, <1>10, ClearProperties DEF McastTimeOut, Multi
  <2> QED
    BY <1>10, <2>1 DEF McastTimeOut, PeriodEnds, Go, Multi
<1>11. ASSUME NEW m \in net, ProbeReceive(m) \/ FindReceive(m) \/ RqstIgnores(m)
       PROVE  pc' \notin Multi \cup {"idle"} /\ Clear(net')
  <2>1. pc = "recv" /\ pc' \in {"recv", "back"} /\ Taken(m)
    BY <1>11 DEF ProbeReceive, FindReceive, RqstIgnores, Go, agent
  <2> QED
    BY <1>1, <2>1, ClearProperties DEF Multi
<1>12. ASSUME NEW m \in net, RegReceive(m)
       PROVE  pc' \notin Multi \cup {"idle"} /\ Clear(net')
  BY <1>1, <1>12 DEF RegReceive, Go, Clear, Multi
<1>13. ASSUME NEW c \in Calls, SLPFindSrvs(c)
       PROVE  pc' \notin Multi \cup {"idle"} /\ Clear(net')
  BY <1>1, <1>13 DEF SLPFindSrvs, Multi
<1> QED
  BY <1>3, <1>4, <1>5, <1>6, <1>7, <1>8, <1>9, <1>10, <1>11, <1>12, <1>13

\* The returns from there.
LEMMA ReturnEnds ==
    ASSUME IInv, Streams, Ends,
           \/ KnownDAProcessSrvRqst \/ NetworkConnectToSA \/ FindBack \/ UcastBack \/ RegBack
    PROVE  Streams' /\ Ends'
<1>1. /\ pc \notin Multi /\ pc' \notin Multi
      /\ net' \in {net, Stale(net), Stale(Without(net, "sa")), Without(net, "da"),
                   Without(net, "sa")}
  BY
  DEF KnownDAProcessSrvRqst, NetworkConnectToSA, FindBack, UcastBack, RegBack, Go, Return,
         Multi
<1>2. Streams'
  BY <1>1, ClearProperties DEF Streams
<1>3. CASE KnownDAProcessSrvRqst \/ RegBack
  <2>1. call' = call /\ call.op \in {"das", "reg"}
    BY <1>3 DEF KnownDAProcessSrvRqst, RegBack, user, IInv, Places, Single
  <2> QED
    BY <1>2, <2>1 DEF Ends, Searching
<1>4. CASE NetworkConnectToSA
  BY <1>2, <1>4 DEF NetworkConnectToSA, Go, Return, Ends
<1>5. CASE FindBack \/ UcastBack
  <2>1. /\ UNCHANGED <<told, found, count, call>>
        /\ pc' = "idle" /\ ret' = "ok" => pc = "back" /\ x.what = "find" /\ x.result = "ok"
    BY <1>5 DEF FindBack, UcastBack, Go, Return, heard, user, IInv, Places, Single
  <2>2. pc' = "idle" /\ ret' = "ok" => Over'
    BY <2>1, SilentKeeps DEF IInv, Heard
  <2> QED
    BY <1>2, <2>2 DEF Ends, Over
<1> QED
  BY <1>3, <1>4, <1>5

\* The multicast engine.
LEMMA McastAnswerEnds ==
    ASSUME IInv, pc = "mrecv", NEW m, m.asked = call.scopes, m.from \in Server \cup {Local},
           McastAnswer(m), UNCHANGED call
    PROVE  pc' \notin Multi /\ Ends'
<1>1. TypeOK /\ GoesOn
  BY DEF IInv, Heard, Mcast
<1>2. /\ Telling(Reply(m))
      /\ pc' = "mrecv" \/ (pc' = "idle" /\ Reply(m).more # TRUE)
  BY DEF McastAnswer, Go, Return
<1>3. Reply(m).more # TRUE => Over'
  BY <1>1, <1>2, AnswerTold
<1> QED
  BY <1>2, <1>3 DEF Ends, Over, Multi

\* NetworkMcastRqstRply returns success after a last callback, or as the user had enough.
LEMMA McastEnd ==
    ASSUME IInv, Streams, Ends, McastEnds \/ \E m \in net : McastReceive(m) \/ McastBig(m)
    PROVE  Streams' /\ Ends'
<1>1. CASE McastEnds
  <2> DEFINE h == LastCall([told |-> told, found |-> found, count |-> count, more |-> TRUE])
  <2>1. /\ pc = "msend" /\ pc' = "idle" /\ net' = net /\ call' = call
        /\ Telling(h) \/ ret' = "neterr"
    BY <1>1 DEF McastEnds, Return, user
  <2>2. Telling(h) => Over'
    BY <2>1, LastTold DEF IInv, Heard, Mcast
  <2> QED
    BY <2>1, <2>2 DEF Streams, Ends, Over, Multi
<1>2. ASSUME NEW m \in net, McastReceive(m) PROVE Streams' /\ Ends'
  <2>1. pc = "mrecv" /\ Taken(m) /\ call' = call /\ Clear(net)
    BY <1>2 DEF McastReceive, user, Streams, Multi
  <2>2. Clear(net')
    BY <2>1, ClearProperties
  <2>3. CASE m.mine /\ McastAnswer(m)
    <3>1. m.asked = call.scopes /\ m.from \in Server \cup {Local}
      BY <2>1, <2>3, OursHere DEF Ours, Message, Mcast
    <3> QED
      BY <2>1, <2>2, <2>3, <3>1, McastAnswerEnds DEF Streams
  <2>4. CASE pc' = pc
    BY <2>1, <2>2, <2>4 DEF Streams, Ends, Multi
  <2> QED
    BY <1>2, <2>3, <2>4 DEF McastReceive, Accepts
<1>3. ASSUME NEW m \in net, McastBig(m) PROVE Streams' /\ Ends'
  <2>1. pc = "mrecv" /\ call' = call /\ Clear(net)
    BY <1>3 DEF McastBig, user, Streams, Multi
  <2>2. CASE McastAnswer([m EXCEPT !.asked = call.scopes]) /\ net' = Stale(Kept \ {m})
    <3> DEFINE r == [m EXCEPT !.asked = call.scopes]
    <3>1. r.asked = call.scopes /\ r.from \in Server \cup {Local}
      BY DEF IInv, TypeOK, Message
    <3>2. Clear(net')
      <4>1. Kept \ {m} \in SUBSET Message /\ \A q \in Kept \ {m} : q.sock # "md"
        BY <2>1 DEF Clear, Kept, IInv, TypeOK
      <4> QED
        BY <2>2, <4>1, StaleProperties DEF Clear
    <3>3. pc' \notin Multi /\ Ends'
      <4> HIDE DEF r
      <4> QED
        BY <2>1, <2>2, <3>1, McastAnswerEnds DEF r
    <3> QED
      BY <3>2, <3>3 DEF Streams
  <2>3. CASE \E e \in {"timeout", "neterr"} : PeriodEnds(e)
    <3>1. pc' = "msend" /\ net' = Without(net, "mc")
      BY <2>3 DEF PeriodEnds, Go
    <3> QED
      BY <2>1, <3>1, ClearProperties DEF Streams, Ends, Multi
  <2> QED
    BY <1>3, <2>2, <2>3 DEF McastBig
<1> QED
  BY <1>1, <1>2, <1>3

\* The choice of several DAs, all of them still to be asked.
LEMMA ChoiceEnds ==
    ASSUME IInv, Streams, Ends, ProcessSrvRqst
    PROVE  Streams' /\ Ends'
<1> DEFINE c == [d \in DA |-> IF d \in SpanningList THEN "udp" ELSE "none"]
<1>1. /\ pc = "path" /\ pc' \in {"send", "usend", "msend", "connect"}
      /\ pc' = "usend" => /\ SpanningList # {}
                          /\ x' = [Exchange("find", "md", None) EXCEPT !.conn = c]
      /\ net' = net \/ net' = Stale(net)
  BY DEF ProcessSrvRqst, Go
<1>2. Clear(net')
  BY <1>1, ClearProperties DEF Streams, Multi
<1>3. ASSUME pc' = "usend"
      PROVE  (\E d \in DA : x'.conn[d] # "none") /\ \A d \in DA : x'.conn[d] \in {"none", "udp"}
  <2>1. x'.conn = c
    BY <1>1, <1>3 DEF Exchange
  <2>2. SpanningList \in SUBSET DA /\ SpanningList # {}
    BY <1>1, <1>3, SpanningListProperties DEF IInv
  <2> QED
    BY <2>1, <2>2
<1> QED
  BY <1>1, <1>2, <1>3 DEF Streams, Ends, Clear, Multi

\* An answer completes its connection.
LEMMA MultiAnswerEnds ==
    ASSUME IInv, Streams, pc = "urecv", NEW d \in Server \cup {Local}, NEW result,
           MultiAnswer(d, result), UNCHANGED <<up, call>>,
           net' \subseteq net, pc' = "idle" => net' \subseteq Kept
    PROVE  Streams' /\ Ends'
<1> DEFINE m == [from |-> d, asked |-> call.scopes]
<1> DEFINE y == [x EXCEPT !.conn[d] = "complete", !.got = TRUE, !.result = result]
<1>1. GoesOn /\ TypeOK /\ x \in Locals
  BY DEF IInv, Heard, Multi, TypeOK
<1>2. m.from \in Server \cup {Local} /\ m.asked = call.scopes
  OBVIOUS
<1>3. y.got = TRUE /\ \A e \in DA : y.conn[e] = IF e = d THEN "complete" ELSE x.conn[e]
  BY <1>1 DEF Locals
<1>4. \/ pc' = "urecv" /\ x' = y
      \/ Telling(Reply(m)) /\ Reply(m).more # TRUE /\ pc' = "idle"
  BY DEF MultiAnswer, Go, Return
<1> HIDE DEF m, y
<1>5. CASE pc' = "urecv" /\ x' = y
  <2>1. \E e \in DA : x.conn[e] # "none"
    BY DEF Streams, Multi
  <2>2. \E e \in DA : y.conn[e] # "none"
    BY <1>3, <2>1
  <2>3. /\ \A e \in DA : y.conn[e] # "failed"
        /\ \A e \in DA : y.conn[e] \in {"connect", "receive"} => e \in Big /\ e \in up
        /\ \A q \in net : q.sock = "md" /\ q.from \in Big \cap DA /\ y.conn[q.from] = "udp" =>
                            q.from \in up
    BY <1>3 DEF Streams, Multi
  <2> QED
    BY <1>3, <1>5, <2>2, <2>3 DEF Streams, Ends, Multi
<1>6. CASE Telling(Reply(m)) /\ Reply(m).more # TRUE /\ pc' = "idle"
  <2>1. Over'
    BY <1>1, <1>2, <1>6, AnswerTold
  <2>2. Clear(net')
    BY <1>6 DEF Kept, Clear
  <2> QED
    BY <1>6, <2>1, <2>2 DEF Streams, Ends, Over, Multi
<1> QED
  BY <1>4, <1>5, <1>6

\* The end of the engine: the result is not success unless there was an answer.
LEMMA MultiFinishEnds ==
    ASSUME IInv, pc \in Multi, NEW result, x.got \/ result # "ok", MultiFinish(result)
    PROVE  Streams' /\ Ends'
<1> DEFINE h == LastCall([told |-> told, found |-> found, count |-> count, more |-> TRUE])
<1>1. /\ pc' = "idle" /\ net' = Without(net, "md") /\ call' = call
      /\ Telling(h) \/ (~x.got /\ ret' = result)
  BY DEF MultiFinish, Return, user
<1>2. Telling(h) => Over'
  BY <1>1, LastTold DEF IInv, Heard
<1> QED
  BY <1>1, <1>2 DEF Streams, Ends, Over, Clear, Without, Multi

\* A datagram of the engine: what cannot fit is asked for by a stream.
LEMMA MultiReceives ==
    ASSUME IInv, Streams, Ends, NEW m \in net, MultiReceive(m) \/ MultiBig(m), UNCHANGED world
    PROVE  Streams' /\ Ends'
<1>1. /\ pc = "urecv" /\ Taken(m) /\ call' = call /\ up' = up /\ x \in Locals
      /\ m.from \in Server \cup {Local} /\ m.sock = "md"
  BY DEF MultiReceive, MultiBig, user, world, IInv, TypeOK, Message, Arrived, Places, Multi
<1>2. net' \subseteq net /\ net' \subseteq Kept
  BY <1>1 DEF Taken, Kept
<1>3. CASE MultiReceive(m) /\ MultiAnswer(m.from, "ok")
  BY <1>1, <1>2, <1>3, MultiAnswerEnds
<1>4. CASE pc' = "urecv" /\ x'.conn = x.conn /\ x'.got = x.got
  BY <1>1, <1>2, <1>4 DEF Streams, Ends, Multi
<1>5. CASE /\ MultiBig(m) /\ x.conn[m.from] = "udp"
           /\ x' = [x EXCEPT !.conn[m.from] = "connect", !.result = "ok"]
  <2>1. pc' = "urecv" /\ m.from \in Big
    BY <1>5 DEF MultiBig, Go
  <2>2. /\ x'.got = x.got
        /\ \A e \in DA : x'.conn[e] = IF e = m.from THEN "connect" ELSE x.conn[e]
    BY <1>1, <1>5 DEF Locals
  <2>3. m.from \in DA => m.from \in up
    BY <1>1, <1>5, <2>1 DEF Streams, Multi
  <2>4. \E e \in DA : x.conn[e] # "none"
    BY <1>1 DEF Streams, Multi
  <2>5. \E e \in DA : x'.conn[e] # "none"
    BY <2>2, <2>4
  <2>6. /\ \A e \in DA : x'.conn[e] # "failed"
        /\ \A e \in DA : x'.conn[e] = "complete" => x'.got
        /\ \A e \in DA : x'.conn[e] \in {"connect", "receive"} => e \in Big /\ e \in up
        /\ \A q \in net : q.sock = "md" /\ q.from \in Big \cap DA /\ x'.conn[q.from] = "udp" =>
                            q.from \in up
    BY <1>1, <2>1, <2>2, <2>3 DEF Streams, Multi
  <2> QED
    BY <1>1, <1>2, <2>1, <2>5, <2>6 DEF Streams, Ends, Multi
<1>6. \/ MultiReceive(m) /\ MultiAnswer(m.from, "ok")
      \/ pc' = "urecv" /\ x' = [x EXCEPT !.result = "ok"]
      \/ pc' = "urecv" /\ x' = [x EXCEPT !.result = "retry"]
      \/ /\ MultiBig(m) /\ x.conn[m.from] = "udp"
         /\ x' = [x EXCEPT !.conn[m.from] = "connect", !.result = "ok"]
  BY DEF MultiReceive, MultiBig, Go
<1> QED
  BY <1>1, <1>3, <1>4, <1>5, <1>6 DEF Locals

\* The other steps of the engine.
LEMMA MultiSteps ==
    ASSUME IInv, Streams, Ends, UNCHANGED world,
           \/ MultiSend \/ MultiSendFails \/ MultiAllDone \/ MultiTimeOut
           \/ \E d \in DA : MultiConnected(d) \/ MultiStreamAnswer(d)
    PROVE  Streams' /\ Ends'
<1>1. x \in Locals /\ up' = up
  BY DEF IInv, TypeOK, world
<1>2. CASE MultiSend
  <2>1. PICK new \in Answers("md", up \cap In({"udp"})) : net' = net \cup new
    BY <1>2 DEF MultiSend
  <2>2. new \subseteq [sock : {"md"}, from : up \cap In({"udp"}),
                       asked : {call.scopes}, mine : {TRUE}]
    BY AnswersProperties
  <2>3. pc = "usend" /\ pc' = "urecv" /\ x' = x
    BY <1>2 DEF MultiSend, Go
  <2> QED
    BY <1>1, <2>1, <2>2, <2>3 DEF Streams, Ends, Multi
<1>3. CASE MultiSendFails
  BY <1>3, MultiFinishEnds DEF MultiSendFails, Multi
<1>4. CASE MultiAllDone
  <2>1. \A d \in DA : x.conn[d] \in {"none", "complete", "failed"}
    BY <1>1, <1>4 DEF MultiAllDone, In, Locals
  <2>2. x.got
    BY <1>4, <2>1 DEF MultiAllDone, Streams, Multi
  <2> QED
    BY <1>4, <2>2, MultiFinishEnds DEF MultiAllDone, Multi
<1>5. CASE MultiTimeOut
  <2>1. CASE MultiFinish("timeout")
    BY <1>5, <2>1, MultiFinishEnds DEF MultiTimeOut, Multi
  <2>2. CASE pc = "urecv" /\ pc' = "usend" /\ x' = [x EXCEPT !.xmit = @ + 1] /\ net' = net
    <3>1. x'.conn = x.conn /\ x'.got = x.got
      BY <1>1, <2>2 DEF Locals
    <3> QED
      BY <1>1, <2>2, <3>1 DEF Streams, Ends, Multi
  <2> QED
    BY <1>5, <2>1, <2>2 DEF MultiTimeOut, Go
<1>6. ASSUME NEW d \in DA, MultiConnected(d) PROVE Streams' /\ Ends'
  <2>1. pc = "urecv" /\ pc' = "urecv" /\ net' = net /\ x.conn[d] = "connect"
    BY <1>6 DEF MultiConnected, Go
  <2>2. d \in up /\ d \in Big
    BY <2>1 DEF Streams, Multi
  <2>3. x'.got = x.got /\ \A e \in DA : x'.conn[e] = IF e = d THEN "receive" ELSE x.conn[e]
    BY <1>1, <1>6, <2>2 DEF MultiConnected, Go, Locals
  <2>4. \E e \in DA : x'.conn[e] # "none"
    BY <2>3
  <2>5. /\ \A e \in DA : x'.conn[e] # "failed"
        /\ \A e \in DA : x'.conn[e] = "complete" => x'.got
        /\ \A e \in DA : x'.conn[e] \in {"connect", "receive"} => e \in Big /\ e \in up
        /\ \A q \in net : q.sock = "md" /\ q.from \in Big \cap DA /\ x'.conn[q.from] = "udp" =>
                            q.from \in up
    BY <2>1, <2>2, <2>3 DEF Streams, Multi
  <2> QED
    BY <1>1, <2>1, <2>4, <2>5 DEF Streams, Ends, Multi
<1>7. ASSUME NEW d \in DA, MultiStreamAnswer(d) PROVE Streams' /\ Ends'
  <2>1. pc = "urecv" /\ net' = Kept /\ Kept \subseteq net /\ call' = call
    BY <1>7 DEF MultiStreamAnswer, Kept, user
  <2> QED
    BY <1>1, <1>7, <2>1, MultiAnswerEnds DEF MultiStreamAnswer, Server
<1> QED
  BY <1>2, <1>3, <1>4, <1>5, <1>6, <1>7

\* The servers: one that answers by a stream does not go down before.
LEMMA WorldEnds ==
    ASSUME ~TcpMayFail, IInv, Streams, Ends,
           \/ \E s \in Server \cup {Local} : Stop(s) \/ Start(s)
           \/ DaemonCloses \/ IntervalPasses \/ UNCHANGED vars
    PROVE  Streams' /\ Ends'
<1>1. UNCHANGED <<call, told, ret, pc, x, net>>
  BY DEF Stop, Start, DaemonCloses, IntervalPasses, vars, agent, heard, user
<1>2. Ends' /\ Multi' = Multi
  BY <1>1 DEF Ends, Searching, Closed, Multi
<1>3. x \in Locals
  BY DEF IInv, TypeOK
<1>4. CASE up \subseteq up'
  BY <1>1, <1>2, <1>4 DEF Streams, Clear
<1>5. ASSUME NEW s \in Server \cup {Local}, Stop(s) PROVE Streams'
  <2>1. up' = up \ {s} /\ s \notin Big \cap In({"udp", "connect", "receive"})
    BY <1>5 DEF Stop, Streaming
  <2>2. \A d \in DA : d \in Big /\ x.conn[d] \in {"udp", "connect", "receive"} => d # s
    BY <2>1 DEF In
  <2>3. pc \in Multi =>
          /\ \A d \in DA : x.conn[d] \in {"connect", "receive"} => d \in Big /\ d \in up'
          /\ \A m \in net : m.sock = "md" /\ m.from \in Big \cap DA /\ x.conn[m.from] = "udp" =>
                              m.from \in up'
    BY <2>1, <2>2 DEF Streams
  <2> QED
    BY <1>1, <1>2, <2>3 DEF Streams, Clear
<1> QED
  BY <1>2, <1>4, <1>5 DEF Start, DaemonCloses, IntervalPasses, vars, world

\* Every step keeps this.
LEMMA NextEnds ==
    ASSUME ~TcpMayFail, IInv, Streams, Ends, [UserAgentNext]_vars
    PROVE  Streams' /\ Ends'
<1>1. CASE Choosing /\ UNCHANGED <<world, dups>>
  BY <1>1, SingleEnds, ReturnEnds, ChoiceEnds DEF Choosing
<1>2. CASE Engines /\ UNCHANGED <<world, dups>>
  BY <1>2, SingleEnds, ReturnEnds, McastEnd, MultiSteps DEF Engines
<1>3. CASE Receives /\ UNCHANGED world
  BY <1>3, SingleEnds, McastEnd, MultiReceives DEF Receives
<1>4. CASE \E c \in Calls : SLPFindSrvs(c)
  BY <1>4, SingleEnds
<1>5. CASE \/ \E s \in Server \cup {Local} : Stop(s) \/ Start(s)
           \/ DaemonCloses \/ IntervalPasses \/ UNCHANGED vars
  BY <1>5, WorldEnds
<1> QED
  BY <1>1, <1>2, <1>3, <1>4, <1>5 DEF UserAgentNext, Library

\* Unless a stream of NetworkMultiUcastRqstRply ends before its answer, a call that
\* returns success has told the user so: SLP_LAST_CALL came, or the user stopped it.
\* With such streams MultiAllDone may find every connection over, none with an
\* answer, and the result left at SLP_OK, with the user told nothing.
THEOREM SuccessMeansTold ==
    ASSUME ~TcpMayFail
    PROVE  UserAgentSpec => []EndsAsPromised
<1>1. UserAgentInit => Streams /\ Ends
  BY DEF UserAgentInit, Streams, Clear, Ends, Multi
<1>2. IInv /\ IInv' /\ Streams /\ Ends /\ [UserAgentNext]_vars => Streams' /\ Ends'
  BY NextEnds
<1>3. IInv /\ Ends => EndsAsPromised
  BY DEF IInv, Heard, Ends, Closed, Searching, TheDaemons, EndsAsPromised
<1> QED
  BY <1>1, <1>2, <1>3, Invariant, PTL DEF UserAgentSpec
=============================================================================
