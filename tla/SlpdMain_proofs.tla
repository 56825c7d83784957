-------------------------- MODULE SlpdMain_proofs --------------------------
(***************************************************************************)
(* Proofs about the main loop and the incoming sockets: every state is     *)
(* well typed, and messages are taken off a stream whole, however it is    *)
(* cut into segments and whatever the other sockets and the signals do     *)
(* meanwhile, for every set of clients and everything they send.           *)
(***************************************************************************)
EXTENDS SlpdMain, SlpSequences

-----------------------------------------------------------------------------
(* The length of a plan and of its beginnings.                             *)

\* Total adds the numbers of a sequence up, one position after the other.
LEMMA TotalIsAFold ==
    ASSUME NEW p \in Seq(Nat)
    PROVE  \E it \in [SUBSET (1..Len(p)) -> Nat] :
              /\ Total(p) = it[1..Len(p)]
              /\ \A s \in SUBSET (1..Len(p)) :
                    it[s] = IF s = {} THEN 0 ELSE it[s \ {Max(s)}] + p[Max(s)]
<1> DEFINE n == Len(p)
<1> DEFINE step == [y \in Nat \X (1..n) |-> y[1] + p[y[2]]]
<1>1. n \in Nat /\ DOMAIN p = 1..n /\ \A i \in 1..n : p[i] \in Nat
  BY LenProperties
<1>2. step \in [Nat \X (1..n) -> Nat]
  <2> SUFFICES ASSUME NEW y \in Nat \X (1..n) PROVE y[1] + p[y[2]] \in Nat
    OBVIOUS
  <2>1. y[1] \in Nat /\ y[2] \in 1..n
    OBVIOUS
  <2>2. p[y[2]] \in Nat
    BY <1>1, <2>1
  <2> QED
    BY <2>1, <2>2
<1> DEFINE Eq(it) == it = [s \in SUBSET (1..n) |->
                              IF s = {} THEN 0 ELSE it[s \ {Max(s)}] + p[Max(s)]]
<1>3. PICK it \in [SUBSET (1..n) -> Nat] : FoldsWith(it, n, 0, step)
  <2>1. 0 \in Nat
    OBVIOUS
  <2> HIDE DEF n, step
  <2> QED
    BY <1>1, <1>2, <2>1, FoldExists
<1>4. \A s \in SUBSET (1..n) : s # {} => Max(s) \in 1..n /\ s \ {Max(s)} \in SUBSET (1..n)
  BY <1>1, LargestPosition
<1>5. \A s \in SUBSET (1..n) : it[s] = IF s = {} THEN 0 ELSE it[s \ {Max(s)}] + p[Max(s)]
  <2> HIDE DEF n
  <2> QED
    BY <1>3, <1>4 DEF FoldsWith
<1>6. Eq(it)
  BY <1>3, <1>5
<1>7. ASSUME NEW f, Eq(f) PROVE f = it
  <2>1. \A s \in SUBSET (1..n) : f[s] = IF s = {} THEN 0 ELSE f[s \ {Max(s)}] + p[Max(s)]
    BY <1>7, Zenon
  <2> DEFINE P == {s \in SUBSET (1..n) : f[s] = it[s]}
  <2>2. {} \in P
    BY <1>5, <2>1
  <2>3. ASSUME NEW s \in SUBSET (1..n), s # {}, s \ {Max(s)} \in P PROVE s \in P
    BY <1>5, <2>1, <2>3
  <2>4. \A s \in SUBSET (1..n) : s \in P
    <3> HIDE DEF P, n
    <3> QED
      BY <1>1, <2>2, <2>3, PositionsInduction
  <2>5. \A s \in SUBSET (1..n) : f[s] = it[s]
    BY <2>4
  <2>6. f = [s \in SUBSET (1..n) |-> f[s]] /\ it = [s \in SUBSET (1..n) |-> it[s]]
    <3>1. f = [s \in SUBSET (1..n) |-> IF s = {} THEN 0 ELSE f[s \ {Max(s)}] + p[Max(s)]]
      BY <1>7
    <3> DEFINE g == [s \in SUBSET (1..n) |-> IF s = {} THEN 0 ELSE f[s \ {Max(s)}] + p[Max(s)]]
    <3>2. g = [s \in SUBSET (1..n) |-> g[s]]
      OBVIOUS
    <3>3. f = g
      BY <3>1
    <3> HIDE DEF g
    <3> QED
      BY <1>3, <3>2, <3>3
  <2> QED
    BY <2>5, <2>6
<1>8. Total(p) = (CHOOSE f : Eq(f))[1..n]
  BY <1>1 DEF Total, FoldLeft, MapThenFoldSet
<1>9. Eq(CHOOSE f : Eq(f))
  <2> HIDE DEF Eq
  <2> QED
    BY <1>6, Zenon
<1>10. (CHOOSE f : Eq(f)) = it
  <2> HIDE DEF Eq
  <2> QED
    BY <1>7, <1>9
<1> QED
  BY <1>3, <1>5, <1>8, <1>10

\* What Total makes of the beginnings of a sequence.
LEMMA TotalOfPrefixes ==
    ASSUME NEW p \in Seq(Nat)
    PROVE  /\ Len(p) \in Nat /\ SubSeq(p, 1, Len(p)) = p
           /\ Total(SubSeq(p, 1, 0)) = 0
           /\ \A k \in 0..Len(p) : Total(SubSeq(p, 1, k)) \in Nat
           /\ \A k \in 1..Len(p) :
                 Total(SubSeq(p, 1, k)) = Total(SubSeq(p, 1, k - 1)) + p[k]
<1> DEFINE n == Len(p)
<1>1. n \in Nat /\ DOMAIN p = 1..n /\ \A i \in 1..n : p[i] \in Nat
  BY LenProperties
<1>2. PICK it \in [SUBSET (1..n) -> Nat] :
         \A s \in SUBSET (1..n) :
            it[s] = IF s = {} THEN 0 ELSE it[s \ {Max(s)}] + p[Max(s)]
  BY TotalIsAFold
<1>3. ASSUME NEW k \in 0..n PROVE Total(SubSeq(p, 1, k)) = it[1..k]
  <2> DEFINE q == SubSeq(p, 1, k)
  <2>0. k \in Nat /\ 1..k \subseteq 1..n
    BY <1>1
  <2>1. q \in Seq(Nat) /\ Len(q) = k /\ \A i \in 1..k : q[i] = p[i]
    BY <1>1, SubSeqProperties
  <2>2. PICK f \in [SUBSET (1..Len(q)) -> Nat] :
           /\ Total(q) = f[1..Len(q)]
           /\ \A s \in SUBSET (1..Len(q)) :
                 f[s] = IF s = {} THEN 0 ELSE f[s \ {Max(s)}] + q[Max(s)]
    <3> HIDE DEF q
    <3> QED
      BY <2>1, TotalIsAFold
  <2> HIDE DEF q
  <2> DEFINE P == {s \in SUBSET (1..k) : f[s] = it[s]}
  <2>3. {} \in P
    BY <1>2, <2>2
  <2>4. ASSUME NEW s \in SUBSET (1..k), s # {}, s \ {Max(s)} \in P PROVE s \in P
    <3>1. Max(s) \in 1..k /\ s \in SUBSET (1..n)
      BY <2>0, <2>4, LargestPosition
    <3>2. q[Max(s)] = p[Max(s)]
      BY <2>1, <3>1
    <3>3. f[s] = f[s \ {Max(s)}] + q[Max(s)]
      BY <2>1, <2>2, <2>4
    <3>4. it[s] = it[s \ {Max(s)}] + p[Max(s)]
      BY <1>2, <2>4, <3>1
    <3> QED
      BY <2>4, <3>2, <3>3, <3>4
  <2>5. \A s \in SUBSET (1..k) : s \in P
    <3> HIDE DEF P
    <3> QED
      BY <2>0, <2>3, <2>4, PositionsInduction
  <2> QED
    BY <2>1, <2>2, <2>5 DEF q
<1>4. ASSUME NEW k \in 1..n PROVE it[1..k] = it[1..(k - 1)] + p[k]
  <2>1. 1..k \in SUBSET (1..n) /\ k \in 1..k
    BY <1>1
  <2>2. Max(1..k) \in 1..k /\ \A j \in 1..k : Max(1..k) >= j
    <3>1. \E x \in 1..k : \A j \in 1..k : x >= j
      OBVIOUS
    <3> QED
      BY <3>1 DEF Max
  <2>3. Max(1..k) = k
    BY <2>2
  <2>4. (1..k) \ {k} = 1..(k - 1)
    OBVIOUS
  <2> QED
    BY <1>2, <2>1, <2>3, <2>4
<1>5. it[1..0] = 0
  <2>1. 1..0 = {} /\ {} \in SUBSET (1..n)
    OBVIOUS
  <2> QED
    BY <1>2, <2>1
<1>6. \A k \in 0..n : it[1..k] \in Nat
  BY <1>1, <1>2
<1>7. SubSeq(p, 1, n) = p
  BY <1>1
<1>8. 0 \in 0..n /\ \A k \in 1..n : k \in 0..n /\ k - 1 \in 0..n
  BY <1>1
<1> QED
  BY <1>1, <1>3, <1>4, <1>5, <1>6, <1>7, <1>8

-----------------------------------------------------------------------------
(* The invariant.  What TypeOK and Framed leave open is why a connection   *)
(* that is accepted stands at the beginning of its plan: what its client   *)
(* sends arrives after that, and it is accepted once.                      *)

Bounds(p) == {Total(SubSeq(p, 1, n)) : n \in 0 .. Len(p)}

\* Framed, of one connection: its state, how much was read of it, and its plan.
Framing(s, k, p) ==
    IF s.state = "STREAM_READ" THEN k + s.left \in Bounds(p)
    ELSE s.state # "SOCKET_CLOSE" => k \in Bounds(p)

Fresh(c) == unsent[c] = Total(plan[c]) /\ rcvq[c] = 0 /\ stream[c] = NoStream

Waiting ==
    /\ \A a \in Addr : IsInjective(backlog[a])
    /\ \A a \in Addr : \A c \in ToSet(backlog[a]) :
          Server[c] = a /\ peer[c] = "open" /\ Fresh(c)
    /\ \A c \in Client : peer[c] = "new" => Fresh(c)

Sockets == IncomingTypeOK /\ IsFiniteSet(Streams) /\ Waiting /\ Framed

IInv == TypeOK /\ Sockets

\* What a client sends is a sequence of messages that are not empty.
LEMMA PlanProperties ==
    ASSUME IncomingTypeOK, NEW c \in Client
    PROVE  /\ plan[c] \in Seq(Nat)
           /\ \A n \in 1..Len(plan[c]) : plan[c][n] \in Nat \ {0}
           /\ Total(plan[c]) \in Nat
           /\ 0 \in Bounds(plan[c]) /\ Total(plan[c]) \in Bounds(plan[c])
<1>1. plan[c] \in Seq(Nat \ {0})
  <2>1. plan[c] \in UNION {Plans[d] : d \in Client}
    BY DEF IncomingTypeOK
  <2>2. \A d \in Client : Plans[d] \subseteq Seq(Nat \ {0})
    BY IncomingAssumption DEF IncomingAssumption
  <2> QED
    BY <2>1, <2>2
<1>2. plan[c] \in Seq(Nat) /\ \A n \in 1..Len(plan[c]) : plan[c][n] \in Nat \ {0}
  BY <1>1, LenProperties
<1> DEFINE p == plan[c]
<1> HIDE DEF p
<1>3. /\ Len(p) \in Nat /\ SubSeq(p, 1, Len(p)) = p
      /\ Total(SubSeq(p, 1, 0)) = 0
      /\ \A k \in 0..Len(p) : Total(SubSeq(p, 1, k)) \in Nat
  BY <1>2, TotalOfPrefixes DEF p
<1>4. 0 \in 0..Len(p) /\ Len(p) \in 0..Len(p)
  BY <1>3
<1>5. Total(p) \in Nat /\ 0 \in Bounds(p) /\ Total(p) \in Bounds(p)
  BY <1>3, <1>4 DEF Bounds
<1> QED
  BY <1>2, <1>5 DEF p

\* A write leaves a connection before, in or after its answer, or closes it.
LEMMA WriteProperties ==
    ASSUME NEW s \in StreamType, NEW n \in 0..s.left, NEW broken \in BOOLEAN
    PROVE  /\ StreamWrite(s, n, broken) \in StreamType
           /\ StreamWrite(s, n, broken).state \in
                 {"SOCKET_CLOSE", "STREAM_READ_FIRST", "STREAM_WRITE"}
<1>0. CloseConn \in Nat
  BY IncomingAssumption DEF IncomingAssumption
<1>1. CASE broken \/ s.left = 0
  <2>1. StreamWrite(s, n, broken) = Closed(s)
    BY <1>1 DEF StreamWrite
  <2> QED
    BY <2>1 DEF Closed, StreamType
<1>2. CASE ~(broken \/ s.left = 0)
  <2> DEFINE t == [state |-> IF n = s.left THEN "STREAM_READ_FIRST" ELSE "STREAM_WRITE",
                   age |-> IF n = 0 THEN s.age ELSE 0, left |-> s.left - n]
  <2>1. StreamWrite(s, n, broken) = t
    BY <1>2 DEF StreamWrite
  <2>2. s.left \in Nat /\ s.left - n \in Nat /\ s.age \in 0 .. CloseConn + 1
        /\ 0 \in 0 .. CloseConn + 1
    BY <1>0 DEF StreamType
  <2>3. t \in StreamType
    BY <2>2 DEF StreamType, Reading, Writing
  <2> QED
    BY <2>1, <2>3
<1> QED
  BY <1>1, <1>2

\* The same of the answer to a message.
LEMMA AnsweredProperties ==
    ASSUME NEW s \in StreamType, NEW t \in Answered(s)
    PROVE  /\ t \in StreamType
           /\ t.state \in {"SOCKET_CLOSE", "STREAM_READ_FIRST", "STREAM_WRITE"}
<1>1. PICK r \in ReplyLength : t \in {StreamWrite(WithReply(s, r), n, broken) :
                                          n \in 0..r, broken \in BOOLEAN}
  BY DEF Answered
<1>2. WithReply(s, r) \in StreamType /\ WithReply(s, r).left = r
  BY IncomingAssumption DEF IncomingAssumption, StreamType, Writing, WithReply
<1>3. PICK n \in 0..r : \E broken \in BOOLEAN : t = StreamWrite(WithReply(s, r), n, broken)
  BY <1>1
<1> QED
  BY <1>2, <1>3, WriteProperties

(* A read that begins a message finds its length where the message before  *)
(* it ended, and at the end of the plan it finds nothing to read; a read   *)
(* that goes on with a message stops where that ends.                      *)
LEMMA ReadProperties ==
    ASSUME IncomingTypeOK, NEW c \in Client, stream[c].state \in Reading,
           Framing(stream[c], Consumed(c), plan[c]),
           NEW left \in IF stream[c].state = "STREAM_READ_FIRST" THEN LengthsSeen(c)
                        ELSE {stream[c].left},
           NEW r \in StreamRead(c, left)
    PROVE  /\ r[1] \in StreamType /\ r[1].state # "NONE"
           /\ r[2] \in Nat /\ rcvq[c] - r[2] \in Nat
           /\ Framing(r[1], Consumed(c) + r[2], plan[c])
<1> DEFINE s == stream[c]
           k == Consumed(c)
           p == plan[c]
           n == ReadUnits(c, left)
<1>0. /\ s \in StreamType /\ rcvq[c] \in Nat /\ unsent[c] \in Nat /\ CloseConn \in Nat
      /\ Header \in Nat \ {0}
  BY IncomingAssumption DEF IncomingAssumption, IncomingTypeOK, StreamType
<1>1. /\ p \in Seq(Nat) /\ Total(p) \in Nat
      /\ \A i \in 1..Len(p) : p[i] \in Nat \ {0}
  BY PlanProperties
<1>2. /\ Len(p) \in Nat /\ SubSeq(p, 1, Len(p)) = p
      /\ \A i \in 1..Len(p) : Total(SubSeq(p, 1, i)) = Total(SubSeq(p, 1, i - 1)) + p[i]
  BY <1>1, TotalOfPrefixes
<1>3. k = Total(p) - unsent[c] - rcvq[c] /\ k \in Int
  BY <1>0, <1>1 DEF Consumed
<1>4. left \in Nat
  <2>1. CASE s.state # "STREAM_READ_FIRST"
    BY <1>0, <2>1 DEF StreamType
  <2>2. CASE s.state = "STREAM_READ_FIRST"
    <3>1. CASE Begins(c) = {}
      <4>1. PICK q \in UNION {Plans[d] : d \in Client} : \E i \in DOMAIN q : left = q[i]
        BY <2>2, <3>1 DEF LengthsSeen
      <4>2. q \in Seq(Nat \ {0})
        BY <4>1, IncomingAssumption DEF IncomingAssumption
      <4> QED
        BY <4>1, <4>2, LenProperties
    <3>2. CASE Begins(c) # {}
      <4>1. \E i \in Begins(c) : left = p[i]
        BY <2>2, <3>2 DEF LengthsSeen
      <4> QED
        BY <1>1, <4>1, LenProperties DEF Begins
    <3> QED
      BY <3>1, <3>2
  <2> QED
    BY <2>1, <2>2
<1>5. n \in Nat /\ n <= rcvq[c] /\ n <= left /\ (n = rcvq[c] \/ n = left)
  <2>1. {rcvq[c], left} \in SUBSET Nat /\ {rcvq[c], left} # {}
    BY <1>0, <1>4
  <2> DEFINE T == {rcvq[c], left}
  <2>2. n = Min(T)
    BY DEF ReadUnits
  <2>3. Min(T) \in T /\ \A j \in T : Min(T) <= j
    <3> HIDE DEF T
    <3> QED
      BY <2>1, LeastNatural DEF T
  <2> QED
    BY <1>0, <1>4, <2>2, <2>3
<1>6. ASSUME n # 0 PROVE k + left \in Bounds(p)
  <2>1. CASE s.state # "STREAM_READ_FIRST"
    <3>1. s.state = "STREAM_READ" /\ left = s.left
      BY <2>1 DEF Reading
    <3> QED
      BY <3>1 DEF Framing
  <2>2. CASE s.state = "STREAM_READ_FIRST"
    <3>1. k \in Bounds(p)
      BY <2>2 DEF Framing
    <3>2. PICK i \in 0..Len(p) : k = Total(SubSeq(p, 1, i))
      BY <3>1 DEF Bounds
    <3>3. i # Len(p)
      <4>1. ASSUME i = Len(p) PROVE FALSE
        <5>1. k = Total(p)
          BY <1>2, <3>2, <4>1
        <5>2. rcvq[c] = 0
          BY <1>0, <1>1, <1>3, <5>1
        <5> QED
          BY <1>5, <1>6, <5>2
      <4> QED
        BY <4>1
    <3>4. i + 1 \in 1..Len(p) /\ (i + 1) - 1 = i /\ DOMAIN p = 1..Len(p)
      BY <1>1, <1>2, <3>2, <3>3, LenProperties
    <3>5. i + 1 \in Begins(c)
      BY <3>2, <3>4 DEF Begins
    <3>6. PICK j \in Begins(c) : left = p[j]
      BY <2>2, <3>5 DEF LengthsSeen
    <3>7. j \in 1..Len(p) /\ Total(SubSeq(p, 1, j - 1)) = k
      BY <3>4, <3>6 DEF Begins
    <3>8. k + left = Total(SubSeq(p, 1, j)) /\ j \in 0..Len(p)
      BY <1>2, <3>6, <3>7
    <3> QED
      BY <3>8 DEF Bounds
  <2> QED
    BY <2>1, <2>2
<1> HIDE DEF s, k, p, n
<1>7. CASE n = 0 \/ (s.state = "STREAM_READ_FIRST" /\ rcvq[c] < Header)
  <2>1. r = <<Closed(s), 0>>
    BY <1>7 DEF StreamRead, s, n
  <2>2. Closed(s) \in StreamType /\ Closed(s).state = "SOCKET_CLOSE"
    BY <1>0 DEF Closed, StreamType
  <2> QED
    BY <1>0, <2>1, <2>2 DEF Framing
<1>8. CASE ~(n = 0 \/ (s.state = "STREAM_READ_FIRST" /\ rcvq[c] < Header)) /\ n < left
  <2> DEFINE t == [state |-> "STREAM_READ", age |-> 0, left |-> left - n]
  <2>1. r = <<t, n>>
    BY <1>8 DEF StreamRead, s, n
  <2>2. t \in StreamType /\ left - n \in Nat
    <3>1. left - n \in Nat /\ 0 \in 0 .. CloseConn + 1
      BY <1>0, <1>4, <1>5, <1>8
    <3> QED
      BY <3>1 DEF StreamType, Reading
  <2>3. k + n + t.left = k + left
    BY <1>3, <1>4, <1>5 DEF k
  <2>4. Framing(t, k + n, p)
    BY <1>6, <1>8, <2>3 DEF Framing
  <2> QED
    BY <1>0, <1>5, <2>1, <2>2, <2>4 DEF k, p
<1>9. CASE ~(n = 0 \/ (s.state = "STREAM_READ_FIRST" /\ rcvq[c] < Header)) /\ ~(n < left)
  <2> DEFINE u == [s EXCEPT !.age = 0]
  <2>1. PICK t \in Answered(u) : r = <<t, n>>
    BY <1>9 DEF StreamRead, s, n
  <2>2. u \in StreamType
    BY <1>0 DEF StreamType
  <2> HIDE DEF u
  <2>3. t \in StreamType /\ t.state \in {"SOCKET_CLOSE", "STREAM_READ_FIRST", "STREAM_WRITE"}
    BY <2>1, <2>2, AnsweredProperties
  <2>4. n = left
    BY <1>4, <1>5, <1>9
  <2>5. Framing(t, k + n, p)
    BY <1>6, <1>9, <2>3, <2>4 DEF Framing
  <2> QED
    BY <1>0, <1>5, <2>1, <2>3, <2>5 DEF k, p
<1> QED
  BY <1>7, <1>8, <1>9

(* SLPDIncomingAge closes some connections and makes the others older.     *)
LEMMA AgedProperties ==
    ASSUME IncomingTypeOK, NEW order \in Seq(Client)
    PROVE  LET t == AgedStreams(fixed, stream, order)
           IN  /\ t \in [Client -> StreamType]
               /\ \A c \in Client :
                     t[c] = NoStream \/ /\ stream[c] # NoStream
                                        /\ t[c].state = stream[c].state
                                        /\ t[c].left = stream[c].left
<1> DEFINE Kept(t) == \A c \in Client :
              t[c] = NoStream \/ /\ stream[c] # NoStream
                                 /\ t[c].state = stream[c].state
                                 /\ t[c].left = stream[c].left
           St == {t \in [Client -> StreamType] : Kept(t)}
           n == Len(order)
           Older(t, c) == [t EXCEPT ![c] = AgedStream(fixed, t, c)]
           step == [y \in St \X (1..n) |-> Older(y[1], order[y[2]])]
<1>0. stream \in [Client -> StreamType] /\ CloseConn \in Nat /\ BusyCloseConn \in Nat
      /\ BusyCloseConn <= CloseConn
  BY IncomingAssumption DEF IncomingAssumption, IncomingTypeOK, StreamType
<1>1. n \in Nat /\ DOMAIN order = 1..n /\ \A i \in 1..n : order[i] \in Client
  BY LenProperties
<1>2. ASSUME NEW t \in St, NEW c \in Client PROVE Older(t, c) \in St
  <2> DEFINE u == AgedStream(fixed, t, c)
  <2>0. t[c] \in StreamType /\ t \in [Client -> StreamType] /\ Kept(t)
    OBVIOUS
  <2>1. CASE t[c].state \notin Reading \cup Writing
    <3>1. u = t[c]
      BY <2>1 DEF AgedStream
    <3> QED
      BY <2>0, <3>1
  <2>2. CASE t[c].state \in Reading \cup Writing /\ t[c].age > AgeLimit(fixed, t)
    <3>1. u = NoStream
      BY <2>2 DEF AgedStream
    <3>2. NoStream \in StreamType
      BY <1>0 DEF NoStream, StreamType
    <3> QED
      BY <2>0, <3>1, <3>2
  <2>3. CASE t[c].state \in Reading \cup Writing /\ ~(t[c].age > AgeLimit(fixed, t))
    <3>1. u = [t[c] EXCEPT !.age = @ + 1]
      BY <2>3 DEF AgedStream
    <3>2. AgeLimit(fixed, t) \in Nat /\ AgeLimit(fixed, t) <= CloseConn
      BY <1>0 DEF AgeLimit
    <3>3. t[c].age \in Nat /\ t[c].age + 1 \in 0..CloseConn + 1
      BY <1>0, <2>0, <2>3, <3>2 DEF StreamType
    <3>4. u \in StreamType /\ u.state = t[c].state /\ u.left = t[c].left
      BY <2>0, <3>1, <3>3 DEF StreamType
    <3>5. t[c] # NoStream
      BY <2>3 DEF NoStream, Reading, Writing
    <3> HIDE DEF u
    <3> QED
      BY <2>0, <3>4, <3>5 DEF u
  <2> QED
    BY <2>1, <2>2, <2>3
<1>3. step \in [St \X (1..n) -> St]
  <2> SUFFICES ASSUME NEW y \in St \X (1..n) PROVE Older(y[1], order[y[2]]) \in St
    OBVIOUS
  <2>1. y[1] \in St /\ order[y[2]] \in Client
    BY <1>1
  <2> HIDE DEF St, Older
  <2> QED
    BY <1>2, <2>1
<1>4. stream \in St
  BY <1>0
<1> HIDE DEF St, Older
<1> DEFINE Eq(it) == it = [s \in SUBSET (1..n) |->
                 IF s = {} THEN stream ELSE Older(it[s \ {Max(s)}], order[Max(s)])]
<1>5. \E it : Eq(it)
  <2>1. PICK it \in [SUBSET (1..n) -> St] : FoldsWith(it, n, stream, step)
    <3> HIDE DEF n, step
    <3> QED
      BY <1>1, <1>3, <1>4, FoldExists
  <2>2. \A s \in SUBSET (1..n) : s # {} => Max(s) \in 1..n /\ s \ {Max(s)} \in SUBSET (1..n)
    BY <1>1, LargestPosition
  <2>3. \A s \in SUBSET (1..n) :
              it[s] = IF s = {} THEN stream ELSE Older(it[s \ {Max(s)}], order[Max(s)])
    <3> HIDE DEF n
    <3> QED
      BY <2>1, <2>2 DEF FoldsWith
  <2> QED
    BY <2>1, <2>3
<1>6. AgedStreams(fixed, stream, order) = (CHOOSE it : Eq(it))[1..n]
  BY <1>1 DEF AgedStreams, FoldLeft, MapThenFoldSet, Older
<1>7. Eq(CHOOSE it : Eq(it))
  <2> HIDE DEF Eq
  <2> QED
    BY <1>5, Zenon
<1>8. PICK it : it = (CHOOSE f : Eq(f))
  OBVIOUS
<1>9. \A s \in SUBSET (1..n) :
        it[s] = IF s = {} THEN stream ELSE Older(it[s \ {Max(s)}], order[Max(s)])
  BY <1>7, <1>8, Zenon
<1> DEFINE P == {s \in SUBSET (1..n) : it[s] \in St}
<1>10. {} \in P
  BY <1>4, <1>9
<1>11. ASSUME NEW s \in SUBSET (1..n), s # {}, s \ {Max(s)} \in P PROVE s \in P
  <2>1. Max(s) \in 1..n /\ it[s \ {Max(s)}] \in St
    BY <1>1, <1>11, LargestPosition
  <2>2. Older(it[s \ {Max(s)}], order[Max(s)]) \in St
    BY <1>1, <1>2, <2>1
  <2> QED
    BY <1>9, <1>11, <2>2
<1>12. \A s \in SUBSET (1..n) : s \in P
  <2> HIDE DEF P
  <2> QED
    BY <1>1, <1>10, <1>11, PositionsInduction
<1>13. it[1..n] \in St
  BY <1>12
<1> QED
  BY <1>6, <1>8, <1>13 DEF St

-----------------------------------------------------------------------------
(* The steps.                                                              *)

\* Framed in the words of the lemmas.
LEMMA FramedMeans ==
    Framed <=> \A c \in Streams : Framing(stream[c], Consumed(c), plan[c])
BY DEF Framed, Framing, Boundaries, Bounds

(* Where connections only go, or stay as they were but for their age, and  *)
(* nothing is sent, read or connected, what was said of them still holds.  *)
LEMMA StreamsMayGo ==
    ASSUME Sockets, UNCHANGED <<plan, unsent, rcvq, peer>>,
           stream' \in [Client -> StreamType],
           \A c \in Client :
              stream'[c] = NoStream \/ /\ stream[c] # NoStream
                                       /\ stream'[c].state \in {stream[c].state, "SOCKET_CLOSE"}
                                       /\ stream'[c].left = stream[c].left,
           \A a \in Addr : backlog'[a] = backlog[a] \/ backlog'[a] = <<>>
    PROVE  IsFiniteSet(Streams') /\ Waiting' /\ Framed'
<1>1. IsFiniteSet(Streams')
  <2>1. Streams' \subseteq Streams
    BY DEF Streams
  <2> QED
    BY <2>1, FS_Subset DEF Sockets
<1>2. Framed'
  <2>1. ASSUME NEW c \in Streams' PROVE Framing(stream[c], Consumed(c), plan[c])' 
    <3>1. c \in Streams
      BY <2>1 DEF Streams
    <3>2. Framing(stream[c], Consumed(c), plan[c])
      BY <3>1, FramedMeans DEF Sockets
    <3>3. Consumed(c)' = Consumed(c) /\ plan' = plan
      BY DEF Consumed
    <3>4. stream'[c].state \in {stream[c].state, "SOCKET_CLOSE"}
          /\ stream'[c].left = stream[c].left
      BY <2>1 DEF Streams
    <3> QED
      BY <3>2, <3>3, <3>4 DEF Framing
  <2> QED
    BY <2>1 DEF Framed, Framing, Boundaries, Bounds
<1>3. Waiting'
  <2>1. \A c \in Client : Fresh(c) => Fresh(c)'
    BY DEF Fresh
  <2>2. \A a \in Addr : IsInjective(backlog'[a])
    BY DEF Sockets, Waiting, IsInjective
  <2>3. \A a \in Addr : \A c \in ToSet(backlog'[a]) : c \in ToSet(backlog[a]) /\ c \in Client
    <3> SUFFICES ASSUME NEW a \in Addr, NEW c \in ToSet(backlog'[a])
                 PROVE  c \in ToSet(backlog[a]) /\ c \in Client
      OBVIOUS
    <3>1. backlog[a] \in Seq(Client)
      BY DEF Sockets, IncomingTypeOK
    <3>2. backlog'[a] = backlog[a]
      <4>1. ToSet(<<>>) = {}
        BY DEF ToSet
      <4> QED
        BY <4>1
    <3> QED
      BY <3>1, <3>2, LenProperties DEF ToSet
  <2> QED
    BY <2>1, <2>2, <2>3 DEF Sockets, Waiting
<1> QED
  BY <1>1, <1>2, <1>3

\* Steps that are not about the sockets, and those that are about the fixed ones.
LEMMA OnlyFixed ==
    ASSUME Sockets, fixed' \in [Addr -> [Kind -> Nat]],
           UNCHANGED <<stream, backlog, plan, unsent, rcvq, peer>>
    PROVE  Sockets'
<1>1. IncomingTypeOK'
  BY DEF Sockets, IncomingTypeOK
<1>2. IsFiniteSet(Streams')
  BY DEF Sockets, Streams
<1>3. Waiting'
  BY DEF Sockets, Waiting, Fresh
<1>4. Framed'
  BY DEF Sockets, Framed, Streams, Consumed, Boundaries
<1> QED
  BY <1>1, <1>2, <1>3, <1>4 DEF Sockets

(* A connection that is there was accepted: it does not wait any more, and *)
(* whatever becomes of it others still stand where they stood.             *)
LEMMA OneStream ==
    ASSUME Sockets, NEW c \in Streams, NEW t \in StreamType, NEW q \in Nat,
           stream' = [stream EXCEPT ![c] = t], rcvq' = [rcvq EXCEPT ![c] = q],
           UNCHANGED <<fixed, backlog, plan, unsent, peer>>,
           Framing(t, Total(plan[c]) - unsent[c] - q, plan[c])
    PROVE  Sockets'
<1>0. c \in Client /\ stream[c] # NoStream
  BY DEF Streams
<1>1. IncomingTypeOK'
  BY <1>0 DEF Sockets, IncomingTypeOK
<1>2. IsFiniteSet(Streams')
  <2>1. Streams' \subseteq Streams
    BY <1>0 DEF Sockets, IncomingTypeOK, Streams
  <2> QED
    BY <2>1, FS_Subset DEF Sockets
<1>3. Waiting'
  <2>1. \A d \in Client : Fresh(d) => d # c
    BY <1>0 DEF Fresh
  <2>2. \A d \in Client : Fresh(d) => Fresh(d)'
    BY <1>0, <2>1 DEF Fresh, Sockets, IncomingTypeOK
  <2>3. \A a \in Addr : \A d \in ToSet(backlog[a]) : d \in Client
    BY LenProperties DEF Sockets, IncomingTypeOK, ToSet
  <2> QED
    BY <2>2, <2>3 DEF Sockets, Waiting
<1>4. Framed'
  <2>1. ASSUME NEW d \in Streams' PROVE Framing(stream[d], Consumed(d), plan[d])'
    <3>1. CASE d = c
      <4>1. stream'[d] = t /\ Consumed(d)' = Total(plan[c]) - unsent[c] - q
        BY <1>0, <3>1 DEF Sockets, IncomingTypeOK, Consumed
      <4> QED
        BY <3>1, <4>1
    <3>2. CASE d # c
      <4>1. stream'[d] = stream[d] /\ Consumed(d)' = Consumed(d) /\ d \in Streams
        BY <3>2, <2>1 DEF Sockets, IncomingTypeOK, Consumed, Streams
      <4>2. Framing(stream[d], Consumed(d), plan[d])
        BY <4>1, FramedMeans DEF Sockets
      <4> QED
        BY <4>1, <4>2
    <3> QED
      BY <3>1, <3>2
  <2> QED
    BY <2>1 DEF Framed, Framing, Boundaries, Bounds
<1> QED
  BY <1>1, <1>2, <1>3, <1>4 DEF Sockets

\* IncomingStreamRead takes from one connection, up to the end of a message.
LEMMA ReadStep ==
    ASSUME Sockets, NEW c \in Client, stream[c].state \in Reading, IncomingStreamRead(c)
    PROVE  Sockets'
<1>1. c \in Streams
  BY DEF Streams, NoStream, Reading
<1>2. Framing(stream[c], Consumed(c), plan[c])
  BY <1>1, FramedMeans DEF Sockets
<1>3. PICK left \in IF stream[c].state = "STREAM_READ_FIRST" THEN LengthsSeen(c)
                    ELSE {stream[c].left} :
         \E r \in StreamRead(c, left) :
            /\ stream' = [stream EXCEPT ![c] = r[1]]
            /\ rcvq' = [rcvq EXCEPT ![c] = @ - r[2]]
            /\ UNCHANGED <<fixed, backlog, plan, unsent, peer>>
  BY DEF IncomingStreamRead
<1>4. PICK r \in StreamRead(c, left) :
         /\ stream' = [stream EXCEPT ![c] = r[1]]
         /\ rcvq' = [rcvq EXCEPT ![c] = rcvq[c] - r[2]]
         /\ UNCHANGED <<fixed, backlog, plan, unsent, peer>>
  BY <1>3
<1>5. /\ r[1] \in StreamType
      /\ r[2] \in Nat /\ rcvq[c] - r[2] \in Nat
      /\ Framing(r[1], Consumed(c) + r[2], plan[c])
  BY <1>2, ReadProperties DEF Sockets
<1>6. Consumed(c) + r[2] = Total(plan[c]) - unsent[c] - (rcvq[c] - r[2])
  <2>1. Total(plan[c]) \in Nat /\ unsent[c] \in Nat /\ rcvq[c] \in Nat
    BY PlanProperties DEF Sockets, IncomingTypeOK
  <2> QED
    BY <1>5, <2>1 DEF Consumed
<1> QED
  BY <1>1, <1>4, <1>5, <1>6, OneStream

\* IncomingStreamWrite leaves what was read as it is.
LEMMA WriteStep ==
    ASSUME Sockets, NEW c \in Client, stream[c].state \in Writing, IncomingStreamWrite(c)
    PROVE  Sockets'
<1>1. c \in Streams
  BY DEF Streams, NoStream, Writing
<1>2. stream[c] \in StreamType /\ rcvq[c] \in Nat /\ rcvq' = [rcvq EXCEPT ![c] = rcvq[c]]
      /\ UNCHANGED <<fixed, backlog, plan, unsent, peer>>
  BY DEF IncomingStreamWrite, Sockets, IncomingTypeOK
<1>3. PICK n \in 0..stream[c].left : \E broken \in BOOLEAN :
         stream' = [stream EXCEPT ![c] = StreamWrite(stream[c], n, broken)]
  BY DEF IncomingStreamWrite
<1>4. PICK t \in StreamType :
         /\ t.state \in {"SOCKET_CLOSE", "STREAM_READ_FIRST", "STREAM_WRITE"}
         /\ stream' = [stream EXCEPT ![c] = t]
  BY <1>2, <1>3, WriteProperties
<1>5. Consumed(c) \in Bounds(plan[c])
  <2>1. Framing(stream[c], Consumed(c), plan[c])
    BY <1>1, FramedMeans DEF Sockets
  <2> QED
    BY <2>1 DEF Framing, Writing
<1>6. Framing(t, Total(plan[c]) - unsent[c] - rcvq[c], plan[c])
  BY <1>4, <1>5 DEF Framing, Consumed
<1> QED
  BY <1>1, <1>2, <1>4, <1>6, OneStream

\* SLPDIncomingAge, in whatever order the list is walked.
LEMMA AgeStep ==
    ASSUME Sockets, IncomingAge
    PROVE  Sockets'
<1>1. PICK order \in SetToSeqs(Streams) : stream' = AgedStreams(fixed, stream, order)
  BY DEF IncomingAge
<1>2. order \in Seq(Client)
  <2>1. order \in [1..Cardinality(Streams) -> Streams]
    BY DEF SetToSeqs
  <2>2. Cardinality(Streams) \in Nat /\ Streams \subseteq Client
    BY FS_CardinalityType DEF Sockets, Streams
  <2>3. order \in [1..Cardinality(Streams) -> Client]
    BY <2>1, <2>2
  <2> QED
    BY <2>2, <2>3
<1>3. /\ stream' \in [Client -> StreamType]
      /\ \A c \in Client :
            stream'[c] = NoStream \/ /\ stream[c] # NoStream
                                     /\ stream'[c].state = stream[c].state
                                     /\ stream'[c].left = stream[c].left
  BY <1>1, <1>2, AgedProperties DEF Sockets
<1>4. UNCHANGED <<fixed, backlog, plan, unsent, rcvq, peer>>
  BY DEF IncomingAge
<1>5. IsFiniteSet(Streams') /\ Waiting' /\ Framed'
  BY <1>3, <1>4, StreamsMayGo
<1> QED
  BY <1>3, <1>4, <1>5 DEF Sockets, IncomingTypeOK

\* LoadFdSets frees what was closed.
LEMMA LoadStep ==
    ASSUME Sockets, stream' = LoadedStreams,
           UNCHANGED <<fixed, backlog, plan, unsent, rcvq, peer>>
    PROVE  Sockets'
<1>1. stream \in [Client -> StreamType] /\ NoStream \in StreamType
  BY IncomingAssumption DEF IncomingAssumption, Sockets, IncomingTypeOK, NoStream, StreamType
<1>2. stream' \in [Client -> StreamType]
  BY <1>1 DEF LoadedStreams
<1>3. \A c \in Client :
         stream'[c] = NoStream \/ /\ stream[c] # NoStream
                                  /\ stream'[c].state = stream[c].state
                                  /\ stream'[c].left = stream[c].left
  BY <1>1 DEF LoadedStreams
<1>4. IsFiniteSet(Streams') /\ Waiting' /\ Framed'
  BY <1>2, <1>3, StreamsMayGo
<1> QED
  BY <1>2, <1>4 DEF Sockets, IncomingTypeOK

\* SLPDIncomingDeinit closes everything.
LEMMA DeinitStep ==
    ASSUME Sockets, IncomingDeinit
    PROVE  Sockets'
<1>1. NoStream \in StreamType
  BY IncomingAssumption DEF IncomingAssumption, NoStream, StreamType
<1>2. stream' \in [Client -> StreamType] /\ \A c \in Client : stream'[c] = NoStream
  BY <1>1 DEF IncomingDeinit
<1>3. \A a \in Addr : backlog'[a] = <<>>
  BY DEF IncomingDeinit
<1>4. IsFiniteSet(Streams') /\ Waiting' /\ Framed'
  BY <1>2, <1>3, StreamsMayGo DEF IncomingDeinit
<1>5. fixed' \in [Addr -> [Kind -> Nat]] /\ backlog' \in [Addr -> Seq(Client)]
  BY DEF IncomingDeinit, NothingOpen
<1> QED
  BY <1>2, <1>4, <1>5 DEF Sockets, IncomingTypeOK, IncomingDeinit

\* Opening sockets once more adds to their numbers.
LEMMA ReinitProperties ==
    ASSUME NEW f \in [Addr -> [Kind -> Nat]], NEW ifaces, NEW refused
    PROVE  Reinit(f, ifaces, refused) \in [Addr -> [Kind -> Nat]]
<1>1. \A a \in Addr : Reopened(f, a, refused) \in [Kind -> Nat]
  BY DEF Reopened
<1> QED
  BY <1>1 DEF Reinit

\* What is known of a connection that waits to be accepted.
LEMMA WaitingProperties ==
    ASSUME Sockets, NEW a \in Addr
    PROVE  /\ backlog[a] \in Seq(Client) /\ IsInjective(backlog[a])
           /\ Len(backlog[a]) \in Nat /\ DOMAIN backlog[a] = 1..Len(backlog[a])
           /\ \A i \in 1..Len(backlog[a]) :
                 /\ backlog[a][i] \in Client
                 /\ Server[backlog[a][i]] = a
                 /\ peer[backlog[a][i]] = "open"
                 /\ Fresh(backlog[a][i])
<1>1. backlog[a] \in Seq(Client)
  BY DEF Sockets, IncomingTypeOK
<1>2. /\ Len(backlog[a]) \in Nat /\ DOMAIN backlog[a] = 1..Len(backlog[a])
      /\ \A i \in 1..Len(backlog[a]) : backlog[a][i] \in Client
  BY <1>1, LenProperties
<1>3. \A i \in 1..Len(backlog[a]) : backlog[a][i] \in ToSet(backlog[a])
  BY <1>2 DEF ToSet
<1> QED
  BY <1>1, <1>2, <1>3 DEF Sockets, Waiting

(* The connection accepted was at the head of its queue, and is in no      *)
(* other place of this queue, nor in another, which is one of its address. *)
LEMMA AcceptStep ==
    ASSUME Sockets, NEW a \in Addr, IncomingSocketListen(a)
    PROVE  Sockets'
<1>1. CASE ~(MayAccept /\ backlog[a] # <<>>)
  <2>1. UNCHANGED <<fixed, stream, backlog, plan, unsent, rcvq, peer>>
    BY <1>1 DEF IncomingSocketListen
  <2>2. fixed' \in [Addr -> [Kind -> Nat]]
    BY <2>1 DEF Sockets, IncomingTypeOK
  <2> QED
    BY <2>1, <2>2, OnlyFixed
<1>2. CASE MayAccept /\ backlog[a] # <<>>
  <2> DEFINE b == backlog[a]
             c == Head(b)
             t == [state |-> "STREAM_READ_FIRST", age |-> 0, left |-> 0]
  <2>1. /\ stream' = [stream EXCEPT ![c] = t]
        /\ backlog' = [backlog EXCEPT ![a] = Tail(b)]
        /\ UNCHANGED <<fixed, plan, unsent, rcvq, peer>>
    BY <1>2 DEF IncomingSocketListen
  <2>2. /\ b \in Seq(Client) /\ IsInjective(b) /\ b # <<>>
        /\ Len(b) \in Nat /\ DOMAIN b = 1..Len(b)
        /\ \A i \in 1..Len(b) : b[i] \in Client /\ Server[b[i]] = a /\ Fresh(b[i])
                                /\ peer[b[i]] = "open"
    BY <1>2, WaitingProperties
  <2> HIDE DEF b
  <2>3. /\ Tail(b) \in Seq(Client) /\ Len(Tail(b)) = Len(b) - 1 /\ Len(Tail(b)) \in Nat
        /\ DOMAIN Tail(b) = 1..(Len(b) - 1)
        /\ \A i \in 1..(Len(b) - 1) : Tail(b)[i] = b[i + 1]
    <3>1. Tail(b) \in Seq(Client) /\ Len(Tail(b)) = Len(b) - 1
          /\ \A i \in 1..Len(Tail(b)) : Tail(b)[i] = b[i + 1]
      BY <2>2, HeadTailProperties
    <3> QED
      BY <3>1, LenProperties
  <2>4. 1 \in 1..Len(b) /\ c = b[1]
    BY <2>2, EmptySeq
  <2>5. c \in Client /\ Server[c] = a /\ Fresh(c) /\ peer[c] = "open"
    BY <2>2, <2>4
  <2> HIDE DEF c
  <2>6. \A i \in 1..(Len(b) - 1) : i + 1 \in 1..Len(b) /\ i + 1 # 1
    BY <2>2
  <2>7. IsInjective(Tail(b))
    <3>1. \A i, j \in 1..(Len(b) - 1) : Tail(b)[i] = Tail(b)[j] => i + 1 = j + 1
      BY <2>2, <2>3, <2>6 DEF IsInjective
    <3> QED
      BY <2>3, <3>1 DEF IsInjective
  <2>8. \A d \in ToSet(Tail(b)) : d # c /\ d \in ToSet(b)
    <3> SUFFICES ASSUME NEW i \in 1..(Len(b) - 1)
                 PROVE  Tail(b)[i] # c /\ Tail(b)[i] \in ToSet(b)
      BY <2>3 DEF ToSet
    <3>1. b[i + 1] # b[1]
      BY <2>2, <2>4, <2>6 DEF IsInjective
    <3> QED
      BY <2>2, <2>3, <2>4, <2>6, <3>1 DEF ToSet
  <2>9. t \in StreamType
    BY IncomingAssumption DEF IncomingAssumption, StreamType, Reading
  <2>10. IncomingTypeOK'
    BY <2>1, <2>3, <2>5, <2>9 DEF Sockets, IncomingTypeOK
  <2>11. IsFiniteSet(Streams')
    <3>1. Streams' \subseteq Streams \cup {c}
      BY <2>1, <2>5 DEF Sockets, IncomingTypeOK, Streams
    <3>2. IsFiniteSet(Streams \cup {c})
      BY FS_AddElement DEF Sockets
    <3> QED
      BY <3>1, <3>2, FS_Subset
  <2>12. Waiting'
    <3>1. \A e \in Addr : \A d \in ToSet(backlog'[e]) : d \in ToSet(backlog[e]) /\ d # c
      <4> SUFFICES ASSUME NEW e \in Addr, NEW d \in ToSet(backlog'[e])
                   PROVE  d \in ToSet(backlog[e]) /\ d # c
        OBVIOUS
      <4>1. CASE e = a
        <5>1. backlog'[e] = Tail(b)
          BY <2>1, <4>1 DEF Sockets, IncomingTypeOK
        <5> QED
          BY <2>8, <4>1, <5>1 DEF b
      <4>2. CASE e # a
        <5>1. backlog'[e] = backlog[e]
          BY <2>1, <4>2 DEF Sockets, IncomingTypeOK
        <5>2. Server[d] = e
          BY <5>1 DEF Sockets, Waiting
        <5> QED
          BY <2>5, <4>2, <5>1, <5>2
      <4> QED
        BY <4>1, <4>2
    <3>2. \A d \in Client : d # c /\ Fresh(d) => Fresh(d)'
      BY <2>1 DEF Sockets, IncomingTypeOK, Fresh
    <3>3. \A e \in Addr : \A d \in ToSet(backlog[e]) : d \in Client
      BY LenProperties DEF Sockets, IncomingTypeOK, ToSet
    <3>4. \A e \in Addr : IsInjective(backlog'[e])
      BY <2>1, <2>7 DEF Sockets, Waiting, IncomingTypeOK
    <3>5. \A d \in Client : peer'[d] = "new" => d # c /\ Fresh(d)
      BY <2>1, <2>5 DEF Sockets, Waiting
    <3> QED
      BY <2>1, <3>1, <3>2, <3>3, <3>4, <3>5 DEF Sockets, Waiting
  <2>13. Framed'
    <3>1. ASSUME NEW d \in Streams' PROVE Framing(stream[d], Consumed(d), plan[d])'
      <4>0. d \in Client /\ Consumed(d)' = Consumed(d) /\ plan' = plan
        BY <2>1 DEF Consumed, Streams
      <4>1. CASE d = c
        <5>1. Total(plan[c]) \in Nat /\ 0 \in Bounds(plan[c])
          BY <2>5, PlanProperties DEF Sockets
        <5>2. Consumed(c) = 0
          BY <2>5, <5>1 DEF Consumed, Fresh
        <5>3. stream'[c] = t
          BY <2>1, <2>5 DEF Sockets, IncomingTypeOK
        <5> QED
          BY <4>0, <4>1, <5>1, <5>2, <5>3 DEF Framing
      <4>2. CASE d # c
        <5>1. stream'[d] = stream[d] /\ d \in Streams
          BY <2>1, <4>2 DEF Sockets, IncomingTypeOK, Streams
        <5>2. Framing(stream[d], Consumed(d), plan[d])
          BY <5>1, FramedMeans DEF Sockets
        <5> QED
          BY <4>0, <5>1, <5>2
      <4> QED
        BY <4>1, <4>2
    <3> QED
      BY <3>1 DEF Framed, Framing, Boundaries, Bounds
  <2> QED
    BY <2>10, <2>11, <2>12, <2>13 DEF Sockets
<1> QED
  BY <1>1, <1>2

\* A client that is new waits nowhere yet.
LEMMA ConnectStep ==
    ASSUME Sockets, NEW c \in Client, Connect(c)
    PROVE  Sockets'
<1> DEFINE a == Server[c]
           b == backlog[a]
<1>1. /\ peer[c] = "new" /\ peer' = [peer EXCEPT ![c] = "open"]
      /\ backlog' = [backlog EXCEPT ![a] = Append(b, c)]
      /\ UNCHANGED <<fixed, stream, plan, unsent, rcvq>>
  BY DEF Connect
<1>2. a \in Addr
  BY IncomingAssumption DEF IncomingAssumption
<1>3. \A e \in Addr : \A d \in ToSet(backlog[e]) : d \in Client /\ d # c
  <2>1. \A e \in Addr : \A d \in ToSet(backlog[e]) : d \in Client
    BY LenProperties DEF Sockets, IncomingTypeOK, ToSet
  <2>2. \A e \in Addr : \A d \in ToSet(backlog[e]) : peer[d] = "open"
    BY DEF Sockets, Waiting
  <2> QED
    BY <1>1, <2>1, <2>2
<1>4. b \in Seq(Client) /\ IsInjective(b)
  BY <1>2, WaitingProperties
<1>5. /\ Append(b, c) \in Seq(Client) /\ IsInjective(Append(b, c))
      /\ ToSet(Append(b, c)) = ToSet(b) \cup {c}
  <2>1. Append(b, c) \in Seq(Client \cup {c}) /\ IsInjective(Append(b, c))
        /\ ToSet(Append(b, c)) = ToSet(b) \cup {c}
    BY <1>2, <1>3, <1>4, AppendNew
  <2>2. Client \cup {c} = Client
    OBVIOUS
  <2> QED
    BY <2>1, <2>2
<1> HIDE DEF a, b
<1>6. IncomingTypeOK'
  BY <1>1, <1>2, <1>5 DEF Sockets, IncomingTypeOK
<1>7. IsFiniteSet(Streams')
  BY <1>1 DEF Sockets, Streams
<1>8. Waiting'
  <2>1. Fresh(c)
    BY <1>1 DEF Sockets, Waiting
  <2>2. \A d \in Client : Fresh(d) => Fresh(d)'
    BY <1>1 DEF Fresh
  <2>3. \A e \in Addr : IsInjective(backlog'[e])
    BY <1>1, <1>5 DEF Sockets, Waiting, IncomingTypeOK
  <2>4. ASSUME NEW e \in Addr, NEW d \in ToSet(backlog'[e])
        PROVE  d \in Client /\ Server[d] = e /\ peer'[d] = "open" /\ Fresh(d)
    <3>1. CASE d \in ToSet(backlog[e])
      <4>1. Server[d] = e /\ peer[d] = "open" /\ Fresh(d) /\ d \in Client /\ d # c
        BY <1>3, <3>1 DEF Sockets, Waiting
      <4> QED
        BY <1>1, <4>1 DEF Sockets, IncomingTypeOK
    <3>2. CASE d \notin ToSet(backlog[e])
      <4>1. e = a /\ d = c
        BY <1>1, <1>5, <2>4, <3>2 DEF Sockets, IncomingTypeOK, b
      <4> QED
        BY <1>1, <2>1, <4>1 DEF Sockets, IncomingTypeOK, a
    <3> QED
      BY <3>1, <3>2
  <2>5. \A d \in Client : peer'[d] = "new" => Fresh(d)
    BY <1>1 DEF Sockets, Waiting, IncomingTypeOK
  <2> QED
    BY <2>2, <2>3, <2>4, <2>5 DEF Waiting
<1>9. Framed'
  BY <1>1 DEF Sockets, Framed, Streams, Consumed, Boundaries
<1> QED
  BY <1>6, <1>7, <1>8, <1>9 DEF Sockets

\* What arrives was not consumed before and is not consumed by arriving.
LEMMA ArriveStep ==
    ASSUME Sockets, NEW c \in Client, Arrive(c)
    PROVE  Sockets'
<1>1. PICK n \in 1..unsent[c] :
         /\ unsent' = [unsent EXCEPT ![c] = unsent[c] - n]
         /\ rcvq' = [rcvq EXCEPT ![c] = rcvq[c] + n]
  BY DEF Arrive
<1>2. /\ stream[c] # NoStream /\ UNCHANGED <<fixed, stream, backlog, plan, peer>>
  BY DEF Arrive
<1>3. unsent[c] \in Nat /\ rcvq[c] \in Nat /\ unsent[c] - n \in Nat /\ rcvq[c] + n \in Nat
  BY DEF Sockets, IncomingTypeOK
<1>4. IncomingTypeOK'
  BY <1>1, <1>2, <1>3 DEF Sockets, IncomingTypeOK
<1>5. IsFiniteSet(Streams')
  BY <1>2 DEF Sockets, Streams
<1>6. Waiting'
  <2>1. \A d \in Client : Fresh(d) => Fresh(d)'
    BY <1>1, <1>2 DEF Fresh, Sockets, IncomingTypeOK
  <2>2. \A e \in Addr : \A d \in ToSet(backlog[e]) : d \in Client
    BY LenProperties DEF Sockets, IncomingTypeOK, ToSet
  <2> QED
    BY <1>2, <2>1, <2>2 DEF Sockets, Waiting
<1>7. \A d \in Client : Consumed(d)' = Consumed(d)
  <2> SUFFICES ASSUME NEW d \in Client PROVE Consumed(d)' = Consumed(d)
    OBVIOUS
  <2>1. Total(plan[d]) \in Nat
    BY PlanProperties DEF Sockets
  <2>2. CASE d = c
    <3>1. unsent'[c] = unsent[c] - n /\ rcvq'[c] = rcvq[c] + n
      BY <1>1 DEF Sockets, IncomingTypeOK
    <3>2. Total(plan[c]) - (unsent[c] - n) - (rcvq[c] + n) = Total(plan[c]) - unsent[c] - rcvq[c]
      BY <1>3, <2>1, <2>2
    <3> QED
      BY <1>2, <2>2, <3>1, <3>2 DEF Consumed
  <2>3. CASE d # c
    BY <1>1, <1>2, <2>3 DEF Consumed, Sockets, IncomingTypeOK
  <2> QED
    BY <2>2, <2>3
<1>8. Framed'
  BY <1>2, <1>7 DEF Sockets, Framed, Streams, Boundaries
<1> QED
  BY <1>4, <1>5, <1>6, <1>8 DEF Sockets

\* A client that goes away takes nothing back of what it sent.
LEMMA HangUpStep ==
    ASSUME Sockets, NEW c \in Client, HangUp(c)
    PROVE  Sockets'
<1>1. /\ stream[c] # NoStream /\ peer' = [peer EXCEPT ![c] = "gone"]
      /\ UNCHANGED <<fixed, stream, backlog, plan, unsent, rcvq>>
  BY DEF HangUp
<1>2. IncomingTypeOK'
  BY <1>1 DEF Sockets, IncomingTypeOK
<1>3. IsFiniteSet(Streams')
  BY <1>1 DEF Sockets, Streams
<1>4. Waiting'
  <2>1. \A d \in Client : Fresh(d) => Fresh(d)' /\ d # c
    BY <1>1 DEF Fresh
  <2>2. \A e \in Addr : \A d \in ToSet(backlog[e]) : d \in Client
    BY LenProperties DEF Sockets, IncomingTypeOK, ToSet
  <2>3. \A d \in Client : d # c => peer'[d] = peer[d]
    BY <1>1 DEF Sockets, IncomingTypeOK
  <2>4. peer'[c] = "gone"
    BY <1>1 DEF Sockets, IncomingTypeOK
  <2> QED
    BY <1>1, <2>1, <2>2, <2>3, <2>4 DEF Sockets, Waiting
<1>5. Framed'
  BY <1>1 DEF Sockets, Framed, Streams, Consumed, Boundaries
<1> QED
  BY <1>2, <1>3, <1>4, <1>5 DEF Sockets

\* What clients do.
LEMMA ClientsKeepSockets ==
    ASSUME Sockets, ClientStep
    PROVE  Sockets'
<1>1. PICK c \in Client : Connect(c) \/ Arrive(c) \/ HangUp(c)
  BY DEF ClientStep
<1> QED
  BY <1>1, ConnectStep, ArriveStep, HangUpStep

\* Before the loop begins there are no connections.
LEMMA InitialSockets ==
    ASSUME IncomingInit
    PROVE  Sockets
<1>1. /\ stream = [c \in Client |-> NoStream] /\ backlog = [a \in Addr |-> <<>>]
      /\ unsent = [c \in Client |-> Total(plan[c])] /\ rcvq = [c \in Client |-> 0]
      /\ peer = [c \in Client |-> "new"]
  BY DEF IncomingInit
<1>2. plan \in [Client -> UNION {Plans[c] : c \in Client}]
  BY DEF IncomingInit
<1>3. NothingOpen \in [Addr -> [Kind -> Nat]]
  BY DEF NothingOpen
<1>4. fixed \in [Addr -> [Kind -> Nat]]
  BY <1>3, ReinitProperties DEF IncomingInit
<1>5. \A c \in Client : Total(plan[c]) \in Nat
  <2> SUFFICES ASSUME NEW c \in Client PROVE Total(plan[c]) \in Nat
    OBVIOUS
  <2> DEFINE p == plan[c]
  <2>1. \E d \in Client : p \in Plans[d]
    BY <1>2
  <2>2. p \in Seq(Nat \ {0})
    BY <2>1, IncomingAssumption DEF IncomingAssumption
  <2>3. p \in Seq(Nat)
    BY <2>2
  <2> HIDE DEF p
  <2>4. Len(p) \in Nat /\ SubSeq(p, 1, Len(p)) = p
        /\ \A k \in 0..Len(p) : Total(SubSeq(p, 1, k)) \in Nat
    BY <2>3, TotalOfPrefixes
  <2>5. Len(p) \in 0..Len(p)
    BY <2>4
  <2>6. Total(p) \in Nat
    BY <2>4, <2>5
  <2> QED
    BY <2>6 DEF p
<1>6. NoStream \in StreamType
  BY IncomingAssumption DEF IncomingAssumption, NoStream, StreamType
<1>7. backlog \in [Addr -> Seq(Client)]
  BY <1>1
<1>8. IncomingTypeOK
  BY <1>1, <1>2, <1>4, <1>5, <1>6, <1>7 DEF IncomingTypeOK
<1>9. Streams = {}
  BY <1>1 DEF Streams
<1>10. IsFiniteSet(Streams) /\ Framed
  BY <1>9, FS_EmptySet DEF Framed
<1>11. Waiting
  <2>1. IsInjective(<<>>) /\ ToSet(<<>>) = {}
    BY DEF IsInjective, ToSet
  <2>2. \A c \in Client : Fresh(c)
    BY <1>1 DEF Fresh
  <2> QED
    BY <1>1, <2>1, <2>2 DEF Waiting
<1> QED
  BY <1>8, <1>10, <1>11 DEF Sockets

\* What the loop does to the sockets.
LEMMA HandlerKeepsSockets ==
    ASSUME Sockets, TypeOK, NEW s \in ready, Handle(s)
    PROVE  Sockets'
<1>1. s \in {"stream"} \X Client \/ s \in {"listen"} \X Addr
  BY DEF TypeOK
<1>2. CASE s \in {"listen"} \X Addr
  <2>1. s[1] = "listen" /\ s[2] \in Addr
    BY <1>2
  <2>2. IncomingSocketListen(s[2])
    BY <2>1 DEF Handle
  <2> QED
    BY <2>1, <2>2, AcceptStep
<1>3. CASE s \in {"stream"} \X Client
  <2>1. s[1] = "stream" /\ s[2] \in Client
    BY <1>3
  <2>2. \/ stream[s[2]].state \in Reading /\ IncomingStreamRead(s[2])
        \/ stream[s[2]].state \in Writing /\ IncomingStreamWrite(s[2])
    BY <2>1 DEF Handle
  <2> QED
    BY <2>1, <2>2, ReadStep, WriteStep
<1> QED
  BY <1>1, <1>2, <1>3

\* The sockets' part of the invariant is kept by every step of the daemon.
LEMMA NextKeepsSockets ==
    ASSUME TypeOK, Sockets, [Next]_vars
    PROVE  Sockets'
<1>0. fixed \in [Addr -> [Kind -> Nat]]
  BY DEF TypeOK, IncomingTypeOK
<1>1. CASE UNCHANGED incoming
  <2>1. fixed' \in [Addr -> [Kind -> Nat]] /\ UNCHANGED <<stream, backlog, plan, unsent, rcvq, peer>>
    BY <1>0, <1>1 DEF incoming
  <2> QED
    BY <2>1, OnlyFixed
<1>2. CASE LoadFdSets
  <2>1. stream' = LoadedStreams /\ UNCHANGED <<fixed, backlog, plan, unsent, rcvq, peer>>
    BY <1>2 DEF LoadFdSets
  <2> QED
    BY <2>1, LoadStep
<1>3. CASE \E s \in ready : Handle(s)
  BY <1>3, HandlerKeepsSockets
<1>4. CASE HandleSigHup
  <2>1. PICK ifaces \in Interfaces, refused \in SUBSET (Addr \X MayFail) :
           fixed' = Reinit(fixed, ifaces, refused)
    BY <1>4 DEF HandleSigHup, IncomingReinit
  <2>2. fixed' \in [Addr -> [Kind -> Nat]]
    BY <1>0, <2>1, ReinitProperties
  <2>3. UNCHANGED <<stream, backlog, plan, unsent, rcvq, peer>>
    BY <1>4 DEF HandleSigHup
  <2> QED
    BY <2>2, <2>3, OnlyFixed
<1>5. CASE HandleSigAlrm
  BY <1>5, AgeStep DEF HandleSigAlrm
<1>6. CASE HandleSigTerm
  BY <1>6, DeinitStep DEF HandleSigTerm
<1>7. CASE ClientStep
  BY <1>7, ClientsKeepSockets
<1>8. CASE SetAlarm \/ ClearFlags \/ Poll \/ HandlerDone \/ ClearHup \/ ClearAlrm
  BY <1>1, <1>8 DEF SetAlarm, ClearFlags, Poll, HandlerDone, ClearHup, ClearAlrm
<1>9. CASE AlarmRings \/ Hup \/ Term
  BY <1>1, <1>9 DEF AlarmRings, Hup, Term, Deliver
<1>10. CASE UNCHANGED vars
  BY <1>1, <1>10 DEF vars
<1> QED
  BY <1>2, <1>3, <1>4, <1>5, <1>6, <1>7, <1>8, <1>9, <1>10 DEF Next, MainStep

\* The rest of the type invariant: where the loop is and what it knows.
MainTypeOK ==
    /\ pc \in Places
    /\ flag \subseteq {"ALRM", "HUP", "TERM"}
    /\ alarm \in {"off", "set", "due"}
    /\ ready \subseteq {"stream"} \X Client \cup {"listen"} \X Addr
    /\ hups \in 0 .. MaxHup /\ unheeded \in BOOLEAN

\* A signal handler sets a flag.
LEMMA DeliverKeepsTypes ==
    ASSUME MainTypeOK, NEW signal \in {"ALRM", "HUP", "TERM"}, Deliver(signal),
           signal = "HUP" => hups < MaxHup
    PROVE  MainTypeOK'
<1>1. MaxHup \in Nat
  BY MainAssumption DEF MainAssumption
<1>2. hups' \in 0..MaxHup
  BY <1>1 DEF Deliver, MainTypeOK
<1>3. flag' \subseteq {"ALRM", "HUP", "TERM"}
  BY DEF Deliver, MainTypeOK
<1>4. alarm' \in {"off", "set", "due"} /\ UNCHANGED <<pc, ready>>
  BY DEF Deliver, MainTypeOK
<1>5. unheeded' \in BOOLEAN
  BY DEF Deliver, MainTypeOK
<1> QED
  BY <1>2, <1>3, <1>4, <1>5 DEF MainTypeOK

\* The loop's part of the type invariant is kept by every step.
LEMMA NextKeepsTypes ==
    ASSUME MainTypeOK, [Next]_vars
    PROVE  MainTypeOK'
<1>0. \A flags : AfterPass(flags) \in Places
  BY DEF AfterPass, Places
<1>1. CASE UNCHANGED main
  BY <1>1 DEF main, MainTypeOK
<1>2. CASE LoadFdSets
  <2>1. pc' \in Places /\ UNCHANGED <<flag, alarm, hups, unheeded>>
    BY <1>0, <1>2 DEF LoadFdSets, At, Places
  <2>2. ready' \subseteq {"stream"} \X Client \cup {"listen"} \X Addr
    <3>1. PolledListeners \subseteq Addr
      BY DEF PolledListeners
    <3> QED
      BY <1>2, <3>1 DEF LoadFdSets
  <2> QED
    BY <2>1, <2>2 DEF MainTypeOK
<1>3. CASE \E s \in ready : Handle(s)
  <2>1. pc' \in Places /\ ready' \subseteq ready /\ UNCHANGED <<flag, alarm, hups, unheeded>>
    BY <1>3 DEF Handle, At, Places
  <2> QED
    BY <2>1 DEF MainTypeOK
<1>4. CASE HandleSigHup
  BY <1>4 DEF HandleSigHup, At, Places, MainTypeOK
<1>5. CASE HandleSigAlrm
  BY <1>5 DEF HandleSigAlrm, At, Places, MainTypeOK
<1>6. CASE HandleSigTerm
  BY <1>6 DEF HandleSigTerm, At, Places, MainTypeOK
<1>7. CASE SetAlarm \/ ClearFlags
  BY <1>7 DEF SetAlarm, ClearFlags, At, Places, MainTypeOK
<1>8. CASE Poll
  <2>1. pc' \in Places /\ ready' \subseteq ready /\ alarm' \in {alarm, "due"}
        /\ UNCHANGED <<flag, hups, unheeded>>
    BY <1>0, <1>8 DEF Poll, At, Places
  <2> QED
    BY <2>1 DEF MainTypeOK
<1>9. CASE HandlerDone \/ ClearHup
  <2>1. pc' \in Places /\ flag' \subseteq flag /\ UNCHANGED <<alarm, ready, hups, unheeded>>
    BY <1>0, <1>9 DEF HandlerDone, ClearHup, At
  <2> QED
    BY <2>1 DEF MainTypeOK
<1>10. CASE ClearAlrm
  BY <1>10 DEF ClearAlrm, At, Places, MainTypeOK
<1>11. CASE AlarmRings
  BY <1>11, DeliverKeepsTypes DEF AlarmRings
<1>12. CASE Hup
  BY <1>12, DeliverKeepsTypes DEF Hup
<1>13. CASE Term
  BY <1>13, DeliverKeepsTypes DEF Term
<1>14. CASE UNCHANGED vars
  BY <1>1, <1>14 DEF vars
<1> QED
  BY <1>1, <1>2, <1>3, <1>4, <1>5, <1>6, <1>7, <1>8, <1>9, <1>10, <1>11, <1>12, <1>13, <1>14
     DEF Next, MainStep

-----------------------------------------------------------------------------
(* The theorems.                                                           *)

(* The inductive invariant.                                                *)
THEOREM Invariant == Spec => []IInv
<1>1. Init => IInv
  <2> SUFFICES ASSUME Init PROVE IInv
    OBVIOUS
  <2>1. Sockets
    BY InitialSockets DEF Init
  <2>2. MainTypeOK
    <3>1. 0 \in 0..MaxHup
      BY MainAssumption DEF MainAssumption
    <3>2. /\ pc = "alarm" /\ flag = {} /\ alarm = "off" /\ ready = {}
          /\ hups = 0 /\ unheeded = FALSE
      BY DEF Init
    <3>3. pc \in Places /\ alarm \in {"off", "set", "due"} /\ unheeded \in BOOLEAN
      BY <3>2 DEF Places
    <3>4. flag \subseteq {"ALRM", "HUP", "TERM"} /\ hups \in 0..MaxHup
      BY <3>1, <3>2
    <3>5. ready \subseteq {"stream"} \X Client \cup {"listen"} \X Addr
      BY <3>2
    <3> QED
      BY <3>3, <3>4, <3>5 DEF MainTypeOK
  <2> QED
    BY <2>1, <2>2 DEF IInv, Sockets, TypeOK, MainTypeOK
<1>2. IInv /\ [Next]_vars => IInv'
  <2> SUFFICES ASSUME IInv, [Next]_vars PROVE IInv'
    OBVIOUS
  <2>1. TypeOK /\ Sockets /\ MainTypeOK
    BY DEF IInv, TypeOK, MainTypeOK
  <2>2. Sockets' /\ MainTypeOK'
    BY <2>1, NextKeepsSockets, NextKeepsTypes
  <2> QED
    BY <2>2 DEF IInv, Sockets, TypeOK, MainTypeOK
<1> QED
  BY <1>1, <1>2, PTL DEF Spec

(* Every state of the loop and of the sockets is well typed; in particular *)
(* SLPDIncomingAge never lets a connection grow older than its limit and   *)
(* one interval.                                                           *)
THEOREM TypeCorrect == Spec => []TypeOK
<1>1. IInv => TypeOK
  BY DEF IInv
<1> QED
  BY <1>1, Invariant, PTL

(* IncomingStreamRead looks for a message only where one begins, and a     *)
(* read under way ends where its message does: whatever clients send, in   *)
(* whatever segments it comes, and whatever sockets, ages and signals do   *)
(* between two reads.                                                      *)
THEOREM MessagesAreTakenWhole == Spec => []Framed
<1>1. IInv => Framed
  BY DEF IInv, Sockets
<1> QED
  BY <1>1, Invariant, PTL
=============================================================================
