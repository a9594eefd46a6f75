--------------------------- MODULE Framing_proofs ---------------------------
(***************************************************************************)
(* Proofs about module Framing, for any plans and configurations of the    *)
(* nodes, parts of any size and a connection that holds any number of      *)
(* words.  Types first, then the stream, on which messages arrive whole,   *)
(* then the requests and answers, which correlate because they do, and     *)
(* last what the walks over the AVPs of a message find in it.              *)
(***************************************************************************)
EXTENDS Framing, Messages_proofs

(***************************************************************************)
(* Types.                                                                  *)
(***************************************************************************)
\* A write, and what doReadBody reads on to: the length that the first word of
\* the buffer announces, which is that of a header at least.
Write == [words : Seq(Nat) \ {<<>>}, cut : BOOLEAN]

Unfinished(readBuf) ==
  /\ Len(readBuf) > 0 /\ Len(readBuf) < WordsOf(Size(readBuf))
  /\ WordsOf(Size(readBuf)) >= HeaderWords

\* TypeOK, with the sequences in full and the least length of a message.
TypeInv ==
  /\ plan \in [Direction -> Seq(Item)]
  /\ queued \in [Direction -> Seq(Write)]
  /\ resuming \in [Direction -> Seq(Write)]
  /\ wire \in [Direction -> Seq(Nat)]
  /\ \A d \in Direction : Len(wire[d]) <= SocketWords
  /\ reader \in [Direction -> [phase : {"header", "body", "failed"}, readBuf : Seq(Nat)]]
  /\ \A d \in Direction : reader[d].phase = "body" => Unfinished(reader[d].readBuf)
  /\ sent \in [Direction -> Seq(Message)]
  /\ received \in [Direction -> Seq(Message)]
  /\ contended \in [Direction -> BOOLEAN]

\* The least of two and of three.
LEMMA MinOfTwo ==
  ASSUME NEW a \in Nat, NEW b \in Nat
  PROVE  /\ Min({a, b}) \in Nat
         /\ Min({a, b}) = a \/ Min({a, b}) = b
         /\ Min({a, b}) <= a /\ Min({a, b}) <= b
<1> DEFINE least(x) == x \in {a, b} /\ \A y \in {a, b} : x <= y
<1>1. least(a) \/ least(b)
  OBVIOUS
<1>2. PICK x : least(x)
  BY <1>1
<1>3. least(CHOOSE z \in {a, b} : \A y \in {a, b} : z <= y)
  BY <1>2
<1> QED
  BY <1>3 DEF Min

LEMMA MinOfThree ==
  ASSUME NEW a \in Nat, NEW b \in Nat, NEW c \in Nat
  PROVE  /\ Min({a, b, c}) \in Nat
         /\ Min({a, b, c}) = a \/ Min({a, b, c}) = b \/ Min({a, b, c}) = c
         /\ Min({a, b, c}) <= a /\ Min({a, b, c}) <= b /\ Min({a, b, c}) <= c
<1> DEFINE least(x) == x \in {a, b, c} /\ \A y \in {a, b, c} : x <= y
<1>1. least(a) \/ least(b) \/ least(c)
  OBVIOUS
<1>2. PICK x : least(x)
  BY <1>1
<1>3. least(CHOOSE z \in {a, b, c} : \A y \in {a, b, c} : z <= y)
  BY <1>2
<1> QED
  BY <1>3 DEF Min

\* The part of a message that is written next is some of it, and has room.
LEMMA PartTypes ==
  ASSUME TypeInv, NEW d \in Direction, queued[d] # <<>>, Len(wire[d]) < SocketWords
  PROVE  /\ Head(queued[d]) \in Write
         /\ PartOf(d) \in 1 .. Len(Head(queued[d]).words)
         /\ Len(wire[d]) + PartOf(d) <= SocketWords
<1>1. queued[d] \in Seq(Write) /\ wire[d] \in Seq(Nat) /\ SocketWords \in Nat
  BY PartAssumption DEF TypeInv
<1>2. Head(queued[d]) \in Write
  BY <1>1, HeadTailProperties
<1> DEFINE words == Head(queued[d]).words
<1>3. words \in Seq(Nat) /\ words # <<>>
  BY <1>2 DEF Write
<1> HIDE DEF words
<1>4. Len(words) \in Nat /\ Len(words) > 0
  BY <1>3, EmptySeq
<1>5. SocketWords - Len(wire[d]) \in Nat /\ SocketWords - Len(wire[d]) > 0 /\ Len(wire[d]) \in Nat
  BY <1>1
<1>6. PartWords \in Nat /\ PartWords > 0
  BY PartAssumption
<1> DEFINE part == Min({Len(words), PartWords, SocketWords - Len(wire[d])})
           room == SocketWords - Len(wire[d])
<1> HIDE DEF room
<1>7. /\ Min({Len(words), PartWords, room}) \in Nat
      /\ \/ Min({Len(words), PartWords, room}) = Len(words)
         \/ Min({Len(words), PartWords, room}) = PartWords
         \/ Min({Len(words), PartWords, room}) = room
      /\ Min({Len(words), PartWords, room}) <= Len(words)
      /\ Min({Len(words), PartWords, room}) <= room
  BY <1>4, <1>5, <1>6, MinOfThree DEF room
<1>8. part \in Nat /\ (part = Len(words) \/ part = PartWords \/ part = room)
      /\ part <= Len(words) /\ part <= room
  BY <1>7 DEF room
<1> HIDE DEF part
<1>9. part \in 1 .. Len(words) /\ Len(wire[d]) + part <= SocketWords
  BY <1>1, <1>4, <1>5, <1>6, <1>8 DEF room
<1> QED
  BY <1>2, <1>9 DEF PartOf, part, words

(***************************************************************************)
(* The messages at some places, by their recursion.                        *)
(***************************************************************************)
\* What At computes on the way, and one step of it.
Step(ms, places, f, i) ==
  IF i = 0 THEN <<>>
  ELSE IF i \in places THEN Append(f[i - 1], ms[i]) ELSE f[i - 1]

UpTo(ms, places) == CHOOSE f : f = [i \in 0 .. Len(ms) |-> Step(ms, places, f, i)]

\* The recursive function exists.
LEMMA UpToSteps ==
  ASSUME NEW ms, Len(ms) \in Nat, NEW places
  PROVE  /\ \A i \in 0 .. Len(ms) : UpTo(ms, places)[i] = Step(ms, places, UpTo(ms, places), i)
         /\ At(ms, places) = UpTo(ms, places)[Len(ms)]
<1> DEFINE Partial(f, k) == f = [i \in 0 .. k |-> Step(ms, places, f, i)]
           T == {k \in Nat : \E f : Partial(f, k)}
<1>1. 0 \in T
  <2>1. Partial([i \in 0 .. 0 |-> <<>>], 0)
    BY DEF Step
  <2> HIDE DEF Partial
  <2> QED
    BY <2>1
<1>2. ASSUME NEW k \in Nat, k \in T PROVE k + 1 \in T
  <2>1. PICK f : Partial(f, k)
    BY <1>2
  <2>2. \A i \in 0 .. k : f[i] = Step(ms, places, f, i)
    BY <2>1
  <2> DEFINE h == [i \in 0 .. (k + 1) |-> IF i <= k THEN f[i] ELSE Step(ms, places, f, i)]
  <2>3. ASSUME NEW i \in 0 .. (k + 1) PROVE h[i] = Step(ms, places, h, i)
    <3>1. h[i] = Step(ms, places, f, i)
      BY <2>2
    <3>2. i # 0 => h[i - 1] = f[i - 1]
      OBVIOUS
    <3> HIDE DEF h
    <3> QED
      BY <3>1, <3>2 DEF Step
  <2>4. h = [i \in 0 .. (k + 1) |-> h[i]]
    OBVIOUS
  <2> HIDE DEF h
  <2>5. Partial(h, k + 1)
    BY <2>3, <2>4
  <2> HIDE DEF Partial
  <2> QED
    BY <2>5
<1>3. Len(ms) \in T
  <2> HIDE DEF T
  <2> QED
    BY <1>1, <1>2, SetInduction
<1>4. UpTo(ms, places) = [i \in 0 .. Len(ms) |-> Step(ms, places, UpTo(ms, places), i)]
  <2>1. \E f : f = [i \in 0 .. Len(ms) |-> Step(ms, places, f, i)]
    BY <1>3
  <2> QED
    BY <2>1 DEF UpTo
<1>5. \A i \in 0 .. Len(ms) : UpTo(ms, places)[i] = Step(ms, places, UpTo(ms, places), i)
  <2> DEFINE u == UpTo(ms, places)
  <2>1. u = [i \in 0 .. Len(ms) |-> Step(ms, places, u, i)]
    BY <1>4
  <2> HIDE DEF u
  <2>2. \A i \in 0 .. Len(ms) : u[i] = Step(ms, places, u, i)
    BY <2>1
  <2> QED
    BY <2>2 DEF u
<1>6. At(ms, places) = UpTo(ms, places)[Len(ms)]
  BY DEF At, UpTo, Step
<1> QED
  BY <1>5, <1>6

\* Messages at places of a sequence are messages.
LEMMA AtType ==
  ASSUME NEW S, NEW ms \in Seq(S), NEW places
  PROVE  At(ms, places) \in Seq(S)
<1>1. Len(ms) \in Nat /\ \A i \in 1 .. Len(ms) : ms[i] \in S
  OBVIOUS
<1> DEFINE u == UpTo(ms, places)
           T == {k \in Nat : k \in 0 .. Len(ms) => u[k] \in Seq(S)}
<1>2. (\A i \in 0 .. Len(ms) : u[i] = Step(ms, places, u, i)) /\ At(ms, places) = u[Len(ms)]
  BY <1>1, UpToSteps
<1> HIDE DEF u
<1>3. 0 \in T
  <2>1. u[0] = <<>>
    BY <1>1, <1>2 DEF Step
  <2> QED
    BY <2>1, EmptySeq
<1>4. ASSUME NEW k \in Nat, k \in T PROVE k + 1 \in T
  <2> SUFFICES ASSUME k + 1 \in 0 .. Len(ms) PROVE u[k + 1] \in Seq(S)
    OBVIOUS
  <2>1. u[k] \in Seq(S) /\ ms[k + 1] \in S
    BY <1>1, <1>4
  <2>2. u[k + 1] = IF k + 1 \in places THEN Append(u[k], ms[k + 1]) ELSE u[k]
    BY <1>2 DEF Step
  <2> QED
    BY <2>1, <2>2
<1> HIDE DEF T
<1>5. Len(ms) \in T
  BY <1>1, <1>3, <1>4, SetInduction
<1> QED
  BY <1>1, <1>2, <1>5 DEF T

\* One message more is selected if its place is, and the others stay.
LEMMA AtAppend ==
  ASSUME NEW S, NEW ms \in Seq(S), NEW m \in S, NEW places, NEW more,
         \A i \in 1 .. Len(ms) : i \in more <=> i \in places
  PROVE  At(Append(ms, m), more) =
           IF Len(ms) + 1 \in more THEN Append(At(ms, places), m) ELSE At(ms, places)
<1> DEFINE longer == Append(ms, m)
           u == UpTo(ms, places)
           v == UpTo(longer, more)
           T == {k \in Nat : k \in 0 .. Len(ms) => v[k] = u[k]}
<1>1. /\ Len(ms) \in Nat /\ Len(longer) = Len(ms) + 1
      /\ longer[Len(ms) + 1] = m /\ \A i \in 1 .. Len(ms) : longer[i] = ms[i]
  OBVIOUS
<1> HIDE DEF longer
<1>2. (\A i \in 0 .. Len(ms) : u[i] = Step(ms, places, u, i)) /\ At(ms, places) = u[Len(ms)]
  BY <1>1, UpToSteps
<1>3. /\ \A i \in 0 .. (Len(ms) + 1) : v[i] = Step(longer, more, v, i)
      /\ At(longer, more) = v[Len(ms) + 1]
  BY <1>1, UpToSteps
<1> HIDE DEF u, v
<1>4. 0 \in T
  BY <1>1, <1>2, <1>3 DEF Step
<1>5. ASSUME NEW k \in Nat, k \in T PROVE k + 1 \in T
  <2> SUFFICES ASSUME k + 1 \in 0 .. Len(ms) PROVE v[k + 1] = u[k + 1]
    OBVIOUS
  <2>1. v[k] = u[k] /\ longer[k + 1] = ms[k + 1] /\ (k + 1 \in more <=> k + 1 \in places)
    BY <1>1, <1>5
  <2>2. u[k + 1] = IF k + 1 \in places THEN Append(u[k], ms[k + 1]) ELSE u[k]
    BY <1>2 DEF Step
  <2>3. v[k + 1] = IF k + 1 \in more THEN Append(v[k], longer[k + 1]) ELSE v[k]
    BY <1>1, <1>3 DEF Step
  <2> QED
    BY <2>1, <2>2, <2>3
<1> HIDE DEF T
<1>6. Len(ms) \in T
  BY <1>1, <1>4, <1>5, SetInduction
<1>7. v[Len(ms)] = u[Len(ms)]
  BY <1>1, <1>6 DEF T
<1>8. v[Len(ms) + 1] = IF Len(ms) + 1 \in more THEN Append(v[Len(ms)], m) ELSE v[Len(ms)]
  BY <1>1, <1>3 DEF Step
<1> QED
  BY <1>2, <1>3, <1>7, <1>8 DEF longer

(***************************************************************************)
(* The messages that are built.                                            *)
(***************************************************************************)
\* The writers' counters.
LEMMA NextTypes ==
  ASSUME TypeInv, NEW d \in Direction
  PROVE  NextHop(d) \in Nat \ {0} /\ NextEnd(d) \in Nat \ {0}
<1>1. sent[d] \in Seq(Message)
  BY DEF TypeInv
<1>2. Requests(sent[d]) \in Seq(Message)
  BY <1>1, AtType DEF Requests
<1>3. Len(Requests(sent[d])) \in Nat
  BY <1>2
<1> QED
  BY <1>3 DEF NextHop, NextEnd

\* Peer::send gives a message its identifiers and changes nothing else.
LEMMA WithIdsSets ==
  ASSUME TypeInv, NEW d \in Direction, NEW m \in Message
  PROVE  LET r == WithIds(d, m)
         IN  /\ r \in Message /\ Len(r) = Len(m) /\ (Sized(m) => Sized(r))
             /\ r[2] = m[2] /\ r[3] = m[3] /\ \A i \in 6 .. Len(m) : r[i] = m[i]
             /\ HopByHop(r) = IF HopByHop(m) = 0 THEN NextHop(d) ELSE HopByHop(m)
             /\ EndToEnd(r) = IF EndToEnd(m) = 0 THEN NextEnd(d) ELSE EndToEnd(m)
<1>1. NextHop(d) \in Nat /\ NextEnd(d) \in Nat
  BY NextTypes
<1>2. HopByHop(m) \in Nat /\ EndToEnd(m) \in Nat
  BY HeaderTypes
<1> DEFINE hop == IF HopByHop(m) = 0 THEN NextHop(d) ELSE HopByHop(m)
           end == IF EndToEnd(m) = 0 THEN NextEnd(d) ELSE EndToEnd(m)
<1>3. hop \in Nat /\ end \in Nat
  BY <1>1, <1>2
<1> HIDE DEF hop, end
<1> DEFINE h == [m EXCEPT ![4] = hop]
<1>4. 4 \in 2 .. 5 /\ 5 \in 2 .. 5
  OBVIOUS
<1>5. /\ h \in Message /\ Len(h) = Len(m) /\ (Sized(m) => Sized(h))
      /\ \A i \in 1 .. Len(m) : h[i] = IF i = 4 THEN hop ELSE m[i]
  BY <1>3, <1>4, ReplaceWord
<1> HIDE DEF h
<1> DEFINE r == [h EXCEPT ![5] = end]
<1>6. /\ r \in Message /\ Len(r) = Len(h) /\ (Sized(h) => Sized(r))
      /\ \A i \in 1 .. Len(h) : r[i] = IF i = 5 THEN end ELSE h[i]
  BY <1>3, <1>4, <1>5, ReplaceWord
<1> HIDE DEF r
<1>7. Len(m) \in Nat /\ Len(m) >= 5
  BY HeaderTypes
<1>8. \A i \in 2 .. 5 : i \in 1 .. Len(m)
  BY <1>7
<1>9. r[2] = m[2] /\ r[3] = m[3] /\ r[4] = hop /\ r[5] = end
  BY <1>5, <1>6, <1>8
<1>10. ASSUME NEW i \in 6 .. Len(m) PROVE r[i] = m[i]
  <2>1. i \in 1 .. Len(m) /\ i # 4 /\ i # 5
    BY <1>7
  <2> QED
    BY <1>5, <1>6, <2>1
<1>11. WithIds(d, m) = r
  BY DEF WithIds, SetEndToEnd, SetHopByHop, r, h, hop, end
<1> HIDE DEF WithIds
<1> QED
  BY <1>5, <1>6, <1>9, <1>10, <1>11 DEF HopByHop, EndToEnd, hop, end

\* A request as it is sent: with identifiers, and for the base protocol's own
\* application if its command is one of the base protocol's.
Asks(m) ==
  /\ m \in Message /\ Sized(m) /\ IsRequest(m)
  /\ HopByHop(m) # 0 /\ EndToEnd(m) # 0
  /\ CommandCode(m) \in Base => ApplicationId(m) = 0

\* What every request is, and the one that opens the session.
LEMMA RequestForAsks ==
  ASSUME TypeInv, NEW d \in Direction, NEW item \in Item
  PROVE  /\ Asks(RequestFor(d, item))
         /\ item.kind = "CER" => CommandCode(RequestFor(d, item)) = CER
<1>1. NextHop(d) \in Nat /\ NextHop(d) # 0 /\ NextEnd(d) \in Nat /\ NextEnd(d) # 0
  BY NextTypes
<1>2. Client \in Config /\ Server \in Config /\ Node(d) \in Config
  BY NodeAssumption DEF Node
<1>3. ASSUME NEW m, NEW command \in Base, IsRequest(m),
             Says(m, command, 0, NextHop(d), NextEnd(d))
      PROVE  Asks(m) /\ CommandCode(m) = command
  BY <1>1, <1>3 DEF Says, Asks
<1>4. ASSUME NEW m, NEW command, NEW app, Says(m, command, app, 0, 0), IsRequest(m),
             command \notin Base
      PROVE  Asks(WithIds(d, m)) /\ CommandCode(WithIds(d, m)) = command
  <2>1. m \in Message /\ Sized(m) /\ HopByHop(m) = 0 /\ EndToEnd(m) = 0 /\ CommandCode(m) = command
    BY <1>4 DEF Says
  <2> DEFINE r == WithIds(d, m)
  <2>2. /\ r \in Message /\ Sized(r) /\ r[2] = m[2]
        /\ HopByHop(r) = NextHop(d) /\ EndToEnd(r) = NextEnd(d)
    BY <2>1, WithIdsSets
  <2> HIDE DEF r
  <2>3. CommandCode(r) = command /\ IsRequest(r)
    BY <1>4, <2>1, <2>2 DEF CommandCode, IsRequest
  <2>4. Asks(r)
    BY <1>1, <1>4, <2>2, <2>3 DEF Asks
  <2> QED
    BY <2>3, <2>4 DEF r
<1>5. CASE item.kind = "CER"
  <2> DEFINE m == BuildCER(Client, NextHop(d), NextEnd(d))
  <2>1. Says(m, CER, 0, NextHop(d), NextEnd(d)) /\ IsRequest(m)
    BY <1>1, <1>2, BaseRequests
  <2>2. RequestFor(d, item) = m
    BY <1>5 DEF RequestFor
  <2> HIDE DEF m
  <2> QED
    BY <1>3, <2>1, <2>2 DEF Base
<1>6. CASE item.kind = "DWR"
  <2> DEFINE m == BuildDWR(Client, NextHop(d), NextEnd(d))
  <2>1. Says(m, DWR, 0, NextHop(d), NextEnd(d)) /\ IsRequest(m)
    BY <1>1, <1>2, BaseRequests
  <2>2. RequestFor(d, item) = m
    BY <1>6 DEF RequestFor
  <2> HIDE DEF m
  <2> QED
    BY <1>3, <1>6, <2>1, <2>2 DEF Base
<1>7. CASE item.kind = "DPR"
  <2> DEFINE m == BuildDPR(Node(d), 0, NextHop(d), NextEnd(d))
  <2>1. Says(m, DPR, 0, NextHop(d), NextEnd(d)) /\ IsRequest(m)
    BY <1>1, <1>2, BaseRequests
  <2>2. RequestFor(d, item) = m
    BY <1>7 DEF RequestFor
  <2> HIDE DEF m
  <2> QED
    BY <1>3, <1>7, <2>1, <2>2 DEF Base
<1>8. CASE item.kind = "PING"
  <2> DEFINE m == BuildRequest(999, 0, Node(d).host)
  <2>1. Says(m, 999, 0, 0, 0) /\ IsRequest(m) /\ 999 \notin Base
    BY <1>2, ApplicationRequests DEF Base, CER, DWR, DPR
  <2>2. RequestFor(d, item) = WithIds(d, m)
    BY <1>8 DEF RequestFor
  <2> HIDE DEF m
  <2> QED
    BY <1>4, <1>8, <2>1, <2>2
<1>9. CASE item.kind = "APP"
  <2> DEFINE avps == [i \in 1 .. Len(item.avps) |-> AvpOf(item.avps[i])]
             all == FlattenSeq(avps)
             m == BuildAppRequest(all)
  <2>1. item.avps \in Seq([code : Nat, vendor : Nat, data : Data])
    BY DEF Item, Word
  <2>2. ASSUME NEW i \in 1 .. Len(item.avps) PROVE AvpOf(item.avps[i]) \in Seq(Nat)
    <3>1. item.avps[i] \in [code : Nat, vendor : Nat, data : Data]
      BY <2>1, ElementOfSeq
    <3> DEFINE a == item.avps[i]
    <3> HIDE DEF a
    <3>2. a.code \in Nat /\ a.vendor \in Nat /\ a.data \in Data
      BY <3>1 DEF a
    <3>3. Avp(a.code, a.data) \in Seq(Nat) /\ VendorAvp(a.code, a.vendor, a.data) \in Seq(Nat)
      BY <3>2, AvpTypes
    <3>4. AvpOf(a) \in Seq(Nat)
      BY <3>3 DEF AvpOf
    <3> QED
      BY <3>4 DEF a
  <2>3. Len(item.avps) \in Nat
    BY <2>1
  <2>4. Len(avps) = Len(item.avps) /\ (Len(avps) = 0 => avps = <<>>)
    BY <2>3
  <2>5. \A i \in 1 .. Len(avps) : avps[i] \in Seq(Nat)
    BY <2>2, <2>4
  <2>6. RequestFor(d, item) = WithIds(d, m)
    BY <1>9 DEF RequestFor
  <2> HIDE DEF avps
  <2>7. all \in Seq(Nat)
    BY <2>3, <2>4, <2>5, FlattenType
  <2> HIDE DEF all
  <2>8. Says(m, 272, 4, 0, 0) /\ IsRequest(m) /\ 272 \notin Base
    BY <2>7, ApplicationRequests DEF Base, CER, DWR, DPR
  <2> HIDE DEF m
  <2> QED
    BY <1>4, <1>9, <2>6, <2>8
<1>10. item.kind \in {"CER", "DWR", "DPR", "PING", "APP"}
  BY DEF Item
<1> QED
  BY <1>5, <1>6, <1>7, <1>8, <1>9, <1>10

\* An answer to a request that has identifiers: for the same command, under the
\* same identifiers.
LEMMA AnswerToAnswers ==
  ASSUME TypeInv, NEW d \in Direction, NEW m \in Message
  PROVE  LET a == AnswerTo(d, m)
         IN  /\ a \in Message /\ Sized(a) /\ ~IsRequest(a)
             /\ CommandCode(a) = CommandCode(m)
             /\ HopByHop(m) # 0 => HopByHop(a) = HopByHop(m)
             /\ EndToEnd(m) # 0 => EndToEnd(a) = EndToEnd(m)
             /\ (CommandCode(m) \in Base => ApplicationId(m) = 0)
                  => ApplicationId(a) = ApplicationId(m)
<1> DEFINE Right(a, b) ==
             /\ a \in Message /\ Sized(a) /\ ~IsRequest(a)
             /\ CommandCode(a) = CommandCode(b)
             /\ HopByHop(b) # 0 => HopByHop(a) = HopByHop(b)
             /\ EndToEnd(b) # 0 => EndToEnd(a) = EndToEnd(b)
             /\ (CommandCode(b) \in Base => ApplicationId(b) = 0)
                  => ApplicationId(a) = ApplicationId(b)
<1>1. Node(d) \in Config
  BY NodeAssumption DEF Node
<1>2. ASSUME NEW a, Says(a, CommandCode(m), 0, HopByHop(m), EndToEnd(m)), ~IsRequest(a),
             CommandCode(m) \in Base
      PROVE  Right(a, m)
  BY <1>2 DEF Says
<1>3. ASSUME NEW a, ~IsRequest(a), NEW w \in Direction,
             Says(a, CommandCode(m), ApplicationId(m), HopByHop(m), EndToEnd(m))
      PROVE  Right(WithIds(w, a), m)
  <2>1. /\ a \in Message /\ Sized(a) /\ CommandCode(a) = CommandCode(m)
        /\ ApplicationId(a) = ApplicationId(m)
        /\ HopByHop(a) = HopByHop(m) /\ EndToEnd(a) = EndToEnd(m)
    BY <1>3 DEF Says
  <2> DEFINE r == WithIds(w, a)
  <2>2. /\ r \in Message /\ Sized(r) /\ r[2] = a[2] /\ r[3] = a[3]
        /\ HopByHop(r) = IF HopByHop(a) = 0 THEN NextHop(w) ELSE HopByHop(a)
        /\ EndToEnd(r) = IF EndToEnd(a) = 0 THEN NextEnd(w) ELSE EndToEnd(a)
    BY <2>1, WithIdsSets
  <2> HIDE DEF r
  <2>3. /\ CommandCode(r) = CommandCode(a) /\ ApplicationId(r) = ApplicationId(a)
        /\ ~IsRequest(r)
    BY <1>3, <2>2 DEF CommandCode, ApplicationId, IsRequest
  <2>4. Right(r, m)
    BY <2>1, <2>2, <2>3
  <2> QED
    BY <2>4 DEF r
<1>4. CASE CommandCode(m) = CER
  <2>1. Right(BuildCEA(Node(d), m), m)
    <3> HIDE DEF Right
    <3> QED
      BY <1>1, <1>2, <1>4, BaseAnswers DEF Base
  <2> HIDE DEF Right
  <2>2. CommandCode(m) \notin {DWR, DPR}
    BY <1>4 DEF CER, DWR, DPR
  <2>3. AnswerTo(d, m) = BuildCEA(Node(d), m)
    BY <1>4, <2>2 DEF AnswerTo
  <2>4. Right(AnswerTo(d, m), m)
    BY <2>1, <2>3
  <2> QED
    BY <2>4 DEF Right
<1>5. CASE CommandCode(m) # CER /\ CommandCode(m) \in {DWR, DPR}
  <2>1. Right(BuildBaseAnswer(Node(d), m), m)
    <3> HIDE DEF Right
    <3> QED
      BY <1>1, <1>2, <1>5, BaseAnswers DEF Base
  <2> HIDE DEF Right
  <2>2. AnswerTo(d, m) = BuildBaseAnswer(Node(d), m)
    BY <1>5 DEF AnswerTo, CER, DWR, DPR
  <2>3. Right(AnswerTo(d, m), m)
    BY <2>1, <2>2
  <2> QED
    BY <2>3 DEF Right
<1>6. CASE CommandCode(m) # CER /\ CommandCode(m) \notin {DWR, DPR}
  <2> HIDE DEF Right
  <2>1. Right(SendAnswer(m), m) /\ Right(Echo(m), m)
    <3>1. "there" \in Direction /\ "back" \in Direction
      BY DEF Direction
    <3> QED
      BY <1>3, <3>1, ApplicationAnswers DEF SendAnswer, Echo
  <2>2. AnswerTo(d, m) = IF d = "there" THEN SendAnswer(m) ELSE Echo(m)
    BY <1>6 DEF AnswerTo
  <2>3. Right(AnswerTo(d, m), m)
    BY <2>1, <2>2
  <2> QED
    BY <2>3 DEF Right
<1> QED
  BY <1>4, <1>5, <1>6

(***************************************************************************)
(* Type correctness.                                                       *)
(***************************************************************************)
LEMMA OtherSide ==
  ASSUME NEW d \in Direction
  PROVE  Other(d) \in Direction /\ Other(Other(d)) = d /\ Other(d) # d
BY DEF Other, Direction

\* asyncWrite queues a message and records it.
LEMMA AsyncWriteTypes ==
  ASSUME TypeInv, NEW d \in Direction, NEW m \in Message, AsyncWrite(d, m)
  PROVE  /\ queued' \in [Direction -> Seq(Write)]
         /\ sent' \in [Direction -> Seq(Message)]
         /\ contended' \in [Direction -> BOOLEAN]
<1> DEFINE w == [words |-> m, cut |-> FALSE]
<1>1. m \in Seq(Nat) /\ m # <<>>
  BY HeaderTypes
<1>2. w \in Write
  BY <1>1 DEF Write
<1> HIDE DEF w
<1>3. queued[d] \in Seq(Write) /\ sent[d] \in Seq(Message)
  BY DEF TypeInv
<1>4. Append(queued[d], w) \in Seq(Write) /\ Append(sent[d], m) \in Seq(Message)
  BY <1>2, <1>3, AppendProperties
<1>5. queued' = [queued EXCEPT ![d] = Append(queued[d], w)]
      /\ sent' = [sent EXCEPT ![d] = Append(sent[d], m)]
  BY DEF AsyncWrite, Put, w
<1>6. contended' \in [Direction -> BOOLEAN]
  <2> DEFINE cut == \E i \in 1 .. Len(Writes(d)) : Writes(d)[i].cut
  <2>1. contended' = [contended EXCEPT ![d] = @ \/ cut]
    BY DEF AsyncWrite
  <2>2. cut \in BOOLEAN
    OBVIOUS
  <2> HIDE DEF cut
  <2> QED
    BY <2>1, <2>2 DEF TypeInv
<1> QED
  BY <1>4, <1>5, <1>6 DEF TypeInv

LEMMA SendTypes ==
  ASSUME TypeInv, NEW d \in Direction, Send(d)
  PROVE  TypeInv'
<1>1. plan[d] \in Seq(Item) /\ plan[d] # <<>>
  BY DEF TypeInv, Send
<1>2. Head(plan[d]) \in Item /\ Tail(plan[d]) \in Seq(Item)
  BY <1>1, HeadTailProperties
<1> DEFINE m == RequestFor(d, Head(plan[d]))
<1>3. m \in Message
  BY <1>2, RequestForAsks DEF Asks
<1>4. AsyncWrite(d, m) /\ plan' = [plan EXCEPT ![d] = Tail(plan[d])]
      /\ UNCHANGED <<resuming, wire, reader, received>>
  BY DEF Send
<1> HIDE DEF m
<1>5. /\ queued' \in [Direction -> Seq(Write)] /\ sent' \in [Direction -> Seq(Message)]
      /\ contended' \in [Direction -> BOOLEAN]
  BY <1>3, <1>4, AsyncWriteTypes
<1>6. plan' \in [Direction -> Seq(Item)]
  BY <1>2, <1>4 DEF TypeInv
<1> QED
  BY <1>4, <1>5, <1>6 DEF TypeInv

\* What a part leaves of a message is a write that can go on.
LEMMA WritePartTypes ==
  ASSUME TypeInv, NEW d \in Direction, WritePart(d)
  PROVE  TypeInv'
<1> DEFINE w == Head(queued[d])
           n == PartOf(d)
<1>1. queued[d] # <<>> /\ Len(wire[d]) < SocketWords
  BY DEF WritePart
<1>2. w \in Write /\ n \in 1 .. Len(w.words) /\ Len(wire[d]) + n <= SocketWords
  BY <1>1, PartTypes
<1>3. queued[d] \in Seq(Write) /\ wire[d] \in Seq(Nat) /\ resuming[d] \in Seq(Write)
  BY DEF TypeInv
<1>4. w.words \in Seq(Nat) /\ Len(w.words) \in Nat
  BY <1>2 DEF Write
<1>5. Tail(queued[d]) \in Seq(Write)
  BY <1>1, <1>3, HeadTailProperties
<1>6. /\ queued' = [queued EXCEPT ![d] = Tail(queued[d])]
      /\ wire' = [wire EXCEPT ![d] = wire[d] \o SubSeq(w.words, 1, n)]
      /\ UNCHANGED <<plan, reader, sent, received>>
      /\ IF n = Len(w.words)
         THEN UNCHANGED <<resuming, contended>>
         ELSE /\ resuming' = Put(resuming, d, Rest(w, n))
              /\ contended' = [contended EXCEPT ![d] = @ \/ Len(Writes(d)) > 1]
  BY DEF WritePart
<1> HIDE DEF w, n
<1> DEFINE part == SubSeq(w.words, 1, n)
           rest == SubSeq(w.words, n + 1, Len(w.words))
<1>7. part \in Seq(Nat) /\ Len(part) = n
  <2>1. n \in Nat /\ 1 <= n /\ \A i \in 1 .. n : w.words[i] \in Nat
    BY <1>2, <1>4
  <2> QED
    BY <2>1, SubSeqProperties
<1>8. n # Len(w.words) => rest \in Seq(Nat) /\ rest # <<>>
  <2> SUFFICES ASSUME n # Len(w.words) PROVE rest \in Seq(Nat) /\ rest # <<>>
    OBVIOUS
  <2>1. n + 1 \in Int /\ Len(w.words) \in Int /\ n + 1 <= Len(w.words)
        /\ \A i \in (n + 1) .. Len(w.words) : w.words[i] \in Nat
    BY <1>2, <1>4
  <2>2. rest \in Seq(Nat) /\ Len(rest) = Len(w.words) - (n + 1) + 1
    BY <2>1, SubSeqProperties
  <2> HIDE DEF rest
  <2> QED
    BY <1>2, <1>4, <2>1, <2>2
<1> HIDE DEF part
<1>9. wire[d] \o part \in Seq(Nat) /\ Len(wire[d] \o part) <= SocketWords
  BY <1>2, <1>3, <1>7, ConcatProperties
<1>10. wire' \in [Direction -> Seq(Nat)] /\ \A x \in Direction : Len(wire'[x]) <= SocketWords
  BY <1>6, <1>9 DEF TypeInv, part
<1>11. queued' \in [Direction -> Seq(Write)]
  BY <1>5, <1>6 DEF TypeInv
<1>12. resuming' \in [Direction -> Seq(Write)]
  <2>1. CASE n = Len(w.words)
    BY <1>6, <2>1 DEF TypeInv
  <2>2. CASE n # Len(w.words)
    <3>1. Rest(w, n) \in Write
      BY <1>8, <2>2 DEF Rest, Write
    <3>2. Append(resuming[d], Rest(w, n)) \in Seq(Write)
      BY <1>3, <3>1, AppendProperties
    <3>3. resuming' = [resuming EXCEPT ![d] = Append(resuming[d], Rest(w, n))]
      BY <1>6, <2>2 DEF Put
    <3> QED
      BY <3>2, <3>3 DEF TypeInv
  <2> QED
    BY <2>1, <2>2
<1>13. contended' \in [Direction -> BOOLEAN]
  <2> DEFINE many == Len(Writes(d)) > 1
  <2>1. contended' = contended \/ contended' = [contended EXCEPT ![d] = @ \/ many]
    BY <1>6
  <2>2. many \in BOOLEAN
    OBVIOUS
  <2> HIDE DEF many
  <2> QED
    BY <2>1, <2>2 DEF TypeInv
<1> QED
  BY <1>6, <1>10, <1>11, <1>12, <1>13 DEF TypeInv

LEMMA WriteResumesTypes ==
  ASSUME TypeInv, NEW d \in Direction, WriteResumes(d)
  PROVE  TypeInv'
<1>1. queued[d] \in Seq(Write) /\ resuming[d] \in Seq(Write) /\ resuming[d] # <<>>
  BY DEF TypeInv, WriteResumes
<1>2. Head(resuming[d]) \in Write /\ Tail(resuming[d]) \in Seq(Write)
  BY <1>1, HeadTailProperties
<1>3. Append(queued[d], Head(resuming[d])) \in Seq(Write)
  BY <1>1, <1>2, AppendProperties
<1>4. /\ queued' = [queued EXCEPT ![d] = Append(queued[d], Head(resuming[d]))]
      /\ resuming' = [resuming EXCEPT ![d] = Tail(resuming[d])]
      /\ UNCHANGED <<plan, wire, reader, sent, received, contended>>
  BY DEF WriteResumes, Put
<1> QED
  BY <1>2, <1>3, <1>4 DEF TypeInv

LEMMA ReadHeaderTypes ==
  ASSUME TypeInv, NEW d \in Direction, ReadHeader(d)
  PROVE  TypeInv'
<1> DEFINE w == Head(wire[d])
           next == IF Low(w) < 20 THEN [reader[d] EXCEPT !.phase = "failed"]
                   ELSE [phase |-> "body", readBuf |-> <<w>>]
           Phase == {"header", "body", "failed"}
<1>1. wire[d] \in Seq(Nat) /\ wire[d] # <<>> /\ reader[d] \in [phase : Phase, readBuf : Seq(Nat)]
  BY DEF TypeInv, ReadHeader
<1>2. w \in Nat /\ Tail(wire[d]) \in Seq(Nat) /\ Len(Tail(wire[d])) <= Len(wire[d])
  BY <1>1, HeadTailProperties
<1>3. /\ wire' = [wire EXCEPT ![d] = Tail(wire[d])]
      /\ reader' = [reader EXCEPT ![d] = next]
      /\ UNCHANGED <<plan, queued, resuming, sent, received, contended>>
  BY DEF ReadHeader
<1>4. wire' \in [Direction -> Seq(Nat)] /\ \A x \in Direction : Len(wire'[x]) <= SocketWords
  <2> DEFINE rest == Tail(wire[d])
  <2>1. Len(rest) \in Nat /\ Len(wire[d]) \in Nat /\ SocketWords \in Nat
        /\ Len(wire[d]) <= SocketWords
    BY <1>1, <1>2, PartAssumption DEF TypeInv
  <2>2. rest \in Seq(Nat) /\ Len(rest) <= SocketWords
    BY <1>2, <2>1
  <2>3. wire' = [wire EXCEPT ![d] = rest]
    BY <1>3
  <2> HIDE DEF rest
  <2> QED
    BY <2>2, <2>3 DEF TypeInv
<1> HIDE DEF w
<1>5. Low(w) \in Nat
  BY <1>2, WordTypes
<1>6. next \in [phase : Phase, readBuf : Seq(Nat)]
  <2>1. [reader[d] EXCEPT !.phase = "failed"] \in [phase : Phase, readBuf : Seq(Nat)]
    BY <1>1
  <2>2. <<w>> \in Seq(Nat)
    BY <1>2
  <2>3. [phase |-> "body", readBuf |-> <<w>>] \in [phase : Phase, readBuf : Seq(Nat)]
    BY <2>2
  <2> QED
    BY <2>1, <2>3
<1>7. next.phase = "body" => Unfinished(next.readBuf)
  <2> SUFFICES ASSUME next.phase = "body" PROVE Unfinished(next.readBuf)
    OBVIOUS
  <2>1. Low(w) >= 20 /\ next.readBuf = <<w>>
    BY <1>1, <1>5
  <2>2. Len(<<w>>) = 1 /\ Size(<<w>>) = Low(w)
    BY DEF Size
  <2>3. WordsOf(Low(w)) >= 5
    BY <1>5, <2>1 DEF WordsOf
  <2>4. WordsOf(Low(w)) \in Nat
    BY <1>5 DEF WordsOf
  <2>5. Unfinished(<<w>>)
    BY <2>2, <2>3, <2>4 DEF Unfinished, HeaderWords
  <2> QED
    BY <2>1, <2>5
<1> HIDE DEF next
<1>8. /\ reader' \in [Direction -> [phase : Phase, readBuf : Seq(Nat)]]
      /\ \A x \in Direction : reader'[x].phase = "body" => Unfinished(reader'[x].readBuf)
  BY <1>3, <1>6, <1>7 DEF TypeInv
<1> QED
  BY <1>3, <1>4, <1>8 DEF TypeInv

\* What ReadBody takes from the stream, and what it has then.
Missing(d) == WordsOf(Size(reader[d].readBuf)) - Len(reader[d].readBuf)
Taken(d) == Min({Missing(d), Len(wire[d])})
Longer(d) == reader[d].readBuf \o SubSeq(wire[d], 1, Taken(d))

LEMMA ReadBodyTakes ==
  ASSUME TypeInv, NEW d \in Direction, reader[d].phase = "body", wire[d] # <<>>
  PROVE  /\ Missing(d) \in Nat /\ Missing(d) > 0
         /\ Taken(d) \in 1 .. Len(wire[d]) /\ Taken(d) <= Missing(d)
         /\ SubSeq(wire[d], 1, Taken(d)) \in Seq(Nat)
         /\ SubSeq(wire[d], Taken(d) + 1, Len(wire[d])) \in Seq(Nat)
         /\ Len(SubSeq(wire[d], Taken(d) + 1, Len(wire[d]))) = Len(wire[d]) - Taken(d)
         /\ \A i \in 1 .. (Len(wire[d]) - Taken(d)) :
              SubSeq(wire[d], Taken(d) + 1, Len(wire[d]))[i] = wire[d][Taken(d) + i]
         /\ Longer(d) \in Seq(Nat) /\ Len(Longer(d)) = Len(reader[d].readBuf) + Taken(d)
         /\ \A i \in 1 .. Len(reader[d].readBuf) : Longer(d)[i] = reader[d].readBuf[i]
         /\ \A i \in 1 .. Taken(d) : Longer(d)[Len(reader[d].readBuf) + i] = wire[d][i]
         /\ Size(Longer(d)) = Size(reader[d].readBuf)
<1> DEFINE b == reader[d].readBuf
           w == wire[d]
           n == Taken(d)
<1>1. w \in Seq(Nat) /\ w # <<>> /\ b \in Seq(Nat) /\ Unfinished(b)
  BY DEF TypeInv
<1>2. Len(w) \in Nat /\ Len(w) > 0 /\ Len(b) \in Nat /\ Len(b) > 0
  BY <1>1, EmptySeq DEF Unfinished
<1>3. WordsOf(Size(b)) \in Nat
  <2>1. b[1] \in Nat
    BY <1>1, <1>2
  <2>2. Size(b) \in Nat
    BY <2>1, WordTypes DEF Size
  <2> QED
    BY <2>2 DEF WordsOf
<1>4. Missing(d) = WordsOf(Size(b)) - Len(b) /\ n = Min({Missing(d), Len(w)})
  BY DEF Missing, Taken
<1>5. Missing(d) \in Nat /\ Missing(d) > 0
  BY <1>1, <1>2, <1>3, <1>4 DEF Unfinished
<1>6. n \in Nat /\ (n = Missing(d) \/ n = Len(w)) /\ n <= Missing(d) /\ n <= Len(w)
  BY <1>2, <1>4, <1>5, MinOfTwo
<1>7. n \in 1 .. Len(w)
  BY <1>2, <1>5, <1>6
<1> DEFINE part == SubSeq(w, 1, n)
           rest == SubSeq(w, n + 1, Len(w))
<1>8. Longer(d) = b \o part
  BY DEF Longer
<1> HIDE DEF b, w, n
<1>9. \A i \in 1 .. Len(w) : w[i] \in Nat
  BY <1>1
<1>10. part \in Seq(Nat) /\ Len(part) = n /\ \A i \in 1 .. n : part[i] = w[i]
  <2>1. n \in Int /\ 1 \in Int /\ 1 <= n /\ \A i \in 1 .. n : w[i] \in Nat
    BY <1>2, <1>7, <1>9
  <2> QED
    BY <2>1, SubSeqProperties
<1>11. rest \in Seq(Nat) /\ Len(rest) = Len(w) - n
       /\ \A i \in 1 .. (Len(w) - n) : rest[i] = w[n + i]
  <2>1. n + 1 \in Int /\ Len(w) \in Int /\ \A i \in (n + 1) .. Len(w) : w[i] \in Nat
    BY <1>2, <1>7, <1>9
  <2>2. /\ rest \in Seq(Nat)
        /\ Len(rest) = IF n + 1 <= Len(w) THEN Len(w) - (n + 1) + 1 ELSE 0
        /\ \A i \in 1 .. (Len(w) - (n + 1) + 1) : rest[i] = w[(n + 1) + i - 1]
    BY <2>1, SubSeqProperties
  <2> HIDE DEF rest
  <2>3. Len(rest) = Len(w) - n
    BY <1>2, <1>7, <2>2
  <2>4. ASSUME NEW i \in 1 .. (Len(w) - n) PROVE rest[i] = w[n + i]
    <3>1. i \in 1 .. (Len(w) - (n + 1) + 1) /\ (n + 1) + i - 1 = n + i
      BY <1>2, <1>7
    <3> QED
      BY <2>2, <3>1
  <2> QED
    BY <2>2, <2>3, <2>4
<1> HIDE DEF part, rest
<1>12. /\ b \o part \in Seq(Nat) /\ Len(b \o part) = Len(b) + n
       /\ \A i \in 1 .. Len(b) + n : (b \o part)[i] = IF i <= Len(b) THEN b[i] ELSE part[i - Len(b)]
  BY <1>1, <1>10, ConcatProperties
<1>13. \A i \in 1 .. Len(b) : (b \o part)[i] = b[i]
  BY <1>2, <1>7, <1>12
<1>14. ASSUME NEW i \in 1 .. n PROVE (b \o part)[Len(b) + i] = w[i]
  <2>1. Len(b) + i \in 1 .. Len(b) + n /\ ~ (Len(b) + i <= Len(b)) /\ (Len(b) + i) - Len(b) = i
    BY <1>2, <1>7
  <2> QED
    BY <1>10, <1>12, <2>1
<1>15. Size(b \o part) = Size(b)
  <2>1. 1 \in 1 .. Len(b)
    BY <1>2
  <2> QED
    BY <1>13, <2>1 DEF Size
<1> QED
  BY <1>5, <1>6, <1>7, <1>8, <1>10, <1>11, <1>12, <1>13, <1>14, <1>15 DEF b, w, n, part, rest

\* ReadBody in these terms.
LEMMA ReadBodySplit ==
  ASSUME TypeInv, NEW d \in Direction, ReadBody(d)
  PROVE  /\ reader[d].phase = "body" /\ wire[d] # <<>>
         /\ wire' = [wire EXCEPT ![d] = SubSeq(wire[d], Taken(d) + 1, Len(wire[d]))]
         /\ UNCHANGED <<plan, resuming>>
         /\ \/ /\ Taken(d) = Missing(d)
               /\ OnMessage(d, Longer(d))
               /\ reader' = [reader EXCEPT ![d] = AtHeader]
            \/ /\ Taken(d) # Missing(d)
               /\ reader' = [reader EXCEPT ![d] = [reader[d] EXCEPT !.readBuf = Longer(d)]]
               /\ UNCHANGED <<queued, sent, received, contended>>
BY DEF ReadBody, Taken, Missing, Longer

\* A buffer that is complete is a message.
LEMMA CompleteIsMessage ==
  ASSUME TypeInv, NEW d \in Direction, reader[d].phase = "body", wire[d] # <<>>,
         Taken(d) = Missing(d)
  PROVE  Longer(d) \in Message
<1> DEFINE whole == WordsOf(Size(reader[d].readBuf))
<1>1. Longer(d) \in Seq(Nat) /\ Len(Longer(d)) = Len(reader[d].readBuf) + Missing(d)
      /\ Missing(d) \in Nat
  BY ReadBodyTakes
<1>2. Missing(d) = whole - Len(reader[d].readBuf)
  BY DEF Missing
<1>3. whole >= 5 /\ Len(reader[d].readBuf) \in Nat /\ whole \in Nat
  <2>1. Unfinished(reader[d].readBuf) /\ reader[d].readBuf \in Seq(Nat)
    BY DEF TypeInv
  <2> DEFINE b == reader[d].readBuf
  <2> HIDE DEF b
  <2>2. Len(b) \in Nat /\ Len(b) > 0 /\ b \in Seq(Nat) /\ WordsOf(Size(b)) >= 5
    BY <2>1 DEF Unfinished, HeaderWords, b
  <2>3. b[1] \in Nat
    BY <2>2
  <2>4. Size(b) \in Nat
    BY <2>3, WordTypes DEF Size
  <2>5. WordsOf(Size(b)) \in Nat
    BY <2>4 DEF WordsOf
  <2> QED
    BY <2>2, <2>5 DEF b
<1> HIDE DEF whole
<1>4. Len(Longer(d)) = whole
  BY <1>1, <1>2, <1>3
<1> QED
  BY <1>1, <1>3, <1>4 DEF Message, HeaderWords

LEMMA ReadBodyTypes ==
  ASSUME TypeInv, NEW d \in Direction, ReadBody(d)
  PROVE  TypeInv'
<1> DEFINE rest == SubSeq(wire[d], Taken(d) + 1, Len(wire[d]))
<1>1. /\ reader[d].phase = "body" /\ wire[d] # <<>>
      /\ wire' = [wire EXCEPT ![d] = rest]
      /\ UNCHANGED <<plan, resuming>>
  BY ReadBodySplit
<1>2. rest \in Seq(Nat) /\ Len(rest) <= SocketWords
  <2>1. rest \in Seq(Nat) /\ Len(rest) = Len(wire[d]) - Taken(d) /\ Taken(d) \in 1 .. Len(wire[d])
    BY <1>1, ReadBodyTakes
  <2>2. Len(wire[d]) \in Nat /\ Len(wire[d]) <= SocketWords /\ SocketWords \in Nat
    BY PartAssumption DEF TypeInv
  <2> HIDE DEF rest
  <2> QED
    BY <2>1, <2>2
<1> HIDE DEF rest
<1>3. wire' \in [Direction -> Seq(Nat)] /\ \A x \in Direction : Len(wire'[x]) <= SocketWords
  BY <1>1, <1>2 DEF TypeInv
<1> DEFINE Phase == {"header", "body", "failed"}
<1>4. CASE Taken(d) = Missing(d)
  <2>1. OnMessage(d, Longer(d)) /\ reader' = [reader EXCEPT ![d] = AtHeader]
    BY <1>4, ReadBodySplit
  <2>2. Longer(d) \in Message
    BY <1>1, <1>4, CompleteIsMessage
  <2>3. received' \in [Direction -> Seq(Message)]
    <3>1. Append(received[d], Longer(d)) \in Seq(Message)
      BY <2>2, AppendProperties DEF TypeInv
    <3>2. received' = [received EXCEPT ![d] = Append(received[d], Longer(d))]
      BY <2>1 DEF OnMessage, Put
    <3> QED
      BY <3>1, <3>2 DEF TypeInv
  <2>4. /\ queued' \in [Direction -> Seq(Write)] /\ sent' \in [Direction -> Seq(Message)]
        /\ contended' \in [Direction -> BOOLEAN]
    <3>1. CASE AsyncWrite(Other(d), AnswerTo(Other(d), Longer(d)))
      <4>1. Other(d) \in Direction
        BY OtherSide
      <4>2. AnswerTo(Other(d), Longer(d)) \in Message
        BY <2>2, <4>1, AnswerToAnswers
      <4> QED
        BY <3>1, <4>1, <4>2, AsyncWriteTypes
    <3>2. CASE UNCHANGED <<queued, sent, contended>>
      BY <3>2 DEF TypeInv
    <3> QED
      BY <2>1, <3>1, <3>2 DEF OnMessage
  <2>5. AtHeader \in [phase : Phase, readBuf : Seq(Nat)] /\ AtHeader.phase # "body"
    BY EmptySeq DEF AtHeader
  <2>6. /\ reader' \in [Direction -> [phase : Phase, readBuf : Seq(Nat)]]
        /\ \A x \in Direction : reader'[x].phase = "body" => Unfinished(reader'[x].readBuf)
    BY <2>1, <2>5 DEF TypeInv
  <2> QED
    BY <1>1, <1>3, <2>3, <2>4, <2>6 DEF TypeInv
<1>5. CASE Taken(d) # Missing(d)
  <2> DEFINE next == [reader[d] EXCEPT !.readBuf = Longer(d)]
  <2>1. /\ reader' = [reader EXCEPT ![d] = next]
        /\ UNCHANGED <<queued, sent, received, contended>>
    BY <1>5, ReadBodySplit
  <2>2. /\ Longer(d) \in Seq(Nat) /\ Len(Longer(d)) = Len(reader[d].readBuf) + Taken(d)
        /\ Taken(d) \in 1 .. Len(wire[d]) /\ Taken(d) <= Missing(d) /\ Missing(d) \in Nat
        /\ Size(Longer(d)) = Size(reader[d].readBuf)
    BY <1>1, ReadBodyTakes
  <2>3. Unfinished(Longer(d))
    <3> DEFINE b == reader[d].readBuf
               whole == WordsOf(Size(b))
    <3>1. b \in Seq(Nat) /\ Unfinished(b) /\ Missing(d) = whole - Len(b) /\ Len(wire[d]) \in Nat
      BY <1>1 DEF TypeInv, Missing
    <3> HIDE DEF b
    <3>2. Len(b) \in Nat /\ Len(b) > 0 /\ whole >= HeaderWords
      BY <3>1 DEF Unfinished
    <3>3. whole \in Nat
      <4>1. b[1] \in Nat
        BY <3>1, <3>2
      <4>2. Size(b) \in Nat
        BY <4>1, WordTypes DEF Size
      <4> QED
        BY <4>2 DEF WordsOf
    <3>4. WordsOf(Size(Longer(d))) = whole
      BY <2>2 DEF b
    <3> HIDE DEF whole
    <3>5. Len(Longer(d)) = Len(b) + Taken(d)
      BY <2>2 DEF b
    <3>6. Taken(d) \in Nat /\ Taken(d) > 0 /\ Taken(d) < Missing(d)
      BY <1>5, <2>2, <3>1
    <3>7. Len(Longer(d)) > 0 /\ Len(Longer(d)) < whole
      BY <3>1, <3>2, <3>3, <3>5, <3>6
    <3> QED
      BY <3>2, <3>4, <3>7 DEF Unfinished
  <2>4. next \in [phase : Phase, readBuf : Seq(Nat)] /\ next.readBuf = Longer(d)
    BY <2>2 DEF TypeInv
  <2> HIDE DEF next
  <2>5. /\ reader' \in [Direction -> [phase : Phase, readBuf : Seq(Nat)]]
        /\ \A x \in Direction : reader'[x].phase = "body" => Unfinished(reader'[x].readBuf)
    BY <2>1, <2>3, <2>4 DEF TypeInv
  <2> QED
    BY <1>1, <1>3, <2>1, <2>5 DEF TypeInv
<1> QED
  BY <1>4, <1>5

LEMMA TypeInvStep ==
  ASSUME TypeInv, [Next]_vars
  PROVE  TypeInv'
<1>1. CASE UNCHANGED vars
  BY <1>1 DEF vars, TypeInv
<1>2. ASSUME NEW d \in Direction, Send(d) PROVE TypeInv'
  BY <1>2, SendTypes
<1>3. ASSUME NEW d \in Direction, WritePart(d) PROVE TypeInv'
  BY <1>3, WritePartTypes
<1>4. ASSUME NEW d \in Direction, WriteResumes(d) PROVE TypeInv'
  BY <1>4, WriteResumesTypes
<1>5. ASSUME NEW d \in Direction, ReadHeader(d) PROVE TypeInv'
  BY <1>5, ReadHeaderTypes
<1>6. ASSUME NEW d \in Direction, ReadBody(d) PROVE TypeInv'
  BY <1>6, ReadBodyTypes
<1> QED
  BY <1>1, <1>2, <1>3, <1>4, <1>5, <1>6 DEF Next, ReadStep

\* The state keeps its types, as detailed above.
THEOREM TypeInvariance == Spec => []TypeInv
<1>1. Init => TypeInv
  <2> SUFFICES ASSUME Init PROVE TypeInv
    OBVIOUS
  <2>1. plan \in [Direction -> Seq(Item)]
    BY PlanAssumption DEF Init
  <2>2. <<>> \in Seq(Write) /\ <<>> \in Seq(Nat) /\ <<>> \in Seq(Message) /\ Len(<<>>) = 0
    BY EmptySeq
  <2>3. 0 <= SocketWords
    BY PartAssumption
  <2>4. /\ AtHeader \in [phase : {"header", "body", "failed"}, readBuf : Seq(Nat)]
        /\ AtHeader.phase # "body"
    BY <2>2 DEF AtHeader
  <2> QED
    BY <2>1, <2>2, <2>3, <2>4 DEF Init, TypeInv
<1>2. TypeInv /\ [Next]_vars => TypeInv'
  BY TypeInvStep
<1> QED
  BY <1>1, <1>2, PTL DEF Spec

\* TypeOK: nothing on the socket is empty or more than it holds, every message
\* given to onMessage has a header, and the buffer of doReadBody is short of
\* the length it announces, whatever parts the writes were cut into.
THEOREM TypeCorrect == Spec => []TypeOK
<1>1. TypeInv => TypeOK
  <2> SUFFICES ASSUME TypeInv, NEW d \in Direction
               PROVE  /\ wire[d] \in Seq(Word) /\ Len(wire[d]) <= SocketWords
                      /\ \A i \in 1 .. Len(queued[d]) :
                           queued[d][i].words \in Seq(Word) \ {<<>>}
                      /\ \A i \in 1 .. Len(resuming[d]) :
                           resuming[d][i].words \in Seq(Word) \ {<<>>}
                      /\ \A i \in 1 .. Len(received[d]) : Len(received[d][i]) >= HeaderWords
                      /\ reader[d].phase \in {"header", "body", "failed"}
                      /\ reader[d].phase = "body" =>
                           Len(reader[d].readBuf) < WordsOf(Size(reader[d].readBuf))
    BY DEF TypeInv, TypeOK
  <2>1. \A i \in 1 .. Len(queued[d]) : queued[d][i] \in Write
    BY ElementOfSeq DEF TypeInv
  <2>2. \A i \in 1 .. Len(resuming[d]) : resuming[d][i] \in Write
    BY ElementOfSeq DEF TypeInv
  <2>3. \A i \in 1 .. Len(received[d]) : received[d][i] \in Message
    BY ElementOfSeq DEF TypeInv
  <2>4. \A i \in 1 .. Len(received[d]) : Len(received[d][i]) >= HeaderWords
    BY <2>3 DEF Message
  <2>5. reader[d].phase = "body" => Len(reader[d].readBuf) < WordsOf(Size(reader[d].readBuf))
    BY DEF TypeInv, Unfinished
  <2>6. /\ wire[d] \in Seq(Word) /\ Len(wire[d]) <= SocketWords
        /\ reader[d].phase \in {"header", "body", "failed"}
    BY DEF TypeInv, Word
  <2> QED
    BY <2>1, <2>2, <2>4, <2>5, <2>6 DEF Write, Word
<1> QED
  BY <1>1, TypeInvariance, PTL

(***************************************************************************)
(* The stream.  The messages that were given to asyncWrite are laid behind *)
(* each other on a tape, the k-th up to off[k].  What has been read, the   *)
(* buffer of doReadBody, what is on the socket and what waits to be        *)
(* written follow each other on it, unless one message was in parts beside *)
(* another.                                                                *)
(***************************************************************************)
Laid(ms, off, tape) ==
  /\ off \in [0 .. Len(ms) -> Nat] /\ tape \in Seq(Nat)
  /\ off[0] = 0 /\ off[Len(ms)] = Len(tape)
  /\ \A i, j \in 0 .. Len(ms) : i < j => off[i] < off[j]
  /\ \A i \in 1 .. Len(ms) :
       /\ off[i] = off[i - 1] + Len(ms[i])
       /\ \A j \in 1 .. Len(ms[i]) : tape[off[i - 1] + j] = ms[i][j]

\* The read loop r has given on the messages g, and reads the next.
Got(ms, r, g) ==
  /\ Len(g) <= Len(ms) /\ \A i \in 1 .. Len(g) : g[i] = ms[i]
  /\ \/ r.phase = "header" /\ r.readBuf = <<>>
     \/ /\ r.phase = "body" /\ Len(g) < Len(ms)
        /\ Len(r.readBuf) < Len(ms[Len(g) + 1])
        /\ \A j \in 1 .. Len(r.readBuf) : r.readBuf[j] = ms[Len(g) + 1][j]

\* How far it has read.
ReadTo(off, r, g) == off[Len(g)] + Len(r.readBuf)

\* What is queued (q) or to be queued again (s) is all that is behind the
\* place p: whole messages, or the rest of the last one.
Whole(ms, off, p, q, s) ==
  /\ s = <<>> /\ Len(q) <= Len(ms) /\ p = off[Len(ms) - Len(q)]
  /\ \A i \in 1 .. Len(q) :
       ~q[i].cut /\ q[i].words = ms[Len(ms) - Len(q) + i]

InParts(tape, p, q, s) ==
  \E w \in Write :
    /\ (q = <<w>> /\ s = <<>>) \/ (q = <<>> /\ s = <<w>>)
    /\ w.cut /\ Follows(tape, p, w.words) /\ p + Len(w.words) = Len(tape)

Stream(ms, q, s, w, r, g) ==
  \E off, tape :
    /\ Laid(ms, off, tape) /\ Got(ms, r, g)
    /\ Follows(tape, ReadTo(off, r, g), w)
    /\ \/ Whole(ms, off, ReadTo(off, r, g) + Len(w), q, s)
       \/ InParts(tape, ReadTo(off, r, g) + Len(w), q, s)

Reader == [phase : {"header", "body", "failed"}, readBuf : Seq(Nat)]

Typed(ms, q, s, w, r, g) ==
  /\ ms \in Seq(Message) /\ q \in Seq(Write) /\ s \in Seq(Write)
  /\ w \in Seq(Nat) /\ r \in Reader /\ g \in Seq(Message)

\* Numbers that the lemmas below keep needing.
LEMMA StreamNumbers ==
  ASSUME NEW ms, NEW q, NEW s, NEW w, NEW r, NEW g, Typed(ms, q, s, w, r, g),
         NEW off, NEW tape, Laid(ms, off, tape), Got(ms, r, g)
  PROVE  /\ Len(ms) \in Nat /\ Len(q) \in Nat /\ Len(s) \in Nat /\ Len(w) \in Nat
         /\ Len(g) \in Nat /\ Len(r.readBuf) \in Nat /\ Len(tape) \in Nat
         /\ \A i \in 0 .. Len(ms) : off[i] \in Nat
         /\ \A i \in 1 .. Len(ms) : ms[i] \in Seq(Nat) /\ Len(ms[i]) \in Nat /\ Len(ms[i]) >= 5
         /\ ReadTo(off, r, g) \in Nat
<1>1. /\ Len(ms) \in Nat /\ Len(q) \in Nat /\ Len(s) \in Nat /\ Len(w) \in Nat
      /\ Len(g) \in Nat
  BY DEF Typed
<1>2. Len(r.readBuf) \in Nat
  BY DEF Typed, Reader
<1>3. Len(tape) \in Nat /\ \A i \in 0 .. Len(ms) : off[i] \in Nat
  BY DEF Laid
<1>4. ASSUME NEW i \in 1 .. Len(ms)
      PROVE  ms[i] \in Seq(Nat) /\ Len(ms[i]) \in Nat /\ Len(ms[i]) >= 5
  <2>1. ms[i] \in Message
    BY ElementOfSeq DEF Typed
  <2> QED
    BY <2>1, HeaderTypes
<1>5. ReadTo(off, r, g) \in Nat
  <2>1. Len(g) \in 0 .. Len(ms)
    BY <1>1 DEF Got
  <2>2. off[Len(g)] \in Nat
    BY <1>3, <2>1
  <2> QED
    BY <1>2, <2>2 DEF ReadTo
<1> QED
  BY <1>1, <1>2, <1>3, <1>4, <1>5

LEMMA StreamBegins == Stream(<<>>, <<>>, <<>>, <<>>, AtHeader, <<>>)
<1> DEFINE off == [i \in 0 .. 0 |-> 0]
           tape == <<>>
<1>1. Laid(<<>>, off, tape)
  BY EmptySeq DEF Laid
<1>2. Got(<<>>, AtHeader, <<>>)
  BY DEF Got, AtHeader
<1>3. ReadTo(off, AtHeader, <<>>) = 0
  BY DEF ReadTo, AtHeader
<1>4. Follows(tape, 0, <<>>)
  BY DEF Follows
<1>5. Whole(<<>>, off, 0 + Len(<<>>), <<>>, <<>>)
  BY DEF Whole
<1> HIDE DEF off, tape
<1> QED
  BY <1>1, <1>2, <1>3, <1>4, <1>5 DEF Stream

\* What is read are messages that were written, in order and whole.
LEMMA StreamReads ==
  ASSUME NEW ms, NEW q, NEW s, NEW w, NEW r, NEW g, Typed(ms, q, s, w, r, g),
         Stream(ms, q, s, w, r, g)
  PROVE  IsPrefix(g, ms) /\ r.phase # "failed"
<1>1. ms \in Seq(Message) /\ g \in Seq(Message) /\ Got(ms, r, g)
  BY DEF Stream, Typed
<1>2. Len(g) \in Nat /\ Len(ms) \in Nat /\ Len(g) <= Len(ms) /\ \A i \in 1 .. Len(g) : g[i] = ms[i]
  BY <1>1 DEF Got
<1>3. \A i \in 1 .. Len(g) : g[i] \in Message /\ ms[i] \in Message
  BY <1>1, <1>2, ElementOfSeq
<1> DEFINE a == SubSeq(g, 1, Len(g))
           b == SubSeq(ms, 1, Len(g))
           n == Len(g)
<1>4. n \in Nat /\ 1 \in Int /\ n \in Int
  BY <1>2
<1> HIDE DEF n
<1>5. /\ SubSeq(g, 1, n) \in Seq(Message) /\ Len(SubSeq(g, 1, n)) = (IF 1 <= n THEN n - 1 + 1 ELSE 0)
      /\ \A i \in 1 .. (n - 1 + 1) : SubSeq(g, 1, n)[i] = g[1 + i - 1]
  BY <1>3, <1>4, SubSeqProperties DEF n
<1>6. /\ SubSeq(ms, 1, n) \in Seq(Message) /\ Len(SubSeq(ms, 1, n)) = (IF 1 <= n THEN n - 1 + 1 ELSE 0)
      /\ \A i \in 1 .. (n - 1 + 1) : SubSeq(ms, 1, n)[i] = ms[1 + i - 1]
  BY <1>3, <1>4, SubSeqProperties DEF n
<1>7. a \in Seq(Message) /\ Len(a) = n /\ \A i \in 1 .. n : a[i] = g[i]
  BY <1>4, <1>5 DEF n
<1>8. b \in Seq(Message) /\ Len(b) = n /\ \A i \in 1 .. n : b[i] = ms[i]
  BY <1>4, <1>6 DEF n
<1> HIDE DEF a, b
<1>9. a = b
  <2>1. \A i \in 1 .. n : a[i] = b[i]
    BY <1>2, <1>7, <1>8 DEF n
  <2> QED
    BY <1>7, <1>8, <2>1, SeqEqual
<1>10. r.phase # "failed"
  BY <1>1 DEF Got
<1> QED
  BY <1>2, <1>9, <1>10 DEF IsPrefix, a, b

\* The place p is where the words w end that follow behind c.
Behind(p, c, w) == p = c + Len(w)

\* Sequences that follow each other on the tape, and parts of one that does.
LEMMA FollowsConcat ==
  ASSUME NEW tape \in Seq(Nat), NEW c \in Nat, NEW w \in Seq(Nat), NEW v \in Seq(Nat),
         NEW p \in Nat, Behind(p, c, w), Follows(tape, c, w), Follows(tape, p, v)
  PROVE  Follows(tape, c, w \o v) /\ Len(w \o v) = Len(w) + Len(v)
<1>1. Len(w) \in Nat /\ Len(v) \in Nat /\ Len(tape) \in Nat
  OBVIOUS
<1>2. /\ Len(w \o v) = Len(w) + Len(v)
      /\ \A i \in 1 .. Len(w) + Len(v) : (w \o v)[i] = IF i <= Len(w) THEN w[i] ELSE v[i - Len(w)]
  BY ConcatProperties
<1>3. /\ c + Len(w) <= Len(tape) /\ \A j \in 1 .. Len(w) : w[j] = tape[c + j]
      /\ c + Len(w) + Len(v) <= Len(tape) /\ \A j \in 1 .. Len(v) : v[j] = tape[c + Len(w) + j]
  <2>1. p = c + Len(w)
    BY DEF Behind
  <2> QED
    BY <2>1 DEF Follows
<1>4. ASSUME NEW i \in 1 .. Len(w) + Len(v) PROVE (w \o v)[i] = tape[c + i]
  <2>1. CASE i <= Len(w)
    BY <1>1, <1>2, <1>3, <2>1
  <2>2. CASE ~ (i <= Len(w))
    <3>1. i - Len(w) \in 1 .. Len(v) /\ c + Len(w) + (i - Len(w)) = c + i
      BY <1>1, <2>2
    <3> QED
      BY <1>2, <1>3, <2>2, <3>1
  <2> QED
    BY <2>1, <2>2
<1>5. c + Len(w \o v) <= Len(tape)
  BY <1>1, <1>2, <1>3
<1> QED
  BY <1>2, <1>4, <1>5 DEF Follows

LEMMA FollowsMessage ==
  ASSUME NEW ms \in Seq(Message), NEW off, NEW tape, Laid(ms, off, tape), NEW k \in Nat,
         k < Len(ms)
  PROVE  Follows(tape, off[k], ms[k + 1]) /\ off[k + 1] = off[k] + Len(ms[k + 1])
<1>1. Len(ms) \in Nat /\ k + 1 \in 1 .. Len(ms) /\ k \in 0 .. Len(ms) /\ k + 1 \in 0 .. Len(ms)
      /\ Len(ms) \in 0 .. Len(ms)
  OBVIOUS
<1>2. /\ off[k] \in Nat /\ off[k + 1] \in Nat /\ off[Len(ms)] = Len(tape) /\ Len(tape) \in Nat
      /\ off[k + 1] = off[(k + 1) - 1] + Len(ms[k + 1])
      /\ \A j \in 1 .. Len(ms[k + 1]) : tape[off[(k + 1) - 1] + j] = ms[k + 1][j]
  BY <1>1 DEF Laid
<1>3. (k + 1) - 1 = k
  OBVIOUS
<1>4. off[k + 1] <= off[Len(ms)]
  <2>1. CASE k + 1 = Len(ms)
    BY <1>2, <2>1
  <2>2. CASE k + 1 # Len(ms)
    <3>1. k + 1 < Len(ms)
      BY <1>1, <2>2
    <3>2. off[k + 1] < off[Len(ms)]
      BY <1>1, <3>1 DEF Laid
    <3> QED
      BY <1>2, <3>2
  <2> QED
    BY <2>1, <2>2
<1> QED
  BY <1>2, <1>3, <1>4 DEF Follows

\* The write whose turn it is follows on the tape, and if no other waits it is
\* the last.
LEMMA NextWrite ==
  ASSUME NEW ms, NEW q, NEW s, NEW w, NEW r, NEW g, Typed(ms, q, s, w, r, g),
         NEW off, NEW tape, Laid(ms, off, tape), NEW p \in Nat, q # <<>>,
         Whole(ms, off, p, q, s) \/ InParts(tape, p, q, s)
  PROVE  /\ Head(q).words \in Seq(Nat)
         /\ Follows(tape, p, Head(q).words)
         /\ Whole(ms, off, p + Len(Head(q).words), Tail(q), s)
         /\ Len(q) = 1 => p + Len(Head(q).words) = Len(tape) /\ Tail(q) = <<>>
<1>1. q \in Seq(Write) /\ s \in Seq(Write) /\ ms \in Seq(Message)
  BY DEF Typed
<1>2. /\ Len(q) \in Nat /\ Len(q) > 0 /\ Len(ms) \in Nat /\ Len(s) \in Nat
      /\ Head(q) = q[1] /\ q[1] \in Write
      /\ Tail(q) \in Seq(Write) /\ Len(Tail(q)) = Len(q) - 1
      /\ \A i \in 1 .. Len(q) - 1 : Tail(q)[i] = q[i + 1]
  BY <1>1, EmptySeq, HeadTailProperties
<1>3. Head(q).words \in Seq(Nat)
  BY <1>2 DEF Write
<1>4. off[Len(ms)] = Len(tape) /\ Len(tape) \in Nat
  BY DEF Laid
<1>5. CASE Whole(ms, off, p, q, s)
  <2> DEFINE k == Len(ms) - Len(q)
  <2>1. k \in Nat /\ k < Len(ms) /\ p = off[k] /\ s = <<>>
    BY <1>2, <1>5 DEF Whole
  <2>2. \A i \in 1 .. Len(q) : ~q[i].cut /\ q[i].words = ms[k + i]
    BY <1>5 DEF Whole
  <2> HIDE DEF k
  <2>3. q[1].words = ms[k + 1]
    BY <1>2, <2>2
  <2>4. Follows(tape, off[k], ms[k + 1]) /\ off[k + 1] = off[k] + Len(ms[k + 1])
    BY <1>1, <2>1, FollowsMessage
  <2>5. Len(ms) - Len(Tail(q)) = k + 1 /\ Len(Tail(q)) <= Len(ms)
    BY <1>2, <2>1 DEF k
  <2>6. ASSUME NEW i \in 1 .. Len(Tail(q))
        PROVE  ~Tail(q)[i].cut /\ Tail(q)[i].words = ms[(k + 1) + i]
    <3>1. Tail(q)[i] = q[i + 1] /\ i + 1 \in 1 .. Len(q) /\ k + (i + 1) = (k + 1) + i
      BY <1>2, <2>1
    <3> QED
      BY <2>2, <3>1
  <2>7. Whole(ms, off, p + Len(Head(q).words), Tail(q), s)
    BY <1>2, <2>1, <2>3, <2>4, <2>5, <2>6 DEF Whole
  <2>8. ASSUME Len(q) = 1
        PROVE  p + Len(Head(q).words) = Len(tape) /\ Tail(q) = <<>>
    <3>1. Len(q) = 1 /\ Len(Tail(q)) = 0
      BY <1>2, <2>8
    <3>2. k + 1 = Len(ms)
      BY <1>2, <3>1 DEF k
    <3> QED
      BY <1>2, <1>4, <2>1, <2>3, <2>4, <3>1, <3>2, EmptySeq
  <2> QED
    BY <1>2, <1>3, <2>1, <2>3, <2>4, <2>7, <2>8
<1>6. CASE InParts(tape, p, q, s)
  <2>1. PICK v \in Write : /\ q = <<v>> /\ s = <<>>
                           /\ Follows(tape, p, v.words) /\ p + Len(v.words) = Len(tape)
    BY <1>6 DEF InParts
  <2>2. Head(q) = v /\ Len(Tail(q)) = 0 /\ Tail(q) = <<>>
    BY <1>2, <2>1, EmptySeq
  <2>3. Len(ms) - 0 = Len(ms)
    BY <1>2
  <2>4. Whole(ms, off, Len(tape), Tail(q), s)
    BY <1>2, <1>4, <2>1, <2>2, <2>3 DEF Whole
  <2> QED
    BY <1>3, <2>1, <2>2, <2>4
<1> QED
  BY <1>5, <1>6

\* A part that is all there is left of a message.
LEMMA StreamPartWhole ==
  ASSUME NEW ms, NEW q, NEW s, NEW w, NEW r, NEW g, Typed(ms, q, s, w, r, g),
         Stream(ms, q, s, w, r, g), q # <<>>
  PROVE  Stream(ms, Tail(q), s, w \o Head(q).words, r, g)
<1>1. PICK off, tape :
        /\ Laid(ms, off, tape) /\ Got(ms, r, g)
        /\ Follows(tape, ReadTo(off, r, g), w)
        /\ \/ Whole(ms, off, ReadTo(off, r, g) + Len(w), q, s)
           \/ InParts(tape, ReadTo(off, r, g) + Len(w), q, s)
  BY DEF Stream
<1> DEFINE c == ReadTo(off, r, g)
           p == c + Len(w)
           v == Head(q).words
<1>2. c \in Nat /\ Len(w) \in Nat /\ p \in Nat
  BY <1>1, StreamNumbers
<1>3. tape \in Seq(Nat) /\ w \in Seq(Nat)
  BY <1>1 DEF Laid, Typed
<1> HIDE DEF c
<1>4. Follows(tape, c, w) /\ (Whole(ms, off, p, q, s) \/ InParts(tape, p, q, s)) /\ Behind(p, c, w)
  BY <1>1 DEF c, Behind
<1> HIDE DEF p
<1>5. v \in Seq(Nat) /\ Follows(tape, p, v) /\ Whole(ms, off, p + Len(v), Tail(q), s)
  BY <1>1, <1>2, <1>4, NextWrite
<1> HIDE DEF v
<1>6. Follows(tape, c, w \o v) /\ Len(w \o v) = Len(w) + Len(v)
  BY <1>2, <1>3, <1>4, <1>5, FollowsConcat
<1>7. Len(v) \in Nat
  BY <1>5
<1>8. c + Len(w \o v) = p + Len(v)
  BY <1>2, <1>4, <1>6, <1>7 DEF Behind
<1>9. Whole(ms, off, c + Len(w \o v), Tail(q), s)
  BY <1>5, <1>8
<1>10. Stream(ms, Tail(q), s, w \o v, r, g)
  BY <1>1, <1>6, <1>9 DEF Stream, c
<1> QED
  BY <1>10 DEF v

\* The words v are cut after the n-th.
Parted(v, n, a, b) ==
  /\ 0 < n /\ n < Len(v) /\ Len(a) = n /\ Len(b) = Len(v) - n
  /\ \A i \in 1 .. n : a[i] = v[i]
  /\ \A i \in 1 .. (Len(v) - n) : b[i] = v[n + i]

LEMMA PartsOf ==
  ASSUME NEW v \in Seq(Nat), NEW n \in Nat, 0 < n, n < Len(v)
  PROVE  /\ SubSeq(v, 1, n) \in Seq(Nat) /\ SubSeq(v, n + 1, Len(v)) \in Seq(Nat)
         /\ Parted(v, n, SubSeq(v, 1, n), SubSeq(v, n + 1, Len(v)))
<1>1. Len(v) \in Nat /\ 1 <= n /\ n <= Len(v)
  OBVIOUS
<1> DEFINE a == SubSeq(v, 1, n)
           b == SubSeq(v, n + 1, Len(v))
<1>3. a \in Seq(Nat) /\ Len(a) = n /\ \A i \in 1 .. n : a[i] = v[i]
  <2>1. 1 \in Int /\ n \in Int /\ \A i \in 1 .. n : v[i] \in Nat
    BY <1>1
  <2>2. /\ a \in Seq(Nat) /\ Len(a) = IF 1 <= n THEN n - 1 + 1 ELSE 0
        /\ \A i \in 1 .. (n - 1 + 1) : a[i] = v[1 + i - 1]
    BY <2>1, SubSeqProperties
  <2> HIDE DEF a
  <2> QED
    BY <1>1, <2>2
<1>4. b \in Seq(Nat) /\ Len(b) = Len(v) - n /\ \A i \in 1 .. (Len(v) - n) : b[i] = v[n + i]
  <2>1. n + 1 \in Int /\ Len(v) \in Int /\ \A i \in (n + 1) .. Len(v) : v[i] \in Nat
    BY <1>1
  <2>2. /\ b \in Seq(Nat)
        /\ Len(b) = IF n + 1 <= Len(v) THEN Len(v) - (n + 1) + 1 ELSE 0
        /\ \A i \in 1 .. (Len(v) - (n + 1) + 1) : b[i] = v[(n + 1) + i - 1]
    BY <2>1, SubSeqProperties
  <2> HIDE DEF b
  <2>3. Len(b) = Len(v) - n
    BY <1>1, <2>2
  <2>4. ASSUME NEW i \in 1 .. (Len(v) - n) PROVE b[i] = v[n + i]
    <3>1. i \in 1 .. (Len(v) - (n + 1) + 1) /\ (n + 1) + i - 1 = n + i
      BY <1>1
    <3> QED
      BY <2>2, <3>1
  <2> QED
    BY <2>2, <2>3, <2>4
<1> HIDE DEF a, b
<1>5. Parted(v, n, a, b)
  BY <1>3, <1>4 DEF Parted
<1> QED
  BY <1>3, <1>4, <1>5 DEF a, b

\* The words v end the tape.
Ends(tape, p, v) == Follows(tape, p, v) /\ p + Len(v) = Len(tape)

\* Of words at the end of the tape a part is written.
LEMMA FollowsCut ==
  ASSUME NEW tape \in Seq(Nat), NEW c \in Nat, NEW w \in Seq(Nat), NEW v \in Seq(Nat),
         NEW p \in Nat, Behind(p, c, w), Follows(tape, c, w), Ends(tape, p, v),
         NEW n \in Nat, NEW a \in Seq(Nat), NEW b \in Seq(Nat), Parted(v, n, a, b),
         NEW x \in Nat, Behind(x, c, w \o a)
  PROVE  b # <<>> /\ Follows(tape, c, w \o a) /\ Ends(tape, x, b)
<1>1. /\ Len(v) \in Nat /\ Len(w) \in Nat /\ Len(tape) \in Nat
      /\ 0 < n /\ n < Len(v) /\ Len(a) = n /\ Len(b) = Len(v) - n
  BY DEF Parted
<1>2. /\ \A i \in 1 .. n : a[i] = v[i]
      /\ \A i \in 1 .. (Len(v) - n) : b[i] = v[n + i]
  BY DEF Parted
<1>3. p + Len(v) = Len(tape)
  BY DEF Ends
<1>4. \A j \in 1 .. Len(v) : v[j] = tape[p + j]
  BY DEF Ends, Follows
<1>5. Follows(tape, p, a)
  <2>1. p + Len(a) <= Len(tape)
    BY <1>1, <1>3
  <2>2. ASSUME NEW j \in 1 .. Len(a) PROVE a[j] = tape[p + j]
    <3>1. j \in 1 .. n /\ j \in 1 .. Len(v)
      BY <1>1
    <3> QED
      BY <1>2, <1>4, <3>1
  <2> QED
    BY <2>1, <2>2 DEF Follows
<1>6. Follows(tape, c, w \o a) /\ Len(w \o a) = Len(w) + Len(a)
  BY <1>5, FollowsConcat
<1>7. x = p + n
  <2>1. x = c + Len(w \o a) /\ p = c + Len(w)
    BY DEF Behind
  <2> QED
    BY <1>1, <1>6, <2>1
<1>8. x + Len(b) = Len(tape) /\ Len(b) > 0
  <2>1. Len(b) \in Nat
    OBVIOUS
  <2>2. Len(b) > 0
    BY <1>1
  <2>3. x + Len(b) = p + Len(v)
    BY <1>1, <1>7, <2>1
  <2> QED
    BY <1>3, <2>2, <2>3
<1>9. Follows(tape, x, b)
  <2>1. ASSUME NEW j \in 1 .. Len(b) PROVE b[j] = tape[x + j]
    <3>1. n + j \in 1 .. Len(v) /\ j \in 1 .. (Len(v) - n) /\ p + (n + j) = x + j
      BY <1>1, <1>7
    <3> QED
      BY <1>2, <1>4, <3>1
  <2>2. x + Len(b) <= Len(tape)
    BY <1>1, <1>8
  <2> QED
    BY <2>1, <2>2 DEF Follows
<1>10. b # <<>>
  BY <1>8
<1> QED
  BY <1>6, <1>8, <1>9, <1>10 DEF Ends

\* A part that is not, of a message that no other waits beside.
Cut(q, s, n) ==
  /\ Len(q) = 1 /\ s = <<>>
  /\ n \in Nat /\ 0 < n /\ n < Len(Head(q).words)

LEMMA StreamPartCut ==
  ASSUME NEW ms, NEW q, NEW s, NEW w, NEW r, NEW g, Typed(ms, q, s, w, r, g),
         Stream(ms, q, s, w, r, g), NEW n, Cut(q, s, n)
  PROVE  Stream(ms, Tail(q), Append(s, Rest(Head(q), n)),
                w \o SubSeq(Head(q).words, 1, n), r, g)
<1>1. PICK off, tape :
        /\ Laid(ms, off, tape) /\ Got(ms, r, g)
        /\ Follows(tape, ReadTo(off, r, g), w)
        /\ \/ Whole(ms, off, ReadTo(off, r, g) + Len(w), q, s)
           \/ InParts(tape, ReadTo(off, r, g) + Len(w), q, s)
  BY DEF Stream
<1> DEFINE c == ReadTo(off, r, g)
           p == c + Len(w)
           v == Head(q).words
           a == SubSeq(v, 1, n)
           b == SubSeq(v, n + 1, Len(v))
           x == c + Len(w \o a)
           rest == Rest(Head(q), n)
<1>2. c \in Nat /\ Len(w) \in Nat /\ p \in Nat
  BY <1>1, StreamNumbers
<1>3. tape \in Seq(Nat) /\ w \in Seq(Nat)
  BY <1>1 DEF Laid, Typed
<1> HIDE DEF c
<1>4. Follows(tape, c, w) /\ (Whole(ms, off, p, q, s) \/ InParts(tape, p, q, s)) /\ Behind(p, c, w)
  BY <1>1 DEF c, Behind
<1> HIDE DEF p
<1>5. v \in Seq(Nat) /\ Ends(tape, p, v) /\ Tail(q) = <<>>
  <2>1. q # <<>> /\ Len(q) = 1
    BY DEF Cut
  <2> QED
    BY <1>1, <1>2, <1>4, <2>1, NextWrite DEF Ends
<1>6. /\ rest = [words |-> b, cut |-> TRUE] /\ s = <<>>
      /\ n \in Nat /\ 0 < n /\ n < Len(v)
  BY DEF Rest, Cut
<1> HIDE DEF rest, v
<1>7. a \in Seq(Nat) /\ b \in Seq(Nat) /\ Parted(v, n, a, b)
  BY <1>5, <1>6, PartsOf
<1> HIDE DEF a, b
<1>8. x \in Nat /\ Behind(x, c, w \o a)
  <2>1. Len(w \o a) \in Nat
    BY <1>3, <1>7, ConcatProperties
  <2> QED
    BY <1>2, <2>1 DEF Behind
<1> HIDE DEF x
<1>9. b # <<>> /\ Follows(tape, c, w \o a) /\ Ends(tape, x, b)
  BY <1>2, <1>3, <1>4, <1>5, <1>6, <1>7, <1>8, FollowsCut
<1>10. Append(s, rest) = <<rest>>
  BY <1>6
<1>11. rest \in Write /\ rest.cut /\ rest.words = b
  BY <1>6, <1>7, <1>9 DEF Write
<1>12. InParts(tape, x, Tail(q), <<rest>>)
  BY <1>5, <1>9, <1>11 DEF InParts, Ends
<1>13. Stream(ms, Tail(q), <<rest>>, w \o a, r, g)
  BY <1>1, <1>9, <1>12 DEF Stream, c, x
<1> QED
  BY <1>10, <1>13 DEF a, v, rest

\* The handler of a part.
LEMMA StreamResumes ==
  ASSUME NEW ms, NEW q, NEW s, NEW w, NEW r, NEW g, Typed(ms, q, s, w, r, g),
         Stream(ms, q, s, w, r, g), s # <<>>
  PROVE  Stream(ms, Append(q, Head(s)), Tail(s), w, r, g)
<1>1. PICK off, tape :
        /\ Laid(ms, off, tape) /\ Got(ms, r, g)
        /\ Follows(tape, ReadTo(off, r, g), w)
        /\ \/ Whole(ms, off, ReadTo(off, r, g) + Len(w), q, s)
           \/ InParts(tape, ReadTo(off, r, g) + Len(w), q, s)
  BY DEF Stream
<1>2. InParts(tape, ReadTo(off, r, g) + Len(w), q, s)
  BY <1>1 DEF Whole
<1> DEFINE p == ReadTo(off, r, g) + Len(w)
<1> HIDE DEF p
<1>3. PICK v \in Write : /\ q = <<>> /\ s = <<v>> /\ v.cut
                         /\ Follows(tape, p, v.words) /\ p + Len(v.words) = Len(tape)
  <2>1. InParts(tape, p, q, s)
    BY <1>2 DEF p
  <2> QED
    BY <2>1 DEF InParts
<1>4. Append(q, Head(s)) = <<v>> /\ Tail(s) = <<>>
  <2>1. Len(s) = 1 /\ s[1] = v /\ Head(s) = v
    BY <1>3
  <2>2. Tail(s) \in Seq(Write) /\ Len(Tail(s)) = 0
    BY <1>3, <2>1, HeadTailProperties DEF Typed
  <2> QED
    BY <1>3, <2>1, <2>2, EmptySeq
<1>5. InParts(tape, p, <<v>>, <<>>)
  BY <1>3 DEF InParts
<1>6. Stream(ms, <<v>>, <<>>, w, r, g)
  BY <1>1, <1>5 DEF Stream, p
<1> QED
  BY <1>4, <1>6

\* One message more is laid behind the others, which stay where they are.
LEMMA LaidExtends ==
  ASSUME NEW ms \in Seq(Message), NEW m \in Message, NEW off, NEW tape, Laid(ms, off, tape)
  PROVE  \E off2, tape2 :
           /\ Laid(Append(ms, m), off2, tape2)
           /\ \A i \in 0 .. Len(ms) : off2[i] = off[i]
           /\ Len(tape2) >= Len(tape) /\ \A j \in 1 .. Len(tape) : tape2[j] = tape[j]
<1> DEFINE n == Len(ms)
           off2 == [i \in 0 .. (n + 1) |-> IF i <= n THEN off[i] ELSE off[n] + Len(m)]
           tape2 == tape \o m
           ms2 == Append(ms, m)
<1>1. n \in Nat /\ m \in Seq(Nat) /\ Len(m) \in Nat /\ Len(m) >= 5
  BY HeaderTypes
<1>2. /\ tape \in Seq(Nat) /\ Len(tape) \in Nat /\ off[n] = Len(tape) /\ off[0] = 0
      /\ \A i \in 0 .. n : off[i] \in Nat
  BY DEF Laid
<1>3. \A i, j \in 0 .. n : i < j => off[i] < off[j]
  BY DEF Laid
<1>4. \A i \in 1 .. n : off[i] = off[i - 1] + Len(ms[i])
  BY DEF Laid
<1>5. \A i \in 1 .. n : \A j \in 1 .. Len(ms[i]) : tape[off[i - 1] + j] = ms[i][j]
  BY DEF Laid
<1>6. /\ Len(ms2) = n + 1 /\ ms2[n + 1] = m /\ \A i \in 1 .. n : ms2[i] = ms[i]
  BY <1>1
<1>7. /\ tape2 \in Seq(Nat) /\ Len(tape2) = Len(tape) + Len(m)
      /\ \A i \in 1 .. Len(tape) + Len(m) :
           tape2[i] = IF i <= Len(tape) THEN tape[i] ELSE m[i - Len(tape)]
  BY <1>1, <1>2, ConcatProperties
<1>8. /\ off2 \in [0 .. (n + 1) -> Nat] /\ off2[n + 1] = Len(tape) + Len(m)
      /\ \A i \in 0 .. n : off2[i] = off[i]
  BY <1>1, <1>2
<1> HIDE DEF n, off2, tape2, ms2
<1>9. ASSUME NEW i \in 0 .. n PROVE off[i] <= Len(tape)
  <2>1. CASE i = n
    BY <1>2, <2>1
  <2>2. CASE i # n
    <3>1. i < n /\ n \in 0 .. n
      BY <1>1, <2>2
    <3> QED
      BY <1>2, <1>3, <3>1
  <2> QED
    BY <2>1, <2>2
<1>10. ASSUME NEW i \in 0 .. (n + 1), NEW j \in 0 .. (n + 1), i < j PROVE off2[i] < off2[j]
  <2>1. CASE j = n + 1
    <3>1. i \in 0 .. n
      BY <1>1, <1>10, <2>1
    <3>2. off2[i] = off[i] /\ off[i] <= Len(tape) /\ off[i] \in Nat
      BY <1>2, <1>8, <1>9, <3>1
    <3> QED
      BY <1>1, <1>2, <1>8, <2>1, <3>2
  <2>2. CASE j # n + 1
    <3>1. i \in 0 .. n /\ j \in 0 .. n
      BY <1>1, <1>10, <2>2
    <3> QED
      BY <1>3, <1>8, <1>10, <3>1
  <2> QED
    BY <2>1, <2>2
<1>11. ASSUME NEW i \in 1 .. (n + 1)
       PROVE  /\ off2[i] = off2[i - 1] + Len(ms2[i])
              /\ \A j \in 1 .. Len(ms2[i]) : tape2[off2[i - 1] + j] = ms2[i][j]
  <2>1. CASE i = n + 1
    <3>1. i - 1 = n /\ n \in 0 .. n
      BY <1>1, <2>1
    <3>2. off2[i - 1] = Len(tape) /\ ms2[i] = m
      BY <1>2, <1>6, <1>8, <2>1, <3>1
    <3>3. ASSUME NEW j \in 1 .. Len(m) PROVE tape2[Len(tape) + j] = m[j]
      <4>1. Len(tape) + j \in 1 .. Len(tape) + Len(m) /\ ~ (Len(tape) + j <= Len(tape))
            /\ (Len(tape) + j) - Len(tape) = j
        BY <1>1, <1>2
      <4> QED
        BY <1>7, <4>1
    <3> QED
      BY <1>8, <2>1, <3>2, <3>3
  <2>2. CASE i # n + 1
    <3>1. i \in 1 .. n /\ i \in 0 .. n /\ i - 1 \in 0 .. n
      BY <1>1, <2>2
    <3>2. off2[i - 1] = off[i - 1] /\ off2[i] = off[i] /\ ms2[i] = ms[i]
          /\ off[i] = off[i - 1] + Len(ms[i])
      BY <1>4, <1>6, <1>8, <3>1
    <3>3. ms[i] \in Seq(Nat) /\ Len(ms[i]) \in Nat
      <4>1. ms[i] \in Message
        BY <3>1, ElementOfSeq DEF n
      <4> QED
        BY <4>1, HeaderTypes
    <3>4. ASSUME NEW j \in 1 .. Len(ms[i]) PROVE tape2[off[i - 1] + j] = ms[i][j]
      <4>1. off[i] <= Len(tape) /\ off[i - 1] \in Nat
        BY <1>2, <1>9, <3>1
      <4>2. off[i - 1] + j \in 1 .. Len(tape) + Len(m) /\ off[i - 1] + j <= Len(tape)
        <5> DEFINE y == off[i - 1]
                   z == Len(ms[i])
                   t == Len(tape)
                   l == Len(m)
        <5>1. off[i] = y + z /\ off[i] <= t
          BY <3>2, <4>1
        <5>2. y \in Nat /\ z \in Nat /\ t \in Nat /\ l \in Nat /\ j \in 1 .. z
          BY <1>1, <1>2, <3>3, <4>1
        <5>3. y + z <= t
          BY <5>1
        <5> HIDE DEF y, z, t, l
        <5>4. y + j \in 1 .. t + l
          BY <5>2, <5>3
        <5>5. y + j <= t
          BY <5>2, <5>3
        <5> QED
          BY <5>4, <5>5 DEF y, t, l
      <4>3. tape2[off[i - 1] + j] = tape[off[i - 1] + j]
        BY <1>7, <4>2
      <4> QED
        BY <1>5, <3>1, <4>3
    <3> QED
      BY <3>2, <3>4
  <2> QED
    BY <2>1, <2>2
<1>12. off2[0] = 0
  BY <1>1, <1>2, <1>8
<1>13. Laid(ms2, off2, tape2)
  BY <1>6, <1>7, <1>8, <1>10, <1>11, <1>12 DEF Laid
<1>14. Len(tape2) >= Len(tape) /\ \A j \in 1 .. Len(tape) : tape2[j] = tape[j]
  <2>1. ASSUME NEW j \in 1 .. Len(tape) PROVE tape2[j] = tape[j]
    <3>1. j \in 1 .. Len(tape) + Len(m) /\ j <= Len(tape)
      BY <1>1, <1>2
    <3> QED
      BY <1>7, <3>1
  <2>2. Len(tape2) >= Len(tape)
    BY <1>1, <1>2, <1>7
  <2> QED
    BY <2>1, <2>2
<1> QED
  BY <1>8, <1>13, <1>14 DEF n, ms2

\* asyncWrite while no message is in parts.
NoneCut(q, s) == \A i \in 1 .. Len(q \o s) : ~(q \o s)[i].cut

LEMMA StreamWrites ==
  ASSUME NEW ms, NEW q, NEW s, NEW w, NEW r, NEW g, Typed(ms, q, s, w, r, g),
         Stream(ms, q, s, w, r, g), NoneCut(q, s), NEW m \in Message
  PROVE  Stream(Append(ms, m), Append(q, [words |-> m, cut |-> FALSE]), s, w, r, g)
<1>1. PICK off, tape :
        /\ Laid(ms, off, tape) /\ Got(ms, r, g)
        /\ Follows(tape, ReadTo(off, r, g), w)
        /\ \/ Whole(ms, off, ReadTo(off, r, g) + Len(w), q, s)
           \/ InParts(tape, ReadTo(off, r, g) + Len(w), q, s)
  BY DEF Stream
<1> DEFINE c == ReadTo(off, r, g)
           p == c + Len(w)
           new == [words |-> m, cut |-> FALSE]
           ms2 == Append(ms, m)
           q2 == Append(q, new)
<1>2. /\ Len(ms) \in Nat /\ Len(q) \in Nat /\ Len(w) \in Nat /\ Len(g) \in Nat
      /\ c \in Nat /\ p \in Nat
  BY <1>1, StreamNumbers
<1>3. ms \in Seq(Message) /\ q \in Seq(Write) /\ s \in Seq(Write) /\ tape \in Seq(Nat)
  BY <1>1 DEF Typed, Laid
<1>4. Whole(ms, off, p, q, s)
  <2> SUFFICES ASSUME InParts(tape, p, q, s) PROVE FALSE
    BY <1>1
  <2> HIDE DEF p
  <2>1. PICK v \in Write : ((q = <<v>> /\ s = <<>>) \/ (q = <<>> /\ s = <<v>>)) /\ v.cut
    BY DEF InParts
  <2>2. q \o s = <<v>>
    <3>1. <<v>> \o <<>> = <<v>> /\ <<>> \o <<v>> = <<v>>
      BY ConcatEmptySeq
    <3> QED
      BY <2>1, <3>1
  <2>3. Len(q \o s) = 1 /\ (q \o s)[1] = v
    BY <2>2
  <2> QED
    BY <2>1, <2>3 DEF NoneCut
<1>5. PICK off2, tape2 :
        /\ Laid(ms2, off2, tape2)
        /\ \A i \in 0 .. Len(ms) : off2[i] = off[i]
        /\ Len(tape2) >= Len(tape) /\ \A j \in 1 .. Len(tape) : tape2[j] = tape[j]
  <2>1. Laid(ms, off, tape)
    BY <1>1
  <2>2. ms \in Seq(Message)
    BY <1>3
  <2> HIDE DEF c, p, new, q2
  <2> QED
    BY ONLY m \in Message, <2>1, <2>2, LaidExtends DEF ms2
<1>6. /\ Len(ms2) = Len(ms) + 1 /\ ms2[Len(ms) + 1] = m
      /\ \A i \in 1 .. Len(ms) : ms2[i] = ms[i]
  BY <1>2, <1>3
<1>7. /\ Len(q2) = Len(q) + 1 /\ q2[Len(q) + 1] = new
      /\ \A i \in 1 .. Len(q) : q2[i] = q[i]
  BY <1>2, <1>3
<1>8. new.words = m /\ ~new.cut
  OBVIOUS
<1> HIDE DEF ms2, q2, new
<1>9. Len(g) <= Len(ms) /\ Got(ms2, r, g)
  <2>1. Len(g) <= Len(ms) /\ \A i \in 1 .. Len(g) : g[i] = ms[i]
    BY <1>1 DEF Got
  <2>2. Len(g) <= Len(ms2) /\ \A i \in 1 .. Len(g) : g[i] = ms2[i]
    BY <1>2, <1>6, <2>1
  <2>3. Len(g) < Len(ms) => ms2[Len(g) + 1] = ms[Len(g) + 1] /\ Len(g) < Len(ms2)
    BY <1>2, <1>6
  <2> QED
    BY <1>1, <2>1, <2>2, <2>3 DEF Got
<1>10. ReadTo(off2, r, g) = c
  <2>1. Len(g) \in 0 .. Len(ms)
    BY <1>2, <1>9
  <2>2. off2[Len(g)] = off[Len(g)]
    BY <1>5, <2>1
  <2> QED
    BY <2>2 DEF ReadTo
<1>11. Follows(tape, c, w)
  BY <1>1
<1> HIDE DEF c
<1>12. Follows(tape2, c, w)
  <2>1. c + Len(w) <= Len(tape) /\ \A j \in 1 .. Len(w) : w[j] = tape[c + j]
    BY <1>11 DEF Follows
  <2>2. Len(tape) \in Nat /\ Len(tape2) \in Nat
    BY <1>3, <1>5 DEF Laid
  <2>3. ASSUME NEW j \in 1 .. Len(w) PROVE w[j] = tape2[c + j]
    <3>1. c + j \in 1 .. Len(tape)
      BY <1>2, <2>1, <2>2
    <3> QED
      BY <1>5, <2>1, <3>1
  <2>4. c + Len(w) <= Len(tape2)
    BY <1>2, <1>5, <2>1, <2>2
  <2> QED
    BY <2>3, <2>4 DEF Follows
<1> HIDE DEF p
<1>13. Whole(ms2, off2, p, q2, s)
  <2> DEFINE k == Len(ms) - Len(q)
  <2>1. s = <<>> /\ Len(q) <= Len(ms) /\ p = off[k]
    BY <1>4 DEF Whole
  <2>2. \A i \in 1 .. Len(q) : ~q[i].cut /\ q[i].words = ms[k + i]
    BY <1>4 DEF Whole
  <2>3. Len(ms2) - Len(q2) = k /\ k \in 0 .. Len(ms) /\ Len(q2) <= Len(ms2)
        /\ k + (Len(q) + 1) = Len(ms) + 1
    BY <1>2, <1>6, <1>7, <2>1
  <2> HIDE DEF k
  <2>4. p = off2[k]
    BY <1>5, <2>1, <2>3
  <2>5. ASSUME NEW i \in 1 .. Len(q2) PROVE ~q2[i].cut /\ q2[i].words = ms2[k + i]
    <3>1. CASE i = Len(q) + 1
      BY <1>6, <1>7, <1>8, <2>3, <3>1
    <3>2. CASE i # Len(q) + 1
      <4>1. i \in 1 .. Len(q) /\ k + i \in 1 .. Len(ms)
        BY <1>2, <1>7, <2>3, <3>2
      <4> QED
        BY <1>6, <1>7, <2>2, <4>1
    <3> QED
      BY <3>1, <3>2
  <2> QED
    BY <2>1, <2>3, <2>4, <2>5 DEF Whole
<1>14. Whole(ms2, off2, c + Len(w), q2, s)
  BY <1>13 DEF p
<1>15. Stream(ms2, q2, s, w, r, g)
  BY <1>5, <1>9, <1>10, <1>12, <1>14 DEF Stream
<1> QED
  BY <1>15 DEF ms2, q2, new

\* Of words that follow on the tape the first n are taken.
Dropped(w, n, rest) ==
  /\ rest \in Seq(Nat) /\ n \in Nat /\ n <= Len(w) /\ Len(rest) = Len(w) - n
  /\ \A i \in 1 .. (Len(w) - n) : rest[i] = w[n + i]

Beyond(x, c, n) == x = c + n

LEMMA FollowsRest ==
  ASSUME NEW tape \in Seq(Nat), NEW c \in Nat, NEW w \in Seq(Nat), Follows(tape, c, w),
         NEW n, NEW rest, Dropped(w, n, rest), NEW x \in Nat, Beyond(x, c, n)
  PROVE  Follows(tape, x, rest) /\ x + Len(rest) = c + Len(w)
<1>1. /\ Len(w) \in Nat /\ n \in Nat /\ n <= Len(w) /\ Len(rest) = Len(w) - n /\ x = c + n
      /\ Len(tape) \in Nat /\ rest \in Seq(Nat) /\ Len(rest) \in Nat
  BY DEF Dropped, Beyond
<1>2. \A i \in 1 .. (Len(w) - n) : rest[i] = w[n + i]
  BY DEF Dropped
<1>3. c + Len(w) <= Len(tape)
  BY DEF Follows
<1>4. \A j \in 1 .. Len(w) : w[j] = tape[c + j]
  BY DEF Follows
<1>5. x + Len(rest) = c + Len(w)
  BY <1>1
<1>6. ASSUME NEW j \in 1 .. Len(rest) PROVE rest[j] = tape[x + j]
  <2>1. n + j \in 1 .. Len(w) /\ j \in 1 .. (Len(w) - n) /\ c + (n + j) = x + j
    BY <1>1
  <2> QED
    BY <1>2, <1>4, <2>1
<1>7. x + Len(rest) <= Len(tape)
  BY <1>3, <1>5
<1> QED
  BY <1>5, <1>6, <1>7 DEF Follows

\* A message whose length fits in its header, which says it.
Fit(m) == Sized(m) /\ 4 * Len(m) < HighBit

LEMMA FitReads ==
  ASSUME NEW m \in Message, Fit(m)
  PROVE  Low(m[1]) >= 20 /\ WordsOf(Low(m[1])) = Len(m)
<1> DEFINE n == Len(m)
<1>1. n \in Nat /\ n >= 5 /\ 4 * n < HighBit /\ m[1] = Pack(TRUE, 4 * n)
  BY HeaderTypes DEF Fit, Sized
<1> HIDE DEF n
<1>2. 4 * n \in Nat
  BY <1>1
<1> DEFINE l == 4 * n
<1>3. l \in Nat /\ l < HighBit
  BY <1>1, <1>2
<1>4. m[1] = Pack(TRUE, l)
  BY <1>1
<1> HIDE DEF l
<1>5. Low(m[1]) = l
  BY <1>3, <1>4, PackReads
<1>6. l >= 20 /\ (l + 3) \div 4 = n
  BY <1>1 DEF l
<1> QED
  BY <1>5, <1>6 DEF WordsOf, n

\* A message is being read, or there is one to read.
LEMMA StreamNext ==
  ASSUME NEW ms, NEW q, NEW s, NEW w, NEW r, NEW g, Typed(ms, q, s, w, r, g), w # <<>>,
         NEW off, NEW tape, Laid(ms, off, tape), Got(ms, r, g),
         Follows(tape, ReadTo(off, r, g), w)
  PROVE  /\ Len(g) \in Nat /\ Len(g) < Len(ms) /\ ms[Len(g) + 1] \in Message
         /\ Follows(tape, off[Len(g)], ms[Len(g) + 1])
         /\ off[Len(g) + 1] = off[Len(g)] + Len(ms[Len(g) + 1]) /\ off[Len(g)] \in Nat
<1>1. /\ ms \in Seq(Message) /\ Len(ms) \in Nat /\ Len(g) \in Nat /\ Len(w) \in Nat
      /\ Len(r.readBuf) \in Nat /\ Len(g) <= Len(ms)
  BY StreamNumbers DEF Typed, Got
<1>2. Len(w) > 0
  BY <1>1, EmptySeq DEF Typed
<1>3. Len(g) \in 0 .. Len(ms) /\ Len(ms) \in 0 .. Len(ms)
  BY <1>1
<1>4. off[Len(g)] \in Nat /\ off[Len(ms)] = Len(tape)
  BY <1>3 DEF Laid
<1>5. off[Len(g)] + Len(r.readBuf) + Len(w) <= Len(tape)
  BY DEF Follows, ReadTo
<1>6. Len(g) < Len(ms)
  <2> SUFFICES ASSUME Len(g) = Len(ms) PROVE FALSE
    BY <1>1
  <2>1. off[Len(g)] = Len(tape)
    BY <1>4
  <2> DEFINE o == off[Len(g)]
             b == Len(r.readBuf)
             l == Len(w)
  <2>2. o \in Nat /\ b \in Nat /\ l \in Nat /\ l > 0 /\ o + b + l <= o
    BY <1>1, <1>2, <1>4, <1>5, <2>1
  <2> HIDE DEF o, b, l
  <2> QED
    BY <2>2
<1>7. ms[Len(g) + 1] \in Message
  <2>1. Len(g) + 1 \in 1 .. Len(ms)
    BY <1>1, <1>6
  <2> QED
    BY <1>1, <2>1, ElementOfSeq
<1>8. /\ Follows(tape, off[Len(g)], ms[Len(g) + 1])
      /\ off[Len(g) + 1] = off[Len(g)] + Len(ms[Len(g) + 1])
  <2> DEFINE k == Len(g)
  <2>1. k \in Nat /\ k < Len(ms)
    BY <1>1, <1>6
  <2> HIDE DEF k
  <2>2. Follows(tape, off[k], ms[k + 1]) /\ off[k + 1] = off[k] + Len(ms[k + 1])
    BY <1>1, <2>1, FollowsMessage
  <2> QED
    BY <2>2 DEF k
<1> QED
  BY <1>1, <1>4, <1>6, <1>7, <1>8

\* doReadHeader finds the length of the next message, which is never refused.
LEMMA StreamHeader ==
  ASSUME NEW ms, NEW q, NEW s, NEW w, NEW r, NEW g, Typed(ms, q, s, w, r, g),
         Stream(ms, q, s, w, r, g), r.phase = "header", w # <<>>,
         \A i \in 1 .. Len(ms) : Fit(ms[i])
  PROVE  /\ Low(Head(w)) >= 20
         /\ Stream(ms, q, s, Tail(w), [phase |-> "body", readBuf |-> <<Head(w)>>], g)
<1>1. PICK off, tape :
        /\ Laid(ms, off, tape) /\ Got(ms, r, g)
        /\ Follows(tape, ReadTo(off, r, g), w)
        /\ \/ Whole(ms, off, ReadTo(off, r, g) + Len(w), q, s)
           \/ InParts(tape, ReadTo(off, r, g) + Len(w), q, s)
  BY DEF Stream
<1> DEFINE k == Len(g)
           c == off[k]
           m == ms[k + 1]
           r2 == [phase |-> "body", readBuf |-> <<Head(w)>>]
<1>2. k \in Nat /\ k < Len(ms) /\ m \in Message /\ Follows(tape, c, m) /\ c \in Nat
  BY <1>1, StreamNext
<1>3. w \in Seq(Nat) /\ tape \in Seq(Nat) /\ Len(ms) \in Nat
  BY <1>1 DEF Typed, Laid
<1>4. /\ Len(w) \in Nat /\ Len(w) > 0 /\ Head(w) = w[1] /\ Head(w) \in Nat
      /\ Tail(w) \in Seq(Nat) /\ Len(Tail(w)) = Len(w) - 1
      /\ \A i \in 1 .. Len(w) - 1 : Tail(w)[i] = w[i + 1]
  BY <1>3, EmptySeq, HeadTailProperties
<1>5. r.readBuf = <<>> /\ r.phase # "body"
  BY <1>1 DEF Got
<1>6. ReadTo(off, r, g) = c
  <2>1. Len(r.readBuf) = 0
    BY <1>5
  <2>2. c + 0 = c
    BY <1>2
  <2> QED
    BY <2>1, <2>2 DEF ReadTo
<1>7. ReadTo(off, r2, g) = c + 1
  <2>1. r2.readBuf = <<Head(w)>> /\ Len(<<Head(w)>>) = 1
    OBVIOUS
  <2> QED
    BY <2>1 DEF ReadTo
<1>8. Follows(tape, c, w)
  BY <1>1, <1>6
<1>9. Whole(ms, off, c + Len(w), q, s) \/ InParts(tape, c + Len(w), q, s)
  BY <1>1, <1>6
<1>10. r2.phase = "body" /\ r2.readBuf = <<Head(w)>> /\ Len(r2.readBuf) = 1 /\ r2.readBuf[1] = Head(w)
  OBVIOUS
<1>11. \A i \in 1 .. Len(g) : g[i] = ms[i]
  BY <1>1 DEF Got
<1> HIDE DEF c, r2
<1>12. Fit(m)
  BY <1>2, <1>3
<1> HIDE DEF m
<1>13. Len(m) \in Nat /\ Len(m) >= 5
  BY <1>2, HeaderTypes
<1>14. Head(w) = m[1]
  <2>1. w[1] = tape[c + 1]
    BY <1>4, <1>8 DEF Follows
  <2>2. m[1] = tape[c + 1]
    BY <1>2, <1>13 DEF Follows
  <2> QED
    BY <1>4, <2>1, <2>2
<1>15. Low(Head(w)) >= 20
  BY <1>2, <1>12, <1>14, FitReads
<1>16. Got(ms, r2, g)
  <2>1. Len(r2.readBuf) < Len(m)
    BY <1>10, <1>13
  <2>2. \A j \in 1 .. Len(r2.readBuf) : r2.readBuf[j] = m[j]
    BY <1>10, <1>14
  <2>3. Len(g) <= Len(ms)
    BY <1>2, <1>3
  <2> QED
    BY <1>2, <1>10, <1>11, <2>1, <2>2, <2>3 DEF Got, m
<1> DEFINE x == c + 1
           rest == Tail(w)
<1>17. Dropped(w, 1, rest)
  BY <1>4 DEF Dropped
<1>18. x \in Nat /\ Beyond(x, c, 1)
  BY <1>2 DEF Beyond
<1> HIDE DEF x, rest
<1>19. Follows(tape, x, rest) /\ x + Len(rest) = c + Len(w)
  BY <1>2, <1>3, <1>8, <1>17, <1>18, FollowsRest
<1>20. ReadTo(off, r2, g) = x
  BY <1>7 DEF x
<1>21. Stream(ms, q, s, rest, r2, g)
  BY <1>1, <1>9, <1>16, <1>19, <1>20 DEF Stream
<1> QED
  BY <1>15, <1>21 DEF rest, r2

\* doReadBody takes n words of w and has longer then.
Takes(w, b, n, longer, rest) ==
  /\ Dropped(w, n, rest) /\ longer \in Seq(Nat) /\ Len(longer) = Len(b) + n
  /\ \A i \in 1 .. Len(b) : longer[i] = b[i]
  /\ \A i \in 1 .. n : longer[Len(b) + i] = w[i]

\* The words b are the first of m.
Opens(b, m) == \A i \in 1 .. Len(b) : b[i] = m[i]
NoLonger(b, m) == Len(b) <= Len(m)

\* What it has then is as much of the message it reads.
LEMMA TakesMessage ==
  ASSUME NEW tape \in Seq(Nat), NEW o \in Nat, NEW m \in Seq(Nat), Follows(tape, o, m),
         NEW w \in Seq(Nat), NEW b \in Seq(Nat), NEW n, NEW longer, NEW rest,
         Takes(w, b, n, longer, rest),
         Opens(b, m), NEW c \in Nat, Behind(c, o, b), Follows(tape, c, w), NoLonger(longer, m)
  PROVE  Opens(longer, m)
<1> DEFINE lb == Len(b)
           lm == Len(m)
           lw == Len(w)
           ll == Len(longer)
<1>1. lb \in Nat /\ lm \in Nat /\ lw \in Nat
  OBVIOUS
<1>2. n \in Nat /\ n <= lw /\ ll = lb + n
  BY DEF Takes, Dropped
<1>3. ll <= lm /\ c = o + lb
  BY DEF NoLonger, Behind
<1>4. ASSUME NEW i \in 1 .. lb PROVE longer[i] = m[i]
  BY DEF Takes, Opens
<1>5. \A j \in 1 .. lw : w[j] = tape[c + j]
  BY DEF Follows
<1>6. \A j \in 1 .. lm : m[j] = tape[o + j]
  BY DEF Follows
<1>7. \A i \in 1 .. n : longer[lb + i] = w[i]
  BY DEF Takes
<1> SUFFICES \A i \in 1 .. ll : longer[i] = m[i]
  BY DEF Opens
<1> HIDE DEF lb, lm, lw, ll
<1>8. ASSUME NEW i \in 1 .. n PROVE longer[lb + i] = m[lb + i]
  <2>1. i \in 1 .. lw
    BY <1>1, <1>2
  <2>2. lb + i \in 1 .. lm
    BY <1>1, <1>2, <1>3
  <2>3. c + i = o + (lb + i)
    BY <1>1, <1>3
  <2> QED
    BY <1>5, <1>6, <1>7, <2>1, <2>2, <2>3
<1>9. ASSUME NEW i \in 1 .. ll PROVE longer[i] = m[i]
  <2>1. CASE i <= lb
    <3>1. i \in 1 .. lb
      BY <1>1, <1>2, <2>1
    <3> QED
      BY <1>4, <3>1
  <2>2. CASE ~ (i <= lb)
    <3>1. i - lb \in 1 .. n
      BY <1>1, <1>2, <2>2
    <3>2. lb + (i - lb) = i
      BY <1>1, <1>2
    <3> QED
      BY <1>8, <3>1, <3>2
  <2> QED
    BY <2>1, <2>2
<1> QED
  BY <1>9

\* doReadBody: it never takes more than the message, and what it gives to
\* onMessage is the message.
LEMMA StreamBody ==
  ASSUME NEW ms, NEW q, NEW s, NEW w, NEW r, NEW g, Typed(ms, q, s, w, r, g),
         Stream(ms, q, s, w, r, g), r.phase = "body", w # <<>>,
         \A i \in 1 .. Len(ms) : Fit(ms[i]), Unfinished(r.readBuf),
         NEW n, NEW longer, NEW rest, Takes(w, r.readBuf, n, longer, rest),
         Len(longer) <= WordsOf(Size(r.readBuf))
  PROVE  /\ Len(longer) < WordsOf(Size(r.readBuf)) =>
              Stream(ms, q, s, rest, [r EXCEPT !.readBuf = longer], g)
         /\ Len(longer) = WordsOf(Size(r.readBuf)) =>
              Stream(ms, q, s, rest, AtHeader, Append(g, longer))
<1>1. PICK off, tape :
        /\ Laid(ms, off, tape) /\ Got(ms, r, g)
        /\ Follows(tape, ReadTo(off, r, g), w)
        /\ \/ Whole(ms, off, ReadTo(off, r, g) + Len(w), q, s)
           \/ InParts(tape, ReadTo(off, r, g) + Len(w), q, s)
  BY DEF Stream
<1> DEFINE k == Len(g)
           o == off[k]
           m == ms[k + 1]
           b == r.readBuf
           c == ReadTo(off, r, g)
           x == c + n
<1>2. k \in Nat /\ k < Len(ms) /\ m \in Message /\ Follows(tape, o, m) /\ o \in Nat
  BY <1>1, StreamNext
<1>3. w \in Seq(Nat) /\ tape \in Seq(Nat) /\ Len(ms) \in Nat /\ b \in Seq(Nat) /\ g \in Seq(Message)
  BY <1>1 DEF Typed, Laid, Reader
<1>4. Len(b) < Len(m) /\ \A i \in 1 .. Len(b) : b[i] = m[i]
  BY <1>1 DEF Got
<1>5. \A i \in 1 .. k : g[i] = ms[i]
  BY <1>1 DEF Got
<1>6. Fit(m)
  BY <1>2, <1>3
<1>7. Len(b) \in Nat /\ Len(b) > 0 /\ Len(w) \in Nat
  BY <1>3 DEF Unfinished
<1>8. WordsOf(Size(b)) = Len(m)
  <2>1. b[1] = m[1]
    BY <1>4, <1>7
  <2>2. WordsOf(Low(m[1])) = Len(m)
    BY <1>2, <1>6, FitReads
  <2> QED
    BY <2>1, <2>2 DEF Size
<1>9. Len(m) \in Nat /\ m \in Seq(Nat)
  BY <1>2, HeaderTypes
<1>10. c = o + Len(b) /\ c \in Nat
  BY <1>1, <1>2, StreamNumbers DEF ReadTo
<1>11. Follows(tape, c, w) /\ (Whole(ms, off, c + Len(w), q, s) \/ InParts(tape, c + Len(w), q, s))
  BY <1>1
<1>12. Takes(w, b, n, longer, rest) /\ Dropped(w, n, rest) /\ n \in Nat /\ Len(longer) = Len(b) + n
       /\ Len(longer) <= Len(m) /\ longer \in Seq(Nat)
  BY <1>8 DEF Takes, Dropped
<1>13. off[k + 1] = o + Len(m)
  BY <1>1, StreamNext
<1> HIDE DEF b, c, o, m, k
<1>14. \A i \in 1 .. Len(longer) : longer[i] = m[i]
  <2>1. Opens(b, m) /\ NoLonger(longer, m) /\ Behind(c, o, b)
    BY <1>4, <1>10, <1>12 DEF Opens, NoLonger, Behind
  <2>2. Opens(longer, m)
    BY <1>2, <1>3, <1>9, <1>10, <1>11, <1>12, <2>1, TakesMessage
  <2> QED
    BY <2>2 DEF Opens
<1>15. x \in Nat /\ Beyond(x, c, n)
  BY <1>10, <1>12 DEF Beyond
<1> HIDE DEF x
<1>16. Follows(tape, x, rest) /\ x + Len(rest) = c + Len(w)
  BY <1>3, <1>10, <1>11, <1>12, <1>15, FollowsRest
<1>17. x = o + Len(longer)
  BY <1>2, <1>7, <1>10, <1>12, <1>15 DEF Beyond
<1>18. ASSUME Len(longer) < Len(m)
       PROVE  Stream(ms, q, s, rest, [r EXCEPT !.readBuf = longer], g)
  <2> DEFINE r2 == [r EXCEPT !.readBuf = longer]
  <2>1. r2.readBuf = longer /\ r2.phase = "body"
    BY DEF Typed, Reader
  <2> HIDE DEF r2
  <2>2. Got(ms, r2, g)
    <3>1. Len(g) <= Len(ms) /\ Len(g) < Len(ms) /\ \A i \in 1 .. Len(g) : g[i] = ms[i]
      BY <1>2, <1>3, <1>5 DEF k
    <3>2. /\ Len(r2.readBuf) < Len(ms[Len(g) + 1])
          /\ \A j \in 1 .. Len(r2.readBuf) : r2.readBuf[j] = ms[Len(g) + 1][j]
      BY <1>14, <1>18, <2>1 DEF m, k
    <3> QED
      BY <2>1, <3>1, <3>2 DEF Got
  <2>3. ReadTo(off, r2, g) = x
    BY <1>17, <2>1 DEF ReadTo, o, k
  <2>4. Stream(ms, q, s, rest, r2, g)
    BY <1>1, <1>11, <1>16, <2>2, <2>3 DEF Stream
  <2> QED
    BY <2>4 DEF r2
<1>19. ASSUME Len(longer) = Len(m)
       PROVE  Stream(ms, q, s, rest, AtHeader, Append(g, longer))
  <2> DEFINE g2 == Append(g, longer)
  <2>1. longer = m
    BY <1>9, <1>12, <1>14, <1>19, SeqEqual
  <2>2. Len(g2) = k + 1 /\ g2[k + 1] = longer /\ \A i \in 1 .. k : g2[i] = g[i]
    BY <1>2, <1>3 DEF k
  <2>3. AtHeader.phase = "header" /\ AtHeader.readBuf = <<>> /\ Len(AtHeader.readBuf) = 0
    BY DEF AtHeader
  <2> HIDE DEF g2
  <2>4. Got(ms, AtHeader, g2)
    <3>1. Len(g2) <= Len(ms)
      BY <1>2, <1>3, <2>2
    <3>2. ASSUME NEW i \in 1 .. Len(g2) PROVE g2[i] = ms[i]
      <4>1. CASE i = k + 1
        BY <2>1, <2>2, <4>1 DEF m
      <4>2. CASE i # k + 1
        <5>1. i \in 1 .. k
          BY <1>2, <2>2, <4>2
        <5> QED
          BY <1>5, <2>2, <5>1
      <4> QED
        BY <4>1, <4>2
    <3> QED
      BY <2>3, <3>1, <3>2 DEF Got
  <2>5. ReadTo(off, AtHeader, g2) = x
    <3>1. off[Len(g2)] = x
      BY <1>13, <1>17, <1>19, <2>2
    <3>2. x + 0 = x
      BY <1>15
    <3> QED
      BY <2>3, <3>1, <3>2 DEF ReadTo
  <2>6. Stream(ms, q, s, rest, AtHeader, g2)
    BY <1>1, <1>11, <1>16, <2>4, <2>5 DEF Stream
  <2> QED
    BY <2>6 DEF g2
<1> QED
  BY <1>8, <1>18, <1>19 DEF b

(***************************************************************************)
(* The invariant.                                                          *)
(***************************************************************************)
\* What is written has lengths that its headers can say (less than 2^24).
FitsIn(d) == \A i \in 1 .. Len(sent[d]) : 4 * Len(sent[d][i]) < HighBit

SentSized(d) == \A i \in 1 .. Len(sent[d]) : Sized(sent[d][i])

Streams(d) == Stream(sent[d], queued[d], resuming[d], wire[d], reader[d], received[d])

\* The stream is in order.
InOrder(d) == ~contended[d] /\ FitsIn(d) => Streams(d)

StreamInv == \A d \in Direction : SentSized(d) /\ InOrder(d)

LEMMA TypeInvTyped ==
  ASSUME TypeInv, NEW d \in Direction
  PROVE  Typed(sent[d], queued[d], resuming[d], wire[d], reader[d], received[d])
BY DEF TypeInv, Typed, Reader

\* A step that leaves a direction alone.
LEMMA StreamAlone ==
  ASSUME NEW d \in Direction, SentSized(d), InOrder(d),
         sent'[d] = sent[d], queued'[d] = queued[d], resuming'[d] = resuming[d],
         wire'[d] = wire[d], reader'[d] = reader[d], received'[d] = received[d],
         contended'[d] = contended[d]
  PROVE  SentSized(d)' /\ InOrder(d)'
BY DEF SentSized, InOrder, FitsIn, Streams

LEMMA AsyncWriteStreams ==
  ASSUME TypeInv, NEW d \in Direction, SentSized(d), InOrder(d), NEW m \in Message, Sized(m),
         AsyncWrite(d, m), resuming'[d] = resuming[d], wire'[d] = wire[d],
         reader'[d] = reader[d], received'[d] = received[d]
  PROVE  SentSized(d)' /\ InOrder(d)'
<1> DEFINE new == [words |-> m, cut |-> FALSE]
           ms == sent[d]
           ms2 == Append(ms, m)
           cut == \E i \in 1 .. Len(Writes(d)) : Writes(d)[i].cut
<1>1. /\ sent' = [sent EXCEPT ![d] = ms2] /\ queued' = [queued EXCEPT ![d] = Append(queued[d], new)]
      /\ contended' = [contended EXCEPT ![d] = @ \/ cut]
  BY DEF AsyncWrite, Put
<1>2. sent'[d] = ms2 /\ queued'[d] = Append(queued[d], new)
  BY <1>1 DEF TypeInv
<1>3. contended'[d] = (contended[d] \/ cut)
  <2> HIDE DEF cut
  <2> QED
    BY <1>1 DEF TypeInv
<1>4. ms \in Seq(Message) /\ Len(ms) \in Nat
  BY DEF TypeInv
<1> HIDE DEF ms
<1>5. Len(ms2) = Len(ms) + 1 /\ ms2[Len(ms) + 1] = m /\ \A i \in 1 .. Len(ms) : ms2[i] = ms[i]
  BY <1>4
<1> HIDE DEF ms2
<1>6. \A i \in 1 .. Len(ms) : i \in 1 .. Len(ms2)
  BY <1>4, <1>5
<1>7. SentSized(d)'
  <2>1. ASSUME NEW i \in 1 .. Len(ms2) PROVE Sized(ms2[i])
    <3>1. CASE i = Len(ms) + 1
      BY <1>5, <3>1
    <3>2. CASE i # Len(ms) + 1
      <4>1. i \in 1 .. Len(ms)
        BY <1>4, <1>5, <3>2
      <4>2. Sized(ms[i])
        BY <4>1 DEF SentSized, ms
      <4> QED
        BY <1>5, <4>1, <4>2
    <3> QED
      BY <3>1, <3>2
  <2> QED
    BY <1>2, <2>1 DEF SentSized
<1>8. ASSUME ~contended'[d], FitsIn(d)' PROVE Streams(d)'
  <2>1. ~contended[d] /\ ~cut
    BY <1>3, <1>8
  <2>2. NoneCut(queued[d], resuming[d])
    BY <2>1 DEF NoneCut, Writes
  <2>3. \A i \in 1 .. Len(ms2) : 4 * Len(ms2[i]) < HighBit
    BY <1>2, <1>8 DEF FitsIn
  <2>4. \A i \in 1 .. Len(ms) : 4 * Len(ms[i]) < HighBit
    BY <1>5, <1>6, <2>3
  <2>5. FitsIn(d)
    BY <2>4 DEF FitsIn, ms
  <2>6. Stream(sent[d], queued[d], resuming[d], wire[d], reader[d], received[d])
    BY <2>1, <2>5 DEF InOrder, Streams
  <2>7. Stream(Append(sent[d], m), Append(queued[d], new), resuming[d], wire[d], reader[d],
               received[d])
    BY <2>2, <2>6, TypeInvTyped, StreamWrites
  <2> HIDE DEF new
  <2> QED
    BY <1>2, <2>7 DEF Streams, ms, ms2
<1> QED
  BY <1>7, <1>8 DEF InOrder

LEMMA WritePartStreams ==
  ASSUME TypeInv, StreamInv, NEW d \in Direction, WritePart(d)
  PROVE  SentSized(d)' /\ InOrder(d)'
<1> DEFINE w == Head(queued[d])
           n == PartOf(d)
           many == Len(Writes(d)) > 1
<1>1. queued[d] # <<>> /\ Len(wire[d]) < SocketWords
  BY DEF WritePart
<1>2. w \in Write /\ n \in 1 .. Len(w.words)
  BY <1>1, PartTypes
<1>3. w.words \in Seq(Nat) /\ Len(w.words) \in Nat
  BY <1>2 DEF Write
<1>4. /\ queued' = [queued EXCEPT ![d] = Tail(queued[d])]
      /\ wire' = [wire EXCEPT ![d] = wire[d] \o SubSeq(w.words, 1, n)]
      /\ UNCHANGED <<plan, reader, sent, received>>
      /\ IF n = Len(w.words)
         THEN UNCHANGED <<resuming, contended>>
         ELSE /\ resuming' = Put(resuming, d, Rest(w, n))
              /\ contended' = [contended EXCEPT ![d] = @ \/ many]
  BY DEF WritePart
<1>5. Typed(sent[d], queued[d], resuming[d], wire[d], reader[d], received[d])
  BY TypeInvTyped
<1>6. /\ queued'[d] = Tail(queued[d]) /\ wire'[d] = wire[d] \o SubSeq(w.words, 1, n)
      /\ sent'[d] = sent[d] /\ reader'[d] = reader[d] /\ received'[d] = received[d]
  BY <1>4 DEF TypeInv
<1>7. SentSized(d)'
  BY <1>6 DEF SentSized, StreamInv
<1>8. ASSUME ~contended'[d], FitsIn(d)' PROVE Streams(d)'
  <2>1. FitsIn(d)
    BY <1>6, <1>8 DEF FitsIn
  <2>2. CASE n = Len(w.words)
    <3>1. resuming'[d] = resuming[d] /\ ~contended[d]
      BY <1>4, <1>8, <2>2
    <3>2. Stream(sent[d], queued[d], resuming[d], wire[d], reader[d], received[d])
      BY <2>1, <3>1 DEF StreamInv, InOrder, Streams
    <3>3. Stream(sent[d], Tail(queued[d]), resuming[d], wire[d] \o w.words, reader[d], received[d])
      BY <1>1, <1>5, <3>2, StreamPartWhole
    <3>4. SubSeq(w.words, 1, n) = w.words
      BY <1>3, <2>2
    <3> QED
      BY <1>6, <3>1, <3>3, <3>4 DEF Streams
  <2>3. CASE n # Len(w.words)
    <3>1. resuming'[d] = Append(resuming[d], Rest(w, n))
      BY <1>4, <2>3 DEF TypeInv, Put
    <3>2. contended'[d] = (contended[d] \/ many)
      <4> HIDE DEF many, w, n
      <4>1. contended' = [contended EXCEPT ![d] = @ \/ many]
        BY <1>4, <2>3
      <4> QED
        BY <4>1 DEF TypeInv
    <3>3. ~contended[d] /\ ~many
      BY <1>8, <3>2
    <3>4. Stream(sent[d], queued[d], resuming[d], wire[d], reader[d], received[d])
      BY <2>1, <3>3 DEF StreamInv, InOrder, Streams
    <3>5. Len(queued[d]) = 1 /\ resuming[d] = <<>>
      <4>1. queued[d] \in Seq(Write) /\ resuming[d] \in Seq(Write)
        BY DEF TypeInv
      <4>2. Len(queued[d]) \in Nat /\ Len(queued[d]) > 0 /\ Len(resuming[d]) \in Nat
        BY <1>1, <4>1, EmptySeq
      <4>3. Len(queued[d] \o resuming[d]) = Len(queued[d]) + Len(resuming[d])
        BY <4>1, ConcatProperties
      <4>4. ~ (Len(queued[d]) + Len(resuming[d]) > 1)
        BY <3>3, <4>3 DEF Writes
      <4>5. Len(queued[d]) = 1 /\ Len(resuming[d]) = 0
        <5> DEFINE a == Len(queued[d])
                   b == Len(resuming[d])
        <5>1. a \in Nat /\ a > 0 /\ b \in Nat
          BY <4>2
        <5>2. ~ (a + b > 1)
          BY <4>4
        <5> HIDE DEF a, b
        <5>3. a = 1
          BY <5>1, <5>2
        <5>4. b = 0
          BY <5>1, <5>2
        <5> QED
          BY <5>3, <5>4 DEF a, b
      <4> QED
        BY <4>1, <4>5, EmptySeq
    <3>6. Cut(queued[d], resuming[d], n)
      <4>1. n \in Nat /\ 0 < n /\ n < Len(w.words)
        BY <1>2, <1>3, <2>3
      <4> QED
        BY <3>5, <4>1 DEF Cut
    <3>7. Stream(sent[d], Tail(queued[d]), Append(resuming[d], Rest(w, n)),
                 wire[d] \o SubSeq(w.words, 1, n), reader[d], received[d])
      BY <1>5, <3>4, <3>6, StreamPartCut
    <3> HIDE DEF w, n
    <3> QED
      BY <1>6, <3>1, <3>7 DEF Streams
  <2> QED
    BY <2>2, <2>3
<1> QED
  BY <1>7, <1>8 DEF InOrder

LEMMA WriteResumesStreams ==
  ASSUME TypeInv, StreamInv, NEW d \in Direction, WriteResumes(d)
  PROVE  SentSized(d)' /\ InOrder(d)'
<1>1. /\ resuming[d] # <<>>
      /\ queued'[d] = Append(queued[d], Head(resuming[d])) /\ resuming'[d] = Tail(resuming[d])
      /\ wire'[d] = wire[d] /\ sent'[d] = sent[d] /\ reader'[d] = reader[d]
      /\ received'[d] = received[d] /\ contended'[d] = contended[d]
  BY DEF WriteResumes, Put, TypeInv
<1>2. SentSized(d)'
  BY <1>1 DEF SentSized, StreamInv
<1>3. ASSUME ~contended'[d], FitsIn(d)' PROVE Streams(d)'
  <2>1. FitsIn(d) /\ ~contended[d]
    BY <1>1, <1>3 DEF FitsIn
  <2>2. Stream(sent[d], queued[d], resuming[d], wire[d], reader[d], received[d])
    BY <2>1 DEF StreamInv, InOrder, Streams
  <2>3. Stream(sent[d], Append(queued[d], Head(resuming[d])), Tail(resuming[d]), wire[d],
               reader[d], received[d])
    BY <1>1, <2>2, TypeInvTyped, StreamResumes
  <2> QED
    BY <1>1, <2>3 DEF Streams
<1> QED
  BY <1>2, <1>3 DEF InOrder

LEMMA ReadHeaderStreams ==
  ASSUME TypeInv, StreamInv, NEW d \in Direction, ReadHeader(d)
  PROVE  SentSized(d)' /\ InOrder(d)'
<1> DEFINE w == Head(wire[d])
           next == IF Low(w) < 20 THEN [reader[d] EXCEPT !.phase = "failed"]
                   ELSE [phase |-> "body", readBuf |-> <<w>>]
<1>1. /\ reader[d].phase = "header" /\ wire[d] # <<>>
      /\ wire'[d] = Tail(wire[d]) /\ reader'[d] = next
      /\ queued'[d] = queued[d] /\ resuming'[d] = resuming[d] /\ sent'[d] = sent[d]
      /\ received'[d] = received[d] /\ contended'[d] = contended[d]
  BY DEF ReadHeader, TypeInv
<1>2. SentSized(d)'
  BY <1>1 DEF SentSized, StreamInv
<1>3. ASSUME ~contended'[d], FitsIn(d)' PROVE Streams(d)'
  <2>1. FitsIn(d) /\ ~contended[d]
    BY <1>1, <1>3 DEF FitsIn
  <2>2. Stream(sent[d], queued[d], resuming[d], wire[d], reader[d], received[d])
    BY <2>1 DEF StreamInv, InOrder, Streams
  <2>3. \A i \in 1 .. Len(sent[d]) : Fit(sent[d][i])
    BY <2>1 DEF FitsIn, StreamInv, SentSized, Fit
  <2>4. /\ Low(w) >= 20
        /\ Stream(sent[d], queued[d], resuming[d], Tail(wire[d]),
                  [phase |-> "body", readBuf |-> <<w>>], received[d])
    BY <1>1, <2>2, <2>3, TypeInvTyped, StreamHeader
  <2>5. Low(w) \in Nat
    <3>1. wire[d] \in Seq(Nat) /\ wire[d] # <<>>
      BY <1>1 DEF TypeInv
    <3>2. w \in Nat
      BY <3>1, HeadTailProperties
    <3> QED
      BY <3>2, WordTypes
  <2>6. next = [phase |-> "body", readBuf |-> <<w>>]
    BY <2>4, <2>5
  <2> HIDE DEF w
  <2> QED
    BY <1>1, <2>4, <2>6 DEF Streams
<1> QED
  BY <1>2, <1>3 DEF InOrder

\* What ReadBody takes, for the direction it reads.
LEMMA ReadBodyStreams ==
  ASSUME TypeInv, StreamInv, NEW d \in Direction, ReadBody(d)
  PROVE  SentSized(d)' /\ InOrder(d)'
<1> DEFINE b == reader[d].readBuf
           n == Taken(d)
           longer == Longer(d)
           rest == SubSeq(wire[d], n + 1, Len(wire[d]))
           whole == WordsOf(Size(b))
<1>1. reader[d].phase = "body" /\ wire[d] # <<>> /\ wire'[d] = rest /\ resuming'[d] = resuming[d]
  <2>1. /\ reader[d].phase = "body" /\ wire[d] # <<>> /\ wire' = [wire EXCEPT ![d] = rest]
        /\ UNCHANGED <<plan, resuming>>
    BY ReadBodySplit
  <2> QED
    BY <2>1 DEF TypeInv
<1>2. Other(d) \in Direction /\ Other(d) # d
  BY OtherSide
<1>3. \/ n = Missing(d) /\ reader'[d] = AtHeader /\ received'[d] = Append(received[d], longer)
      \/ n # Missing(d) /\ reader'[d] = [reader[d] EXCEPT !.readBuf = longer]
         /\ received'[d] = received[d]
  <2>1. \/ /\ n = Missing(d) /\ OnMessage(d, longer) /\ reader' = [reader EXCEPT ![d] = AtHeader]
        \/ /\ n # Missing(d) /\ UNCHANGED <<queued, sent, received, contended>>
           /\ reader' = [reader EXCEPT ![d] = [reader[d] EXCEPT !.readBuf = longer]]
    BY ReadBodySplit
  <2> HIDE DEF n, longer
  <2> QED
    BY <2>1 DEF TypeInv, OnMessage, Put
<1>4. queued'[d] = queued[d] /\ sent'[d] = sent[d] /\ contended'[d] = contended[d]
  <2>1. \/ \E m : AsyncWrite(Other(d), m)
        \/ UNCHANGED <<queued, sent, contended>>
    BY ReadBodySplit DEF OnMessage
  <2>2. CASE UNCHANGED <<queued, sent, contended>>
    BY <2>2
  <2>3. ASSUME NEW m, AsyncWrite(Other(d), m)
        PROVE  queued'[d] = queued[d] /\ sent'[d] = sent[d] /\ contended'[d] = contended[d]
    BY <1>2, <2>3 DEF AsyncWrite, Put, TypeInv
  <2> QED
    BY <2>1, <2>2, <2>3
<1>5. SentSized(d)'
  BY <1>4 DEF SentSized, StreamInv
<1>6. ASSUME ~contended'[d], FitsIn(d)' PROVE Streams(d)'
  <2>1. FitsIn(d) /\ ~contended[d]
    BY <1>4, <1>6 DEF FitsIn
  <2>2. Stream(sent[d], queued[d], resuming[d], wire[d], reader[d], received[d])
    BY <2>1 DEF StreamInv, InOrder, Streams
  <2>3. \A i \in 1 .. Len(sent[d]) : Fit(sent[d][i])
    BY <2>1 DEF FitsIn, StreamInv, SentSized, Fit
  <2>4. Typed(sent[d], queued[d], resuming[d], wire[d], reader[d], received[d])
    BY TypeInvTyped
  <2>5. /\ Missing(d) \in Nat /\ n \in 1 .. Len(wire[d]) /\ n <= Missing(d)
        /\ rest \in Seq(Nat) /\ Len(rest) = Len(wire[d]) - n
        /\ \A i \in 1 .. (Len(wire[d]) - n) : rest[i] = wire[d][n + i]
        /\ longer \in Seq(Nat) /\ Len(longer) = Len(b) + n
        /\ \A i \in 1 .. Len(b) : longer[i] = b[i]
        /\ \A i \in 1 .. n : longer[Len(b) + i] = wire[d][i]
    BY <1>1, ReadBodyTakes
  <2>6. Unfinished(b) /\ b \in Seq(Nat) /\ wire[d] \in Seq(Nat)
    BY <1>1 DEF TypeInv
  <2>7. Missing(d) = whole - Len(b)
    BY DEF Missing
  <2>8. whole \in Nat
    <3>1. b[1] \in Nat
      BY <2>6 DEF Unfinished
    <3>2. Size(b) \in Nat
      BY <3>1, WordTypes DEF Size
    <3> QED
      BY <3>2 DEF WordsOf
  <2> HIDE DEF b, n, longer, rest, whole
  <2>9. n \in Nat /\ n <= Len(wire[d])
    BY <2>5, <2>6
  <2>10. Takes(wire[d], b, n, longer, rest)
    BY <2>5, <2>9 DEF Takes, Dropped
  <2>11. /\ Len(longer) <= whole /\ (n = Missing(d) => Len(longer) = whole)
         /\ (n # Missing(d) => Len(longer) < whole)
    <3>1. Len(b) \in Nat
      BY <2>6
    <3>2. n <= whole - Len(b) /\ Len(longer) = Len(b) + n
      BY <2>5, <2>7
    <3>3. Len(longer) <= whole
      BY <2>8, <2>9, <3>1, <3>2
    <3>4. n = Missing(d) => Len(longer) = whole
      BY <2>7, <2>8, <2>9, <3>1, <3>2
    <3>5. n # Missing(d) => Len(longer) < whole
      BY <2>7, <2>8, <2>9, <3>1, <3>2
    <3> QED
      BY <3>3, <3>4, <3>5
  <2>12. /\ Len(longer) < WordsOf(Size(reader[d].readBuf)) =>
              Stream(sent[d], queued[d], resuming[d], rest, [reader[d] EXCEPT !.readBuf = longer],
                     received[d])
         /\ Len(longer) = WordsOf(Size(reader[d].readBuf)) =>
              Stream(sent[d], queued[d], resuming[d], rest, AtHeader, Append(received[d], longer))
    BY <1>1, <2>2, <2>3, <2>4, <2>6, <2>10, <2>11, StreamBody DEF b, whole
  <2>13. CASE n = Missing(d)
    <3>1. reader'[d] = AtHeader /\ received'[d] = Append(received[d], longer)
      BY <1>3, <2>13
    <3>2. Stream(sent[d], queued[d], resuming[d], rest, AtHeader, Append(received[d], longer))
      BY <2>11, <2>12, <2>13 DEF whole, b
    <3> QED
      BY <1>1, <1>4, <3>1, <3>2 DEF Streams
  <2>14. CASE n # Missing(d)
    <3>1. reader'[d] = [reader[d] EXCEPT !.readBuf = longer] /\ received'[d] = received[d]
      BY <1>3, <2>14
    <3>2. Stream(sent[d], queued[d], resuming[d], rest, [reader[d] EXCEPT !.readBuf = longer],
                 received[d])
      BY <2>11, <2>12, <2>14 DEF whole, b
    <3> QED
      BY <1>1, <1>4, <3>1, <3>2 DEF Streams
  <2> QED
    BY <2>13, <2>14
<1> QED
  BY <1>5, <1>6 DEF InOrder

\* For the other direction: an answer may be written.
LEMMA ReadBodyAnswers ==
  ASSUME TypeInv, StreamInv, NEW d \in Direction, ReadBody(d)
  PROVE  SentSized(Other(d))' /\ InOrder(Other(d))'
<1> DEFINE x == Other(d)
<1>1. x \in Direction /\ x # d
  BY OtherSide
<1>2. SentSized(x) /\ InOrder(x)
  BY <1>1 DEF StreamInv
<1>3. reader[d].phase = "body" /\ wire[d] # <<>>
  BY ReadBodySplit
<1> HIDE DEF x
<1>4. /\ wire'[x] = wire[x] /\ resuming'[x] = resuming[x] /\ reader'[x] = reader[x]
      /\ received'[x] = received[x]
  <2> DEFINE rest == SubSeq(wire[d], Taken(d) + 1, Len(wire[d]))
             next == [reader[d] EXCEPT !.readBuf = Longer(d)]
  <2>1. wire' = [wire EXCEPT ![d] = rest] /\ UNCHANGED <<plan, resuming>>
    BY ReadBodySplit
  <2>2. \/ reader' = [reader EXCEPT ![d] = AtHeader]
        \/ reader' = [reader EXCEPT ![d] = next]
    BY ReadBodySplit
  <2>3. \/ received' = [received EXCEPT ![d] = Append(received[d], Longer(d))]
        \/ received' = received
    BY ReadBodySplit DEF OnMessage, Put
  <2> HIDE DEF rest, next
  <2> QED
    BY <1>1, <2>1, <2>2, <2>3 DEF TypeInv
<1>5. \/ Taken(d) = Missing(d) /\ AsyncWrite(x, AnswerTo(x, Longer(d)))
      \/ UNCHANGED <<queued, sent, contended>>
  BY ReadBodySplit DEF OnMessage, x
<1>6. CASE UNCHANGED <<queued, sent, contended>>
  <2>1. queued'[x] = queued[x] /\ sent'[x] = sent[x] /\ contended'[x] = contended[x]
    BY <1>6
  <2>2. SentSized(x)' /\ InOrder(x)'
    BY <1>1, <1>2, <1>4, <2>1, StreamAlone
  <2> QED
    BY <2>2 DEF x
<1>7. CASE Taken(d) = Missing(d) /\ AsyncWrite(x, AnswerTo(x, Longer(d)))
  <2> DEFINE m == AnswerTo(x, Longer(d))
  <2>1. m \in Message /\ Sized(m)
    <3>1. Longer(d) \in Message
      BY <1>3, <1>7, CompleteIsMessage
    <3> QED
      BY <1>1, <3>1, AnswerToAnswers
  <2>2. AsyncWrite(x, m)
    BY <1>7
  <2> HIDE DEF m
  <2>3. SentSized(x)' /\ InOrder(x)'
    BY <1>1, <1>2, <1>4, <2>1, <2>2, AsyncWriteStreams
  <2> QED
    BY <2>3 DEF x
<1> QED
  BY <1>5, <1>6, <1>7

LEMMA SendStreams ==
  ASSUME TypeInv, StreamInv, NEW d \in Direction, Send(d)
  PROVE  SentSized(d)' /\ InOrder(d)'
<1>1. plan[d] \in Seq(Item) /\ plan[d] # <<>>
  BY DEF TypeInv, Send
<1>2. Head(plan[d]) \in Item
  BY <1>1, HeadTailProperties
<1> DEFINE m == RequestFor(d, Head(plan[d]))
<1>3. m \in Message /\ Sized(m)
  BY <1>2, RequestForAsks DEF Asks
<1>4. AsyncWrite(d, m) /\ UNCHANGED <<resuming, wire, reader, received>>
  BY DEF Send
<1> HIDE DEF m
<1>5. SentSized(d) /\ InOrder(d)
  BY DEF StreamInv
<1> QED
  BY <1>3, <1>4, <1>5, AsyncWriteStreams

LEMMA StreamInvStep ==
  ASSUME TypeInv, StreamInv, [Next]_vars
  PROVE  StreamInv'
<1> SUFFICES ASSUME NEW x \in Direction PROVE SentSized(x)' /\ InOrder(x)'
  BY DEF StreamInv
<1>1. SentSized(x) /\ InOrder(x)
  BY DEF StreamInv
<1>2. CASE UNCHANGED vars
  <2>1. /\ sent'[x] = sent[x] /\ queued'[x] = queued[x] /\ resuming'[x] = resuming[x]
        /\ wire'[x] = wire[x] /\ reader'[x] = reader[x] /\ received'[x] = received[x]
        /\ contended'[x] = contended[x]
    BY <1>2 DEF vars
  <2> QED
    BY <1>1, <2>1, StreamAlone
<1>3. ASSUME NEW d \in Direction, Send(d) \/ WritePart(d) \/ WriteResumes(d) \/ ReadHeader(d)
      PROVE  SentSized(x)' /\ InOrder(x)'
  <2>1. CASE x = d
    BY <1>3, <2>1, SendStreams, WritePartStreams, WriteResumesStreams, ReadHeaderStreams
  <2>2. CASE x # d
    <3> DEFINE Alone == /\ sent'[x] = sent[x] /\ queued'[x] = queued[x]
                        /\ resuming'[x] = resuming[x] /\ wire'[x] = wire[x]
                        /\ reader'[x] = reader[x] /\ received'[x] = received[x]
                        /\ contended'[x] = contended[x]
    <3>1. CASE Send(d)
      <4>1. \E m : AsyncWrite(d, m) /\ UNCHANGED <<resuming, wire, reader, received>>
        BY <3>1 DEF Send
      <4>2. Alone
        BY <2>2, <4>1 DEF AsyncWrite, Put, TypeInv
      <4> QED
        BY <1>1, <4>2, StreamAlone
    <3>2. CASE WritePart(d)
      <4>1. Alone
        BY <2>2, <3>2 DEF WritePart, Put, TypeInv
      <4> QED
        BY <1>1, <4>1, StreamAlone
    <3>3. CASE WriteResumes(d)
      <4>1. Alone
        BY <2>2, <3>3 DEF WriteResumes, Put, TypeInv
      <4> QED
        BY <1>1, <4>1, StreamAlone
    <3>4. CASE ReadHeader(d)
      <4>1. Alone
        BY <2>2, <3>4 DEF ReadHeader, TypeInv
      <4> QED
        BY <1>1, <4>1, StreamAlone
    <3> QED
      BY <1>3, <3>1, <3>2, <3>3, <3>4
  <2> QED
    BY <2>1, <2>2
<1>4. ASSUME NEW d \in Direction, ReadBody(d) PROVE SentSized(x)' /\ InOrder(x)'
  <2>1. x = d \/ x = Other(d)
    BY DEF Direction, Other
  <2> QED
    BY <1>4, <2>1, ReadBodyStreams, ReadBodyAnswers
<1> QED
  BY <1>2, <1>3, <1>4 DEF Next, ReadStep

\* What is on its way between two sides is what was written and not read, in
\* order, as long as no message is in parts beside another.
THEOREM StreamInvariance == Spec => []StreamInv
<1>1. Init => StreamInv
  <2> SUFFICES ASSUME Init, NEW d \in Direction PROVE SentSized(d) /\ InOrder(d)
    BY DEF StreamInv
  <2>1. /\ sent[d] = <<>> /\ queued[d] = <<>> /\ resuming[d] = <<>> /\ wire[d] = <<>>
        /\ received[d] = <<>> /\ reader[d] = AtHeader
    BY DEF Init
  <2>2. SentSized(d)
    BY <2>1 DEF SentSized
  <2> QED
    BY <2>1, <2>2, StreamBegins DEF InOrder, Streams
<1>2. TypeInv /\ StreamInv /\ [Next]_vars => StreamInv'
  BY StreamInvStep
<1> QED
  BY <1>1, <1>2, TypeInvariance, PTL DEF Spec

\* Every message that is given to asyncWrite is shorter than 2^24 bytes.
Fits == \A d \in Direction : FitsIn(d)

\* WholeMessages: whatever the parts and the reads, and whoever writes, what
\* onMessage is given is what asyncWrite was, in order, once and unchanged, as
\* long as no message is cut while another waits, and no length is too long for
\* the header.
THEOREM WholeWhileFitting == Spec => [](Fits => WholeMessages)
<1>1. TypeInv /\ StreamInv => (Fits => WholeMessages)
  <2> SUFFICES ASSUME TypeInv, StreamInv, Fits, NEW d \in Direction, ~contended[d]
               PROVE  IsPrefix(received[d], sent[d]) /\ reader[d].phase # "failed"
    BY DEF WholeMessages
  <2>1. Stream(sent[d], queued[d], resuming[d], wire[d], reader[d], received[d])
    BY DEF StreamInv, InOrder, Fits, Streams
  <2> QED
    BY <2>1, TypeInvTyped, StreamReads
<1> QED
  BY <1>1, TypeInvariance, StreamInvariance, PTL

\* WritesAreWhole: every message that is read is one that was written, until a
\* message is cut while another waits.  That is the only way in which two
\* threads that send can be mixed up: the write queue keeps them apart
\* otherwise.
THEOREM WritesAreWholeWhileApart ==
  Spec => [](Fits /\ Clean => WritesAreWhole)
<1>1. TypeInv /\ WholeMessages /\ Clean => WritesAreWhole
  <2> SUFFICES ASSUME TypeInv, WholeMessages, Clean,
                      NEW d \in Direction, NEW i \in 1 .. Len(received[d])
               PROVE  \E j \in 1 .. Len(sent[d]) : received[d][i] = sent[d][j]
    BY DEF WritesAreWhole
  <2>1. IsPrefix(received[d], sent[d])
    BY DEF WholeMessages, Clean
  <2> QED
    BY <2>1 DEF IsPrefix
<1> QED
  BY <1>1, TypeInvariance, WholeWhileFitting, PTL

(***************************************************************************)
(* Requests and answers.  The first message of each direction is half of   *)
(* the capability exchange, so that whatever else is read is read by a     *)
(* Peer that is Open, and no request is passed over.                       *)
(***************************************************************************)
LEMMA SelectedAppend ==
  ASSUME NEW ms \in Seq(Message), NEW m \in Message
  PROVE  /\ Requests(ms) \in Seq(Message) /\ Answers(ms) \in Seq(Message)
         /\ Requests(Append(ms, m)) =
              IF IsRequest(m) THEN Append(Requests(ms), m) ELSE Requests(ms)
         /\ Answers(Append(ms, m)) =
              IF IsRequest(m) THEN Answers(ms) ELSE Append(Answers(ms), m)
<1> DEFINE more == Append(ms, m)
           asks(s) == {i \in 1 .. Len(s) : IsRequest(s[i])}
           tells(s) == {i \in 1 .. Len(s) : ~IsRequest(s[i])}
<1>1. /\ Len(ms) \in Nat /\ Len(more) = Len(ms) + 1 /\ more[Len(ms) + 1] = m
      /\ \A i \in 1 .. Len(ms) : more[i] = ms[i]
  OBVIOUS
<1> HIDE DEF more
<1>2. \A i \in 1 .. Len(ms) : i \in 1 .. Len(more)
  BY <1>1
<1>3. Len(ms) + 1 \in 1 .. Len(more)
  BY <1>1
<1>4. \A i \in 1 .. Len(ms) : i \in asks(more) <=> i \in asks(ms)
  BY <1>1, <1>2
<1>5. \A i \in 1 .. Len(ms) : i \in tells(more) <=> i \in tells(ms)
  BY <1>1, <1>2
<1>6. Len(ms) + 1 \in asks(more) <=> IsRequest(m)
  BY <1>1, <1>3
<1>7. Len(ms) + 1 \in tells(more) <=> ~IsRequest(m)
  BY <1>1, <1>3
<1>8. /\ Requests(ms) = At(ms, asks(ms)) /\ Requests(more) = At(more, asks(more))
      /\ Answers(ms) = At(ms, tells(ms)) /\ Answers(more) = At(more, tells(more))
  BY DEF Requests, Answers
<1> HIDE DEF asks, tells
<1>9. At(more, asks(more)) =
        IF Len(ms) + 1 \in asks(more) THEN Append(At(ms, asks(ms)), m) ELSE At(ms, asks(ms))
  BY <1>4, AtAppend DEF more
<1>10. At(more, tells(more)) =
         IF Len(ms) + 1 \in tells(more) THEN Append(At(ms, tells(ms)), m) ELSE At(ms, tells(ms))
  BY <1>5, AtAppend DEF more
<1>11. Requests(ms) \in Seq(Message) /\ Answers(ms) \in Seq(Message)
  BY <1>8, AtType
<1> QED
  BY <1>6, <1>7, <1>8, <1>9, <1>10, <1>11 DEF more

\* What a step does to what is sent and received: it sends a request, ...
Sends(d) ==
  /\ plan[d] # <<>> /\ (Open(d) \/ (d = "there" /\ sent[d] = <<>>))
  /\ plan' = [plan EXCEPT ![d] = Tail(plan[d])]
  /\ sent' = [sent EXCEPT ![d] = Append(sent[d], RequestFor(d, Head(plan[d])))]
  /\ received' = received

\* ... or reads a message and may answer it, ...
Answered(d, m) == IsRequest(m) /\ (Open(Other(d)) \/ CommandCode(m) \in {CER, DPR})

Reads(d, m) ==
  /\ plan' = plan
  /\ received' = [received EXCEPT ![d] = Append(received[d], m)]
  /\ sent' = IF Answered(d, m)
             THEN [sent EXCEPT ![Other(d)] = Append(sent[Other(d)], AnswerTo(Other(d), m))]
             ELSE sent

\* ... or neither.
LEMMA StepKinds ==
  ASSUME TypeInv, [Next]_vars
  PROVE  /\ \A x \in Direction : contended[x] => contended'[x]
         /\ \/ plan' = plan /\ sent' = sent /\ received' = received
            \/ \E d \in Direction : Sends(d)
            \/ \E d \in Direction : \E m \in Message : Reads(d, m)
<1> DEFINE Kept == \A x \in Direction : contended[x] => contended'[x]
           Kind == \/ plan' = plan /\ sent' = sent /\ received' = received
                   \/ \E d \in Direction : Sends(d)
                   \/ \E d \in Direction : \E m \in Message : Reads(d, m)
<1>1. ASSUME NEW d \in Direction, NEW m, AsyncWrite(d, m)
      PROVE  Kept /\ sent' = [sent EXCEPT ![d] = Append(sent[d], m)]
  <2> DEFINE cut == \E i \in 1 .. Len(Writes(d)) : Writes(d)[i].cut
  <2>1. contended' = [contended EXCEPT ![d] = @ \/ cut]
    BY <1>1 DEF AsyncWrite
  <2> HIDE DEF cut
  <2>2. Kept
    BY <2>1 DEF TypeInv
  <2> QED
    BY <1>1, <2>2 DEF AsyncWrite, Put
<1>2. CASE UNCHANGED vars
  BY <1>2 DEF vars
<1>3. ASSUME NEW d \in Direction, Send(d) PROVE Kept /\ Kind
  <2>1. Kept /\ sent' = [sent EXCEPT ![d] = Append(sent[d], RequestFor(d, Head(plan[d])))]
    BY <1>1, <1>3 DEF Send
  <2>2. Sends(d)
    BY <1>3, <2>1 DEF Send, Sends
  <2> QED
    BY <2>1, <2>2
<1>4. ASSUME NEW d \in Direction, WritePart(d) PROVE Kept /\ Kind
  <2> DEFINE many == Len(Writes(d)) > 1
  <2>1. plan' = plan /\ sent' = sent /\ received' = received
    BY <1>4 DEF WritePart
  <2>2. contended' = contended \/ contended' = [contended EXCEPT ![d] = @ \/ many]
    BY <1>4 DEF WritePart
  <2> HIDE DEF many
  <2>3. Kept
    BY <2>2 DEF TypeInv
  <2> QED
    BY <2>1, <2>3
<1>5. ASSUME NEW d \in Direction, WriteResumes(d) \/ ReadHeader(d) PROVE Kept /\ Kind
  BY <1>5 DEF WriteResumes, ReadHeader
<1>6. ASSUME NEW d \in Direction, ReadBody(d) PROVE Kept /\ Kind
  <2>1. reader[d].phase = "body" /\ wire[d] # <<>> /\ plan' = plan
    BY <1>6, ReadBodySplit
  <2>2. CASE Taken(d) = Missing(d)
    <3> DEFINE m == Longer(d)
    <3>1. OnMessage(d, m) /\ m \in Message
      BY <1>6, <2>1, <2>2, ReadBodySplit, CompleteIsMessage
    <3> HIDE DEF m
    <3>2. received' = [received EXCEPT ![d] = Append(received[d], m)]
      BY <3>1 DEF OnMessage, Put
    <3>3. CASE Answered(d, m)
      <4>1. AsyncWrite(Other(d), AnswerTo(Other(d), m)) /\ Other(d) \in Direction
        BY <3>1, <3>3, OtherSide DEF OnMessage, Answered
      <4>2. Kept
            /\ sent' = [sent EXCEPT ![Other(d)] = Append(sent[Other(d)], AnswerTo(Other(d), m))]
        BY <1>1, <4>1
      <4>3. Reads(d, m)
        BY <2>1, <3>2, <3>3, <4>2 DEF Reads
      <4> QED
        BY <3>1, <4>2, <4>3
    <3>4. CASE ~Answered(d, m)
      <4>1. sent' = sent /\ contended' = contended
        BY <3>1, <3>4 DEF OnMessage, Answered
      <4>2. Reads(d, m)
        BY <2>1, <3>2, <3>4, <4>1 DEF Reads
      <4> QED
        BY <3>1, <4>1, <4>2
    <3> QED
      BY <3>3, <3>4
  <2>3. CASE Taken(d) # Missing(d)
    <3>1. UNCHANGED <<queued, sent, received, contended>>
      BY <1>6, <2>3, ReadBodySplit
    <3> QED
      BY <2>1, <3>1
  <2> QED
    BY <2>2, <2>3
<1> QED
  BY <1>2, <1>3, <1>4, <1>5, <1>6 DEF Next, ReadStep

\* The first of the messages, when one is put behind them.
LEMMA AppendFirst ==
  ASSUME NEW ms \in Seq(Message), NEW m \in Message
  PROVE  /\ Append(ms, m) \in Seq(Message) /\ Len(Append(ms, m)) = Len(ms) + 1
         /\ Append(ms, m)[Len(ms) + 1] = m
         /\ \A i \in 1 .. Len(ms) : Append(ms, m)[i] = ms[i]
         /\ Len(ms) \in Nat /\ Len(Append(ms, m)) > 0
         /\ Len(ms) = 0 => Append(ms, m)[1] = m
         /\ Len(ms) > 0 => Append(ms, m)[1] = ms[1]
<1>1. /\ Append(ms, m) \in Seq(Message) /\ Len(Append(ms, m)) = Len(ms) + 1
      /\ Append(ms, m)[Len(ms) + 1] = m
      /\ \A i \in 1 .. Len(ms) : Append(ms, m)[i] = ms[i]
      /\ Len(ms) \in Nat
  OBVIOUS
<1> QED
  BY <1>1

Good == Clean /\ Fits

\* What is read is what is written, as the stream has it.
ReceivedSent ==
  \A d \in Direction :
    /\ Len(received[d]) <= Len(sent[d])
    /\ \A i \in 1 .. Len(received[d]) : received[d][i] = sent[d][i]

ReceivedInv == Good => ReceivedSent

LEMMA ReceivedInvariance == Spec => []ReceivedInv
<1>1. TypeInv /\ StreamInv => ReceivedInv
  <2> SUFFICES ASSUME TypeInv, StreamInv, Good, NEW d \in Direction
               PROVE  /\ Len(received[d]) <= Len(sent[d])
                      /\ \A i \in 1 .. Len(received[d]) : received[d][i] = sent[d][i]
    BY DEF ReceivedInv, ReceivedSent
  <2>1. Stream(sent[d], queued[d], resuming[d], wire[d], reader[d], received[d])
    BY DEF StreamInv, InOrder, Good, Clean, Fits, Streams
  <2> QED
    BY <2>1 DEF Stream, Got
<1> QED
  BY <1>1, TypeInvariance, StreamInvariance, PTL

\* What is in order was.
LEMMA GoodKept ==
  ASSUME TypeInv, [Next]_vars, Good'
  PROVE  Good
<1>1. Clean
  BY StepKinds DEF Good, Clean
<1>2. ASSUME NEW x \in Direction PROVE FitsIn(x)
  <2>1. FitsIn(x)'
    BY DEF Good, Fits
  <2>2. sent[x] \in Seq(Message)
    BY DEF TypeInv
  <2>3. sent'[x] = sent[x] \/ \E m \in Message : sent'[x] = Append(sent[x], m)
    <3>1. ASSUME NEW d \in Direction, Sends(d)
          PROVE  sent'[x] = sent[x] \/ \E m \in Message : sent'[x] = Append(sent[x], m)
      <4>1. plan[d] \in Seq(Item) /\ plan[d] # <<>>
        BY <3>1 DEF TypeInv, Sends
      <4>2. Head(plan[d]) \in Item
        BY <4>1, HeadTailProperties
      <4> DEFINE m == RequestFor(d, Head(plan[d]))
      <4>3. m \in Message
        BY <4>2, RequestForAsks DEF Asks
      <4>4. sent' = [sent EXCEPT ![d] = Append(sent[d], m)]
        BY <3>1 DEF Sends
      <4> HIDE DEF m
      <4> QED
        BY <4>3, <4>4 DEF TypeInv
    <3>2. ASSUME NEW d \in Direction, NEW n \in Message, Reads(d, n)
          PROVE  sent'[x] = sent[x] \/ \E m \in Message : sent'[x] = Append(sent[x], m)
      <4> DEFINE m == AnswerTo(Other(d), n)
      <4>1. Other(d) \in Direction
        BY OtherSide
      <4>2. m \in Message
        BY <4>1, AnswerToAnswers
      <4>3. sent' = sent \/ sent' = [sent EXCEPT ![Other(d)] = Append(sent[Other(d)], m)]
        BY <3>2 DEF Reads
      <4> HIDE DEF m
      <4> QED
        BY <4>1, <4>2, <4>3 DEF TypeInv
    <3> QED
      BY <3>1, <3>2, StepKinds
  <2>4. ASSUME NEW i \in 1 .. Len(sent[x]) PROVE 4 * Len(sent[x][i]) < HighBit
    <3>1. CASE sent'[x] = sent[x]
      BY <2>1, <3>1 DEF FitsIn
    <3>2. ASSUME NEW m \in Message, sent'[x] = Append(sent[x], m)
          PROVE  4 * Len(sent[x][i]) < HighBit
      <4>1. sent'[x][i] = sent[x][i] /\ i \in 1 .. Len(sent'[x])
        BY <2>2, <3>2
      <4>2. 4 * Len(sent'[x][i]) < HighBit
        BY <2>1, <4>1 DEF FitsIn
      <4> QED
        BY <4>1, <4>2
    <3> QED
      BY <2>3, <3>1, <3>2
  <2> QED
    BY <2>4 DEF FitsIn
<1> QED
  BY <1>1, <1>2 DEF Good, Fits

\* Every request that is sent has identifiers.
Asking ==
  \A d \in Direction : \A i \in 1 .. Len(sent[d]) : IsRequest(sent[d][i]) => Asks(sent[d][i])

LEMMA AskingStep ==
  ASSUME TypeInv, Asking, [Next]_vars
  PROVE  Asking'
<1>1. ASSUME NEW d \in Direction, NEW m \in Message, IsRequest(m) => Asks(m),
             sent' = [sent EXCEPT ![d] = Append(sent[d], m)]
      PROVE  Asking'
  <2>1. sent[d] \in Seq(Message)
    BY DEF TypeInv
  <2>2. ASSUME NEW x \in Direction, NEW i \in 1 .. Len(sent'[x]), IsRequest(sent'[x][i])
        PROVE  Asks(sent'[x][i])
    <3>1. CASE x # d
      <4>1. sent'[x] = sent[x]
        BY <1>1, <3>1 DEF TypeInv
      <4> QED
        BY <2>2, <4>1 DEF Asking
    <3>2. CASE x = d
      <4>1. sent'[d] = Append(sent[d], m)
        BY <1>1 DEF TypeInv
      <4>2. /\ Len(Append(sent[d], m)) = Len(sent[d]) + 1 /\ Append(sent[d], m)[Len(sent[d]) + 1] = m
            /\ \A j \in 1 .. Len(sent[d]) : Append(sent[d], m)[j] = sent[d][j]
            /\ Len(sent[d]) \in Nat
        BY <2>1, AppendFirst
      <4>3. CASE i = Len(sent[d]) + 1
        BY <1>1, <2>2, <3>2, <4>1, <4>2, <4>3
      <4>4. CASE i # Len(sent[d]) + 1
        <5>1. i \in 1 .. Len(sent[d])
          BY <3>2, <4>1, <4>2, <4>4
        <5>2. sent'[x][i] = sent[d][i]
          BY <3>2, <4>1, <4>2, <5>1
        <5> QED
          BY <2>2, <5>1, <5>2 DEF Asking
      <4> QED
        BY <4>3, <4>4
    <3> QED
      BY <3>1, <3>2
  <2> QED
    BY <2>2 DEF Asking
<1>2. CASE sent' = sent
  BY <1>2 DEF Asking
<1>3. ASSUME NEW d \in Direction, Sends(d) PROVE Asking'
  <2>1. plan[d] \in Seq(Item) /\ plan[d] # <<>>
    BY <1>3 DEF TypeInv, Sends
  <2>2. Head(plan[d]) \in Item
    BY <2>1, HeadTailProperties
  <2> DEFINE m == RequestFor(d, Head(plan[d]))
  <2>3. Asks(m)
    BY <2>2, RequestForAsks
  <2>4. sent' = [sent EXCEPT ![d] = Append(sent[d], m)]
    BY <1>3 DEF Sends
  <2> HIDE DEF m
  <2>5. m \in Message
    BY <2>3 DEF Asks
  <2> QED
    BY <1>1, <2>3, <2>4, <2>5
<1>4. ASSUME NEW d \in Direction, NEW n \in Message, Reads(d, n) PROVE Asking'
  <2> DEFINE m == AnswerTo(Other(d), n)
  <2>1. Other(d) \in Direction
    BY OtherSide
  <2>2. m \in Message /\ ~IsRequest(m)
    BY <2>1, AnswerToAnswers
  <2>3. sent' = sent \/ sent' = [sent EXCEPT ![Other(d)] = Append(sent[Other(d)], m)]
    BY <1>4 DEF Reads
  <2> HIDE DEF m
  <2> QED
    BY <1>1, <1>2, <2>1, <2>2, <2>3
<1> QED
  BY <1>2, <1>3, <1>4, StepKinds

\* The client begins with its CER.
StartsWithCER == \A p \in Plans : p["there"] # <<>> => Head(p["there"]).kind = "CER"

\* The exchange: the CER is the first that the client writes, the CEA the first
\* that the server does, once it has read the CER and at once.
Opening ==
  /\ Len(sent["there"]) = 0 /\ plan["there"] # <<>> => Head(plan["there"]).kind = "CER"
  /\ Len(sent["there"]) > 0 =>
       IsRequest(sent["there"][1]) /\ CommandCode(sent["there"][1]) = CER
  /\ Len(sent["back"]) > 0 =>
       Len(received["there"]) > 0 /\ CommandCode(sent["back"][1]) = CER
  /\ Len(received["there"]) > 0 => Len(sent["back"]) > 0

LEMMA OpeningStep ==
  ASSUME TypeInv, ReceivedSent, ReceivedSent', Opening, [Next]_vars
  PROVE  Opening'
<1>1. /\ "there" \in Direction /\ "back" \in Direction /\ "there" # "back"
      /\ \A d \in Direction : d = "there" \/ d = "back"
      /\ Other("there") = "back" /\ Other("back") = "there"
  BY DEF Direction, Other
<1>2. /\ sent["there"] \in Seq(Message) /\ sent["back"] \in Seq(Message)
      /\ received["there"] \in Seq(Message) /\ received["back"] \in Seq(Message)
  BY <1>1 DEF TypeInv
<1>3. /\ Len(sent["there"]) \in Nat /\ Len(sent["back"]) \in Nat
      /\ Len(received["there"]) \in Nat /\ Len(received["back"]) \in Nat
  BY <1>2
<1>4. CASE plan' = plan /\ sent' = sent /\ received' = received
  BY <1>4 DEF Opening
<1>5. CASE Sends("there")
  <2> DEFINE m == RequestFor("there", Head(plan["there"]))
  <2>1. plan["there"] \in Seq(Item) /\ plan["there"] # <<>>
    BY <1>1, <1>5 DEF TypeInv, Sends
  <2>2. Head(plan["there"]) \in Item
    BY <2>1, HeadTailProperties
  <2>3. Asks(m) /\ (Head(plan["there"]).kind = "CER" => CommandCode(m) = CER)
    BY <1>1, <2>2, RequestForAsks
  <2>4. sent' = [sent EXCEPT !["there"] = Append(sent["there"], m)] /\ received' = received
    BY <1>5 DEF Sends
  <2> HIDE DEF m
  <2>5. sent'["there"] = Append(sent["there"], m) /\ sent'["back"] = sent["back"]
    BY <1>1, <2>4 DEF TypeInv
  <2>6. m \in Message /\ IsRequest(m)
    BY <2>3 DEF Asks
  <2>7. Len(sent'["there"]) > 0 /\ Len(sent'["there"]) = Len(sent["there"]) + 1
        /\ (Len(sent["there"]) = 0 => sent'["there"][1] = m)
        /\ (Len(sent["there"]) > 0 => sent'["there"][1] = sent["there"][1])
    BY <1>2, <2>5, <2>6, AppendFirst
  <2>8. IsRequest(sent'["there"][1]) /\ CommandCode(sent'["there"][1]) = CER
    <3>1. CASE Len(sent["there"]) = 0
      BY <2>1, <2>3, <2>6, <2>7, <3>1 DEF Opening
    <3>2. CASE Len(sent["there"]) > 0
      BY <2>7, <3>2 DEF Opening
    <3> QED
      BY <1>3, <3>1, <3>2
  <2>9. ~ (Len(sent'["there"]) = 0)
    BY <1>3, <2>7
  <2> QED
    BY <2>4, <2>5, <2>8, <2>9 DEF Opening
<1>6. CASE Sends("back")
  <2> DEFINE m == RequestFor("back", Head(plan["back"]))
  <2>1. plan["back"] \in Seq(Item) /\ plan["back"] # <<>>
    BY <1>1, <1>6 DEF TypeInv, Sends
  <2>2. Head(plan["back"]) \in Item
    BY <2>1, HeadTailProperties
  <2>3. m \in Message
    BY <1>1, <2>2, RequestForAsks DEF Asks
  <2>4. /\ sent' = [sent EXCEPT !["back"] = Append(sent["back"], m)] /\ received' = received
        /\ plan' = [plan EXCEPT !["back"] = Tail(plan["back"])] /\ Open("back")
    BY <1>1, <1>6 DEF Sends
  <2> HIDE DEF m
  <2>5. /\ sent'["back"] = Append(sent["back"], m) /\ sent'["there"] = sent["there"]
        /\ plan'["there"] = plan["there"]
    BY <1>1, <2>4 DEF TypeInv
  <2>6. Len(received["there"]) > 0
    BY <1>1, <1>3, <2>4 DEF Open
  <2>7. Len(sent["back"]) > 0
    BY <2>6 DEF Opening
  <2>8. Len(sent'["back"]) > 0 /\ sent'["back"][1] = sent["back"][1]
    BY <1>2, <2>3, <2>5, <2>7, AppendFirst
  <2> QED
    BY <2>4, <2>5, <2>6, <2>7, <2>8 DEF Opening
<1>7. ASSUME NEW m \in Message, Reads("there", m) PROVE Opening'
  <2> DEFINE a == AnswerTo("back", m)
  <2>1. a \in Message /\ CommandCode(a) = CommandCode(m)
    BY <1>1, AnswerToAnswers
  <2>2. /\ plan' = plan /\ received' = [received EXCEPT !["there"] = Append(received["there"], m)]
        /\ sent' = IF Answered("there", m)
                   THEN [sent EXCEPT !["back"] = Append(sent["back"], a)] ELSE sent
    BY <1>1, <1>7 DEF Reads
  <2> HIDE DEF a
  <2>3. received'["there"] = Append(received["there"], m) /\ sent'["there"] = sent["there"]
        /\ sent'["back"] = (IF Answered("there", m) THEN Append(sent["back"], a) ELSE sent["back"])
    BY <1>1, <2>2 DEF TypeInv
  <2>4. /\ Len(received'["there"]) > 0
        /\ Len(received["there"]) = 0 => received'["there"][1] = m
    BY <1>2, <2>3, AppendFirst
  <2>5. Len(sent["there"]) > 0 /\ received'["there"][1] = sent["there"][1]
    <3>1. /\ Len(received'["there"]) <= Len(sent["there"])
          /\ \A i \in 1 .. Len(received'["there"]) : received'["there"][i] = sent["there"][i]
      BY <1>1, <2>3 DEF ReceivedSent
    <3>2. Len(received'["there"]) \in Nat
      BY <1>2, <2>3, AppendFirst
    <3> QED
      BY <1>3, <2>4, <3>1, <3>2
  <2>6. IsRequest(sent["there"][1]) /\ CommandCode(sent["there"][1]) = CER
    BY <2>5 DEF Opening
  <2>7. Len(sent'["back"]) > 0 /\ CommandCode(sent'["back"][1]) = CER
    <3>1. CASE Len(sent["back"]) > 0
      <4>1. CommandCode(sent["back"][1]) = CER
        BY <3>1 DEF Opening
      <4>2. Len(Append(sent["back"], a)) > 0 /\ Append(sent["back"], a)[1] = sent["back"][1]
        BY <1>2, <2>1, <3>1, AppendFirst
      <4> QED
        BY <2>3, <3>1, <4>1, <4>2
    <3>2. CASE Len(sent["back"]) = 0
      <4>1. Len(received["there"]) = 0
        <5>1. ~ (Len(sent["back"]) > 0)
          BY <3>2
        <5>2. ~ (Len(received["there"]) > 0)
          BY <5>1 DEF Opening
        <5> QED
          BY <1>3, <5>2
      <4>2. IsRequest(m) /\ CommandCode(m) = CER
        BY <2>4, <2>5, <2>6, <4>1
      <4>3. Answered("there", m)
        BY <4>2 DEF Answered
      <4>4. Len(Append(sent["back"], a)) > 0 /\ Append(sent["back"], a)[1] = a
        BY <1>2, <2>1, <3>2, AppendFirst
      <4> QED
        BY <2>1, <2>3, <4>2, <4>3, <4>4
    <3> QED
      BY <1>3, <3>1, <3>2
  <2>8. plan'["there"] = plan["there"]
    BY <2>2
  <2> QED
    BY <2>3, <2>4, <2>6, <2>7, <2>8 DEF Opening
<1>8. ASSUME NEW m \in Message, Reads("back", m) PROVE Opening'
  <2> DEFINE a == AnswerTo("there", m)
  <2>1. a \in Message
    BY <1>1, AnswerToAnswers
  <2>2. /\ plan' = plan /\ received' = [received EXCEPT !["back"] = Append(received["back"], m)]
        /\ sent' = IF Answered("back", m)
                   THEN [sent EXCEPT !["there"] = Append(sent["there"], a)] ELSE sent
    BY <1>1, <1>8 DEF Reads
  <2> HIDE DEF a
  <2>3. /\ received'["back"] = Append(received["back"], m)
        /\ received'["there"] = received["there"] /\ sent'["back"] = sent["back"]
        /\ sent'["there"] = (IF Answered("back", m) THEN Append(sent["there"], a) ELSE sent["there"])
    BY <1>1, <2>2 DEF TypeInv
  <2>4. Len(received'["back"]) > 0 /\ Len(received'["back"]) \in Nat
    BY <1>2, <2>3, AppendFirst
  <2>5. Len(sent["back"]) > 0
    <3>1. Len(received'["back"]) <= Len(sent["back"])
      BY <1>1, <2>3 DEF ReceivedSent
    <3> QED
      BY <1>3, <2>4, <3>1
  <2>6. Len(received["there"]) > 0
    BY <2>5 DEF Opening
  <2>7. Len(sent["there"]) > 0
    <3>1. Len(received["there"]) <= Len(sent["there"])
      BY <1>1 DEF ReceivedSent
    <3> QED
      BY <1>3, <2>6, <3>1
  <2>8. /\ Len(Append(sent["there"], a)) > 0
        /\ Append(sent["there"], a)[1] = sent["there"][1]
    BY <1>2, <2>1, <2>7, AppendFirst
  <2>9. Len(sent'["there"]) > 0 /\ sent'["there"][1] = sent["there"][1]
    BY <2>3, <2>7, <2>8
  <2>10. ~ (Len(sent'["there"]) = 0)
    BY <2>9
  <2> QED
    BY <2>3, <2>5, <2>6, <2>7, <2>9, <2>10 DEF Opening
<1> QED
  BY <1>1, <1>4, <1>5, <1>6, <1>7, <1>8, StepKinds

\* An answer for its request, and answers for requests.
AnswerOf(a, m) ==
  /\ HopByHop(a) = HopByHop(m) /\ EndToEnd(a) = EndToEnd(m)
  /\ CommandCode(a) = CommandCode(m) /\ ApplicationId(a) = ApplicationId(m)

AnswersOf(answers, requests) ==
  /\ Len(answers) = Len(requests)
  /\ \A n \in 1 .. Len(requests) : AnswerOf(answers[n], requests[n])

LEMMA AnswersOfAppend ==
  ASSUME NEW requests \in Seq(Message), NEW answers \in Seq(Message), AnswersOf(answers, requests),
         NEW m \in Message, NEW a \in Message, AnswerOf(a, m)
  PROVE  AnswersOf(Append(answers, a), Append(requests, m))
<1>1. Len(requests) \in Nat /\ Len(answers) = Len(requests)
  BY DEF AnswersOf
<1>2. /\ Len(Append(requests, m)) = Len(requests) + 1
      /\ Append(requests, m)[Len(requests) + 1] = m
      /\ \A i \in 1 .. Len(requests) : Append(requests, m)[i] = requests[i]
  BY AppendFirst
<1>3. /\ Len(Append(answers, a)) = Len(requests) + 1
      /\ Append(answers, a)[Len(requests) + 1] = a
      /\ \A i \in 1 .. Len(requests) : Append(answers, a)[i] = answers[i]
  BY <1>1, AppendFirst
<1>4. ASSUME NEW n \in 1 .. (Len(requests) + 1)
      PROVE  AnswerOf(Append(answers, a)[n], Append(requests, m)[n])
  <2>1. CASE n = Len(requests) + 1
    BY <1>2, <1>3, <2>1
  <2>2. CASE n # Len(requests) + 1
    <3>1. n \in 1 .. Len(requests)
      BY <1>1, <2>2
    <3> QED
      BY <1>2, <1>3, <3>1 DEF AnswersOf
  <2> QED
    BY <2>1, <2>2
<1> QED
  BY <1>2, <1>3, <1>4 DEF AnswersOf

Correlated == \A d \in Direction : AnswersOf(Answers(sent[Other(d)]), Requests(received[d]))

LEMMA CorrelatedStep ==
  ASSUME TypeInv, ReceivedSent, ReceivedSent', Opening, Asking, Correlated, [Next]_vars
  PROVE  Correlated'
<1>1. CASE plan' = plan /\ sent' = sent /\ received' = received
  BY <1>1 DEF Correlated
<1>2. ASSUME NEW d \in Direction, Sends(d) PROVE Correlated'
  <2>1. plan[d] \in Seq(Item) /\ plan[d] # <<>>
    BY <1>2 DEF TypeInv, Sends
  <2>2. Head(plan[d]) \in Item
    BY <2>1, HeadTailProperties
  <2> DEFINE m == RequestFor(d, Head(plan[d]))
  <2>3. m \in Message /\ IsRequest(m)
    BY <2>2, RequestForAsks DEF Asks
  <2>4. sent' = [sent EXCEPT ![d] = Append(sent[d], m)] /\ received' = received
    BY <1>2 DEF Sends
  <2> HIDE DEF m
  <2>5. Answers(Append(sent[d], m)) = Answers(sent[d])
    <3>1. sent[d] \in Seq(Message)
      BY DEF TypeInv
    <3> QED
      BY <2>3, <3>1, SelectedAppend
  <2>6. ASSUME NEW x \in Direction PROVE Answers(sent'[Other(x)]) = Answers(sent[Other(x)])
    <3>1. Other(x) \in Direction
      BY OtherSide
    <3>2. sent'[Other(x)] = IF Other(x) = d THEN Append(sent[d], m) ELSE sent[Other(x)]
      BY <2>4, <3>1 DEF TypeInv
    <3> QED
      BY <2>5, <3>2
  <2> QED
    BY <2>4, <2>6 DEF Correlated
<1>3. ASSUME NEW d \in Direction, NEW m \in Message, Reads(d, m) PROVE Correlated'
  <2> DEFINE o == Other(d)
             a == AnswerTo(o, m)
  <2>1. o \in Direction /\ o # d /\ Other(o) = d /\ \A x \in Direction : x = d \/ x = o
    BY DEF Other, Direction
  <2> HIDE DEF o
  <2>2. /\ a \in Message /\ ~IsRequest(a) /\ CommandCode(a) = CommandCode(m)
        /\ HopByHop(m) # 0 => HopByHop(a) = HopByHop(m)
        /\ EndToEnd(m) # 0 => EndToEnd(a) = EndToEnd(m)
        /\ (CommandCode(m) \in Base => ApplicationId(m) = 0) => ApplicationId(a) = ApplicationId(m)
    BY <2>1, AnswerToAnswers
  <2>3. /\ received' = [received EXCEPT ![d] = Append(received[d], m)]
        /\ sent' = IF Answered(d, m) THEN [sent EXCEPT ![o] = Append(sent[o], a)] ELSE sent
    BY <1>3 DEF Reads, o
  <2> HIDE DEF a
  <2>4. /\ received'[d] = Append(received[d], m) /\ received'[o] = received[o] /\ sent'[d] = sent[d]
        /\ sent'[o] = IF Answered(d, m) THEN Append(sent[o], a) ELSE sent[o]
    BY <2>1, <2>3 DEF TypeInv
  <2>5. /\ sent[o] \in Seq(Message) /\ sent[d] \in Seq(Message) /\ received[d] \in Seq(Message)
    BY <2>1 DEF TypeInv
  <2> DEFINE n == Len(received[d]) + 1
  <2>6. /\ n \in 1 .. Len(sent[d]) /\ m = sent[d][n] /\ Len(received[d]) \in Nat
        /\ Len(sent[d]) \in Nat /\ n >= 1
    <3>1. Len(received'[d]) = n /\ received'[d][n] = m /\ Len(received[d]) \in Nat
      BY <2>4, <2>5, AppendFirst
    <3>2. /\ Len(received'[d]) <= Len(sent[d])
          /\ \A i \in 1 .. Len(received'[d]) : received'[d][i] = sent[d][i]
      BY <2>4 DEF ReceivedSent
    <3>3. Len(sent[d]) \in Nat
      BY <2>5
    <3> HIDE DEF n
    <3>4. n \in Nat /\ n >= 1
      BY <3>1 DEF n
    <3>5. n \in 1 .. Len(received'[d]) /\ n \in 1 .. Len(sent[d])
      BY <3>1, <3>2, <3>3, <3>4
    <3> QED
      BY <3>1, <3>2, <3>3, <3>4, <3>5
  <2>7. Len(sent[d]) > 0 /\ CommandCode(sent[d][1]) = CER
    <3>1. Len(sent[d]) > 0
      BY <2>6
    <3>2. d = "there" \/ d = "back"
      BY DEF Direction
    <3> QED
      BY <3>1, <3>2 DEF Opening
  <2>8. IsRequest(m) => Answered(d, m)
    <3> SUFFICES ASSUME IsRequest(m), CommandCode(m) # CER PROVE Open(o)
      BY DEF Answered, o
    <3>1. n # 1
      BY <2>6, <2>7
    <3>2. 1 \in 1 .. Len(received[d])
      BY <2>6, <3>1
    <3>3. received[d][1] = sent[d][1]
      BY <3>2 DEF ReceivedSent
    <3> QED
      BY <2>1, <2>7, <3>2, <3>3 DEF Open
  <2>9. AnswersOf(Answers(sent[o]), Requests(received[d]))
        /\ AnswersOf(Answers(sent[d]), Requests(received[o]))
    BY <2>1 DEF Correlated, o
  <2>10. AnswersOf(Answers(sent'[o]), Requests(received'[d]))
    <3>1. CASE IsRequest(m)
      <4>1. Answered(d, m)
        BY <2>8, <3>1
      <4>2. /\ Requests(received[d]) \in Seq(Message) /\ Answers(sent[o]) \in Seq(Message)
            /\ Requests(Append(received[d], m)) = Append(Requests(received[d]), m)
            /\ Answers(Append(sent[o], a)) = Append(Answers(sent[o]), a)
        BY <2>2, <2>5, <3>1, SelectedAppend
      <4>3. Asks(m)
        BY <2>6, <3>1 DEF Asking
      <4>4. AnswerOf(a, m)
        BY <2>2, <4>3 DEF Asks, AnswerOf
      <4>5. AnswersOf(Append(Answers(sent[o]), a), Append(Requests(received[d]), m))
        BY <2>2, <2>9, <4>2, <4>4, AnswersOfAppend
      <4> QED
        BY <2>4, <4>1, <4>2, <4>5
    <3>2. CASE ~IsRequest(m)
      <4>1. ~Answered(d, m)
        BY <3>2 DEF Answered
      <4>2. Requests(Append(received[d], m)) = Requests(received[d])
        BY <2>5, <3>2, SelectedAppend
      <4> QED
        BY <2>4, <2>9, <4>1, <4>2
    <3> QED
      BY <3>1, <3>2
  <2>11. AnswersOf(Answers(sent'[d]), Requests(received'[o]))
    BY <2>4, <2>9
  <2>12. ASSUME NEW x \in Direction
         PROVE  AnswersOf(Answers(sent'[Other(x)]), Requests(received'[x]))
    BY <2>1, <2>10, <2>11 DEF o
  <2> QED
    BY <2>12 DEF Correlated
<1> QED
  BY <1>1, <1>2, <1>3, StepKinds

AnswersInv == Asking /\ (Good => Opening /\ Correlated)

\* Requests that are read are answered once, in their order, under their own
\* identifiers, as detailed above.
THEOREM AnswersInvariance ==
  ASSUME StartsWithCER
  PROVE  Spec => []AnswersInv
<1>1. Init => AnswersInv
  <2> SUFFICES ASSUME Init PROVE AnswersInv
    OBVIOUS
  <2>1. /\ \A d \in Direction : sent[d] = <<>> /\ received[d] = <<>>
        /\ "there" \in Direction /\ "back" \in Direction
    BY DEF Init, Direction
  <2>2. Asking
    BY <2>1 DEF Asking
  <2>3. Opening
    <3>1. Len(sent["there"]) = 0 /\ Len(sent["back"]) = 0 /\ Len(received["there"]) = 0
      BY <2>1
    <3>2. plan["there"] # <<>> => Head(plan["there"]).kind = "CER"
      BY StartsWithCER DEF Init, StartsWithCER
    <3> QED
      BY <3>1, <3>2 DEF Opening
  <2>4. ASSUME NEW d \in Direction PROVE AnswersOf(Answers(sent[Other(d)]), Requests(received[d]))
    <3>1. Other(d) \in Direction
      BY OtherSide
    <3>2. sent[Other(d)] = <<>> /\ received[d] = <<>>
      BY <2>1, <3>1
    <3>3. \A places : At(<<>>, places) = <<>>
      <4>1. Len(<<>>) = 0
        OBVIOUS
      <4>2. \A places : UpTo(<<>>, places)[0] = <<>> /\ At(<<>>, places) = UpTo(<<>>, places)[0]
        BY <4>1, UpToSteps DEF Step
      <4> QED
        BY <4>2
    <3>4. Answers(<<>>) = <<>> /\ Requests(<<>>) = <<>>
      BY <3>3 DEF Answers, Requests
    <3>5. AnswersOf(<<>>, <<>>)
      BY DEF AnswersOf
    <3> QED
      BY <3>2, <3>4, <3>5
  <2> QED
    BY <2>2, <2>3, <2>4 DEF AnswersInv, Correlated
<1>2. TypeInv /\ ReceivedInv /\ ReceivedInv' /\ AnswersInv /\ [Next]_vars => AnswersInv'
  <2> SUFFICES ASSUME TypeInv, ReceivedInv, ReceivedInv', AnswersInv, [Next]_vars
               PROVE  AnswersInv'
    OBVIOUS
  <2>1. Asking'
    BY AskingStep DEF AnswersInv
  <2>2. ASSUME Good' PROVE (Opening /\ Correlated)'
    <3>1. Good
      BY <2>2, GoodKept
    <3>2. ReceivedSent /\ ReceivedSent' /\ Opening /\ Correlated /\ Asking
      BY <2>2, <3>1 DEF ReceivedInv, AnswersInv
    <3>3. Opening'
      BY <3>2, OpeningStep
    <3>4. Correlated'
      BY <3>2, CorrelatedStep
    <3> QED
      BY <3>3, <3>4
  <2> QED
    BY <2>1, <2>2 DEF AnswersInv
<1> QED
  BY <1>1, <1>2, TypeInvariance, ReceivedInvariance, PTL DEF Spec

\* AnswersCorrelate: with requests in both directions under the same
\* identifiers, the n-th answer that a side writes is that of the n-th request
\* it has read, as long as no message is cut while another waits, no length is
\* too long for the header, and the client begins with its CER.
THEOREM AnswersCorrelateWhileFitting ==
  ASSUME StartsWithCER
  PROVE  Spec => [](Fits => AnswersCorrelate)
<1>1. AnswersInv => (Fits => AnswersCorrelate)
  <2> SUFFICES ASSUME AnswersInv, Fits, Clean PROVE Correlated => AnswersCorrelate
    BY DEF AnswersInv, Good, AnswersCorrelate
  <2> QED
    BY DEF Correlated, AnswersOf, AnswerOf, AnswersCorrelate
<1> QED
  BY <1>1, AnswersInvariance, PTL

(***************************************************************************)
(* What the messages say.  The requests are made of AVPs that a walk for a *)
(* result steps over, so it finds the one that is put behind them; and who *)
(* a node is stands first in its half of the capability exchange, or       *)
(* behind a result.                                                        *)
(***************************************************************************)
\* The requests whose AVPs are none of them a result, which answers have.
Plain == {item \in Item : \A i \in 1 .. Len(item.avps) : item.avps[i].code # ResultCode}

NoneResultCode == \A p \in Plans : p \in [Direction -> Seq(Plain)]

\* An answer has its result where it is found, and a request of an application
\* leaves it to be found.
Telling(m) ==
  IF IsRequest(m) THEN CommandCode(m) \notin Base => Walkable(m) ELSE Readable(m)

\* Peer::send leaves the AVPs as they are.
LEMMA WithIdsExtends ==
  ASSUME TypeInv, NEW d \in Direction, NEW m \in Message
  PROVE  LET r == WithIds(d, m)
         IN  /\ r \in Message /\ Len(r) = Len(m) /\ r[2] = m[2]
             /\ (Readable(m) => Readable(r)) /\ (Walkable(m) => Walkable(r))
<1> DEFINE r == WithIds(d, m)
<1>1. /\ r \in Message /\ Len(r) = Len(m) /\ r[2] = m[2]
      /\ \A i \in 6 .. Len(m) : r[i] = m[i]
  BY WithIdsSets
<1> HIDE DEF r
<1>2. Extends(r, m)
  <2>1. Len(m) \in Nat
    BY HeaderTypes
  <2> QED
    BY <1>1, <2>1 DEF Extends, HeaderWords
<1>3. (Readable(m) => Readable(r)) /\ (Walkable(m) => Walkable(r))
  BY <1>1, <1>2, WalksKept
<1> QED
  BY <1>1, <1>3 DEF r

\* What an application asks can be answered.
LEMMA RequestForTells ==
  ASSUME TypeInv, NEW d \in Direction, NEW item \in Plain, Short(RequestFor(d, item))
  PROVE  /\ Telling(RequestFor(d, item))
         /\ item.kind = "CER" => Names(RequestFor(d, item), Client)
<1>1. NextHop(d) \in Nat /\ NextEnd(d) \in Nat
  BY NextTypes
<1>2. Client \in Config /\ Server \in Config /\ Node(d) \in Config
  BY NodeAssumption DEF Node
<1>3. item \in Item /\ \A i \in 1 .. Len(item.avps) : item.avps[i].code # ResultCode
  BY DEF Plain
<1>4. ASSUME NEW m, NEW command \in Base, Says(m, command, 0, NextHop(d), NextEnd(d)),
             IsRequest(m)
      PROVE  Telling(m)
  BY <1>4 DEF Says, Telling
<1>5. ASSUME NEW m \in Message, IsRequest(m), Short(m) => Walkable(m), Short(WithIds(d, m))
      PROVE  Telling(WithIds(d, m))
  <2> DEFINE r == WithIds(d, m)
  <2>1. Len(r) = Len(m) /\ r[2] = m[2] /\ (Walkable(m) => Walkable(r))
    BY WithIdsExtends
  <2>2. Short(r)
    BY <1>5
  <2> HIDE DEF r
  <2>3. IsRequest(r) /\ Short(m)
    BY <1>5, <2>1, <2>2 DEF IsRequest, Short
  <2>4. Telling(r)
    BY <1>5, <2>1, <2>3 DEF Telling
  <2> QED
    BY <2>4 DEF r
<1>6. CASE item.kind = "CER"
  <2> DEFINE m == BuildCER(Client, NextHop(d), NextEnd(d))
  <2>1. Says(m, CER, 0, NextHop(d), NextEnd(d)) /\ IsRequest(m)
    BY <1>1, <1>2, BaseRequests
  <2>2. RequestFor(d, item) = m
    BY <1>6 DEF RequestFor
  <2>3. Names(m, Client)
    BY <1>1, <1>2, <2>2, RequestNames
  <2> HIDE DEF m
  <2>4. Telling(m)
    BY <1>4, <2>1 DEF Base
  <2> QED
    BY <2>2, <2>3, <2>4
<1>7. CASE item.kind = "DWR"
  <2> DEFINE m == BuildDWR(Client, NextHop(d), NextEnd(d))
  <2>1. Says(m, DWR, 0, NextHop(d), NextEnd(d)) /\ IsRequest(m)
    BY <1>1, <1>2, BaseRequests
  <2>2. RequestFor(d, item) = m
    BY <1>7 DEF RequestFor
  <2> HIDE DEF m
  <2> QED
    BY <1>4, <1>7, <2>1, <2>2 DEF Base
<1>8. CASE item.kind = "DPR"
  <2> DEFINE m == BuildDPR(Node(d), 0, NextHop(d), NextEnd(d))
  <2>1. Says(m, DPR, 0, NextHop(d), NextEnd(d)) /\ IsRequest(m)
    BY <1>1, <1>2, BaseRequests
  <2>2. RequestFor(d, item) = m
    BY <1>8 DEF RequestFor
  <2> HIDE DEF m
  <2> QED
    BY <1>4, <1>8, <2>1, <2>2 DEF Base
<1>9. CASE item.kind = "PING"
  <2> DEFINE m == BuildRequest(999, 0, Node(d).host)
  <2>1. Says(m, 999, 0, 0, 0) /\ IsRequest(m)
    BY <1>2, ApplicationRequests
  <2>2. Short(m) => Walkable(m)
    BY <1>2, ApplicationRequestsWalk
  <2>3. RequestFor(d, item) = WithIds(d, m)
    BY <1>9 DEF RequestFor
  <2> HIDE DEF m
  <2>4. m \in Message
    BY <2>1 DEF Says
  <2> QED
    BY <1>5, <1>9, <2>1, <2>2, <2>3, <2>4
<1>10. CASE item.kind = "APP"
  <2> DEFINE avps == [i \in 1 .. Len(item.avps) |-> AvpOf(item.avps[i])]
             all == FlattenSeq(avps)
             m == BuildAppRequest(all)
  <2>1. item.avps \in Seq([code : Nat, vendor : Nat, data : Data])
    BY <1>3 DEF Item, Word
  <2>2. ASSUME NEW i \in 1 .. Len(item.avps)
        PROVE  AvpOf(item.avps[i]) \in Seq(Nat) /\ Askable(AvpOf(item.avps[i]))
    <3>1. item.avps[i] \in [code : Nat, vendor : Nat, data : Data]
      BY <2>1, ElementOfSeq
    <3> DEFINE a == item.avps[i]
    <3>2. a.code # ResultCode
      BY <1>3
    <3> HIDE DEF a
    <3>3. a.code \in Nat \ {ResultCode} /\ a.vendor \in Nat /\ a.data \in Data
      BY <3>1, <3>2 DEF a
    <3>4. Avp(a.code, a.data) \in Seq(Nat) /\ VendorAvp(a.code, a.vendor, a.data) \in Seq(Nat)
      BY <3>3, AvpTypes
    <3>5. Askable(Avp(a.code, a.data)) /\ Askable(VendorAvp(a.code, a.vendor, a.data))
      BY <3>3 DEF Askable
    <3>6. AvpOf(a) \in Seq(Nat) /\ Askable(AvpOf(a))
      BY <3>4, <3>5 DEF AvpOf
    <3> QED
      BY <3>6 DEF a
  <2>3. Len(item.avps) \in Nat
    BY <2>1
  <2>4. Len(avps) = Len(item.avps) /\ (Len(avps) = 0 => avps = <<>>)
    BY <2>3
  <2>5. \A i \in 1 .. Len(avps) : avps[i] \in Seq(Nat) /\ Askable(avps[i])
    BY <2>2, <2>4
  <2>6. RequestFor(d, item) = WithIds(d, m)
    BY <1>10 DEF RequestFor
  <2> HIDE DEF avps
  <2>7. all \in Seq(Nat)
    BY <2>3, <2>4, <2>5, FlattenType
  <2>8. Short(m) => Walkable(m)
    BY <2>3, <2>4, <2>5, ApplicationRequestsWalk
  <2> HIDE DEF all
  <2>9. Says(m, 272, 4, 0, 0) /\ IsRequest(m)
    BY <2>7, ApplicationRequests
  <2> HIDE DEF m
  <2>10. m \in Message
    BY <2>9 DEF Says
  <2> QED
    BY <1>5, <1>10, <2>6, <2>8, <2>9, <2>10
<1>11. item.kind \in {"CER", "DWR", "DPR", "PING", "APP"}
  BY <1>3 DEF Item
<1> QED
  BY <1>6, <1>7, <1>8, <1>9, <1>10, <1>11

\* Its answer says how it went, and that of a CER who answers.
LEMMA AnswerToTells ==
  ASSUME TypeInv, NEW d \in Direction, NEW m \in Message, IsRequest(m), Telling(m),
         Short(AnswerTo(d, m))
  PROVE  /\ Readable(AnswerTo(d, m))
         /\ CommandCode(m) = CER => Names(AnswerTo(d, m), Node(d))
<1>1. Node(d) \in Config
  BY NodeAssumption DEF Node
<1>2. CASE CommandCode(m) = CER
  <2>1. CommandCode(m) \notin {DWR, DPR}
    BY <1>2 DEF CER, DWR, DPR
  <2>2. AnswerTo(d, m) = BuildCEA(Node(d), m)
    BY <1>2, <2>1 DEF AnswerTo
  <2> QED
    BY <1>1, <2>2, BaseAnswersRead
<1>3. CASE CommandCode(m) # CER /\ CommandCode(m) \in {DWR, DPR}
  <2>1. AnswerTo(d, m) = BuildBaseAnswer(Node(d), m)
    BY <1>3 DEF AnswerTo
  <2> QED
    BY <1>1, <1>3, <2>1, BaseAnswersRead
<1>4. CASE CommandCode(m) # CER /\ CommandCode(m) \notin {DWR, DPR}
  <2>1. AnswerTo(d, m) = IF d = "there" THEN SendAnswer(m) ELSE Echo(m)
    BY <1>4 DEF AnswerTo
  <2>2. Walkable(m)
    BY <1>4 DEF Telling, Base
  <2>3. "there" \in Direction /\ "back" \in Direction
    BY DEF Direction
  <2>4. AnswerFor(m) \in Message /\ BuildAnswer(m) \in Message
    BY ApplicationAnswers DEF Says
  <2>5. CASE d = "there"
    <3>1. Readable(AnswerFor(m))
      BY ApplicationAnswersRead
    <3>2. Readable(WithIds("there", AnswerFor(m)))
      BY <2>3, <2>4, <3>1, WithIdsExtends
    <3> QED
      BY <1>4, <2>1, <2>5, <3>2 DEF SendAnswer
  <2>6. CASE d # "there"
    <3> DEFINE a == BuildAnswer(m)
    <3>1. AnswerTo(d, m) = WithIds("back", a)
      BY <2>1, <2>6 DEF Echo
    <3>2. Short(a) => Readable(a)
      BY <2>2, ApplicationAnswersRead
    <3>3. a \in Message
      BY <2>4
    <3> HIDE DEF a
    <3> DEFINE r == WithIds("back", a)
    <3>4. Len(r) = Len(a) /\ (Readable(a) => Readable(r))
      BY <2>3, <3>3, WithIdsExtends
    <3>5. Short(r)
      BY <3>1
    <3> HIDE DEF r
    <3>6. Readable(r)
      BY <3>2, <3>4, <3>5 DEF Short
    <3> QED
      BY <1>4, <3>1, <3>6 DEF r
  <2> QED
    BY <2>5, <2>6
<1> QED
  BY <1>2, <1>3, <1>4

PlainPlans == \A d \in Direction : plan[d] \in Seq(Plain)

\* All that is sent says what it is to say, and the first of each direction who
\* sends it.
Told ==
  \A d \in Direction :
    /\ Len(sent[d]) > 0 => Names(sent[d][1], Node(d))
    /\ \A i \in 1 .. Len(sent[d]) : Telling(sent[d][i])

LEMMA PlainPlansStep ==
  ASSUME TypeInv, PlainPlans, [Next]_vars
  PROVE  PlainPlans'
<1>1. CASE plan' = plan
  BY <1>1 DEF PlainPlans
<1>2. ASSUME NEW d \in Direction, Sends(d) PROVE PlainPlans'
  <2>1. plan[d] \in Seq(Plain) /\ plan[d] # <<>>
    BY <1>2 DEF PlainPlans, Sends
  <2>2. Tail(plan[d]) \in Seq(Plain)
    BY <2>1, HeadTailProperties
  <2>3. plan' = [plan EXCEPT ![d] = Tail(plan[d])]
    BY <1>2 DEF Sends
  <2>4. ASSUME NEW x \in Direction PROVE plan'[x] \in Seq(Plain)
    <3>1. plan'[x] = IF x = d THEN Tail(plan[d]) ELSE plan[x]
      BY <2>3 DEF TypeInv
    <3> QED
      BY <2>2, <3>1 DEF PlainPlans
  <2> QED
    BY <2>4 DEF PlainPlans
<1> QED
  BY <1>1, <1>2, StepKinds DEF Reads

\* One more message that says what it is to say.
LEMMA ToldMore ==
  ASSUME TypeInv, Told, NEW d \in Direction, NEW m \in Message, Telling(m),
         Len(sent[d]) = 0 => Names(m, Node(d)),
         sent' = [sent EXCEPT ![d] = Append(sent[d], m)]
  PROVE  Told'
<1>1. sent[d] \in Seq(Message) /\ sent'[d] = Append(sent[d], m)
  BY DEF TypeInv
<1>2. /\ Len(sent[d]) \in Nat /\ Len(sent'[d]) = Len(sent[d]) + 1
      /\ sent'[d][Len(sent[d]) + 1] = m
      /\ \A i \in 1 .. Len(sent[d]) : sent'[d][i] = sent[d][i]
      /\ Len(sent[d]) = 0 => sent'[d][1] = m
      /\ Len(sent[d]) > 0 => sent'[d][1] = sent[d][1]
  BY <1>1, AppendFirst
<1>3. ASSUME NEW x \in Direction
      PROVE  /\ Len(sent'[x]) > 0 => Names(sent'[x][1], Node(x))
             /\ \A i \in 1 .. Len(sent'[x]) : Telling(sent'[x][i])
  <2>1. CASE x # d
    <3>1. sent'[x] = sent[x]
      BY <2>1 DEF TypeInv
    <3> QED
      BY <3>1 DEF Told
  <2>2. CASE x = d
    <3>1. Names(sent'[d][1], Node(d))
      <4>1. CASE Len(sent[d]) = 0
        BY <1>2, <4>1
      <4>2. CASE Len(sent[d]) > 0
        BY <1>2, <4>2 DEF Told
      <4> QED
        BY <1>2, <4>1, <4>2
    <3>2. ASSUME NEW i \in 1 .. Len(sent'[d]) PROVE Telling(sent'[d][i])
      <4>1. CASE i = Len(sent[d]) + 1
        BY <1>2, <4>1
      <4>2. CASE i # Len(sent[d]) + 1
        <5>1. i \in 1 .. Len(sent[d])
          BY <1>2, <4>2
        <5> QED
          BY <1>2, <5>1 DEF Told
      <4> QED
        BY <4>1, <4>2
    <3> QED
      BY <2>2, <3>1, <3>2
  <2> QED
    BY <2>1, <2>2
<1> QED
  BY <1>3 DEF Told, Node

\* What is sent fits.
LEMMA LastFits ==
  ASSUME TypeInv, Fits', NEW d \in Direction, NEW m \in Message,
         sent' = [sent EXCEPT ![d] = Append(sent[d], m)]
  PROVE  Short(m)
<1>1. sent[d] \in Seq(Message) /\ sent'[d] = Append(sent[d], m)
  BY DEF TypeInv
<1>2. Len(sent[d]) \in Nat /\ Len(sent'[d]) = Len(sent[d]) + 1 /\ sent'[d][Len(sent[d]) + 1] = m
  BY <1>1, AppendFirst
<1>3. Len(sent[d]) + 1 \in 1 .. Len(sent'[d])
  BY <1>2
<1>4. 4 * Len(sent'[d][Len(sent[d]) + 1]) < HighBit
  BY <1>3 DEF Fits, FitsIn
<1> QED
  BY <1>2, <1>4 DEF Short

LEMMA ToldStep ==
  ASSUME TypeInv, ReceivedSent, ReceivedSent', Opening, PlainPlans, Told, Fits', [Next]_vars
  PROVE  Told'
<1>1. /\ "there" \in Direction /\ "back" \in Direction /\ "there" # "back"
      /\ \A d \in Direction : d = "there" \/ d = "back"
      /\ Other("there") = "back" /\ Other("back") = "there"
  BY DEF Direction, Other
<1>2. CASE sent' = sent
  BY <1>2 DEF Told, Node
<1>3. ASSUME NEW d \in Direction, Sends(d) PROVE Told'
  <2> DEFINE item == Head(plan[d])
             m == RequestFor(d, item)
  <2>1. plan[d] \in Seq(Plain) /\ plan[d] # <<>>
    BY <1>3 DEF PlainPlans, Sends
  <2>2. item \in Plain
    BY <2>1, HeadTailProperties
  <2>3. item \in Item
    BY <2>2 DEF Plain
  <2>4. /\ sent' = [sent EXCEPT ![d] = Append(sent[d], m)]
        /\ Open(d) \/ (d = "there" /\ sent[d] = <<>>)
    BY <1>3 DEF Sends
  <2>5. Len(sent[d]) = 0 => d = "there" /\ item.kind = "CER"
    <3>1. ASSUME Len(sent[d]) = 0 PROVE d = "there"
      <4>1. CASE Open(d)
        <5>1. Len(received[Other(d)]) > 0
          <6>1. received[Other(d)] \in Seq(Message)
            BY OtherSide DEF TypeInv
          <6> QED
            BY <4>1, <6>1 DEF Open
        <5>2. CASE d = "back"
          <6>1. Len(sent["back"]) > 0
            BY <1>1, <5>1, <5>2 DEF Opening
          <6> QED
            BY <3>1, <5>2, <6>1
        <5> QED
          BY <1>1, <5>2
      <4> QED
        BY <2>4, <4>1
    <3>2. ASSUME Len(sent["there"]) = 0, d = "there" PROVE item.kind = "CER"
      BY <2>1, <3>2 DEF Opening
    <3> QED
      BY <3>1, <3>2
  <2> HIDE DEF item
  <2>6. m \in Message
    BY <2>3, RequestForAsks DEF Asks
  <2>7. Short(m)
    <3> HIDE DEF m
    <3> QED
      BY <2>4, <2>6, LastFits
  <2>8. Telling(m) /\ (item.kind = "CER" => Names(m, Client))
    BY <2>2, <2>7, RequestForTells
  <2>9. Node("there") = Client
    BY DEF Node
  <2> HIDE DEF m
  <2> QED
    BY <2>4, <2>5, <2>6, <2>8, <2>9, ToldMore
<1>4. ASSUME NEW d \in Direction, NEW m \in Message, Reads(d, m), Answered(d, m) PROVE Told'
  <2> DEFINE o == Other(d)
             a == AnswerTo(o, m)
  <2>1. o \in Direction /\ o # d
    BY OtherSide
  <2>2. /\ received' = [received EXCEPT ![d] = Append(received[d], m)]
        /\ sent' = [sent EXCEPT ![o] = Append(sent[o], a)]
        /\ IsRequest(m)
    BY <1>4 DEF Reads, Answered
  <2>3. a \in Message /\ ~IsRequest(a)
    BY <2>1, AnswerToAnswers
  <2> HIDE DEF a
  <2>4. Short(a)
    BY <2>1, <2>2, <2>3, LastFits
  <2> DEFINE n == Len(received[d]) + 1
  <2>5. n \in 1 .. Len(sent[d]) /\ m = sent[d][n] /\ Len(received[d]) \in Nat
    <3>1. received[d] \in Seq(Message) /\ sent[d] \in Seq(Message)
      BY DEF TypeInv
    <3>2. received'[d] = Append(received[d], m) /\ sent'[d] = sent[d]
      BY <2>1, <2>2 DEF TypeInv
    <3>3. Len(received'[d]) = n /\ received'[d][n] = m /\ Len(received[d]) \in Nat
      BY <3>1, <3>2, AppendFirst
    <3>4. /\ Len(received'[d]) <= Len(sent[d])
          /\ \A i \in 1 .. Len(received'[d]) : received'[d][i] = sent[d][i]
      BY <3>2 DEF ReceivedSent
    <3>5. Len(sent[d]) \in Nat
      BY <3>1
    <3>6. n \in Nat /\ n >= 1
      BY <3>3
    <3> HIDE DEF n
    <3>7. n \in 1 .. Len(received'[d]) /\ n \in 1 .. Len(sent[d])
      BY <3>3, <3>4, <3>5, <3>6
    <3> QED
      BY <3>3, <3>4, <3>7
  <2>6. Telling(m)
    BY <2>5 DEF Told
  <2>7. Readable(a) /\ (CommandCode(m) = CER => Names(a, Node(o)))
    BY <2>1, <2>2, <2>4, <2>6, AnswerToTells DEF a
  <2>8. Telling(a)
    BY <2>3, <2>7 DEF Telling
  <2>9. ASSUME Len(sent[o]) = 0 PROVE CommandCode(m) = CER
    <3>1. d = "there"
      <4>1. CASE d = "back"
        <5>1. Len(sent["back"]) > 0
          BY <2>5, <4>1
        <5>2. Len(received["there"]) > 0
          BY <5>1 DEF Opening
        <5>3. Len(received["there"]) <= Len(sent["there"])
          BY <1>1 DEF ReceivedSent
        <5> QED
          BY <1>1, <2>9, <4>1, <5>2, <5>3
      <4> QED
        BY <1>1, <4>1
    <3>2. ~ (Len(sent["back"]) > 0)
      BY <1>1, <2>9, <3>1
    <3>3. ~ (Len(received["there"]) > 0)
      BY <3>2 DEF Opening
    <3>4. n = 1
      BY <2>5, <3>1, <3>3
    <3> HIDE DEF n
    <3>5. Len(sent["there"]) > 0 /\ m = sent["there"][1]
      BY <2>5, <3>1, <3>4
    <3> QED
      BY <3>5 DEF Opening
  <2> QED
    BY <2>1, <2>2, <2>3, <2>7, <2>8, <2>9, ToldMore
<1> QED
  BY <1>2, <1>3, <1>4, StepKinds DEF Reads

ToldInv == PlainPlans /\ (Good => Told)

\* Whatever strings and AVPs, what is sent says what it is to say.
THEOREM ToldInvariance ==
  ASSUME StartsWithCER, NoneResultCode
  PROVE  Spec => []ToldInv
<1>1. Init => ToldInv
  <2> SUFFICES ASSUME Init PROVE ToldInv
    OBVIOUS
  <2>1. PlainPlans
    BY NoneResultCode DEF Init, PlainPlans, NoneResultCode
  <2>2. \A d \in Direction : sent[d] = <<>>
    BY DEF Init
  <2>3. Told
    BY <2>2 DEF Told
  <2> QED
    BY <2>1, <2>3 DEF ToldInv
<1>2. TypeInv /\ ReceivedInv /\ ReceivedInv' /\ AnswersInv /\ ToldInv /\ [Next]_vars => ToldInv'
  <2> SUFFICES ASSUME TypeInv, ReceivedInv, ReceivedInv', AnswersInv, ToldInv, [Next]_vars
               PROVE  ToldInv'
    OBVIOUS
  <2>1. PlainPlans'
    BY PlainPlansStep DEF ToldInv
  <2>2. ASSUME Good' PROVE Told'
    <3>1. Good
      BY <2>2, GoodKept
    <3>2. ReceivedSent /\ ReceivedSent' /\ Opening /\ PlainPlans /\ Told /\ Fits'
      BY <2>2, <3>1 DEF ReceivedInv, AnswersInv, ToldInv, Good
    <3> QED
      BY <3>2, ToldStep
  <2> QED
    BY <2>1, <2>2 DEF ToldInv
<1> QED
  BY <1>1, <1>2, TypeInvariance, ReceivedInvariance, AnswersInvariance, PTL DEF Spec

\* AvpsReadBack: who a node is, and the result of every answer that has AVPs,
\* are found by the walks of the other side behind other AVPs, with a vendor or
\* without, whatever their paddings, as long as no message is cut while another
\* waits, no length is too long for the header, the client begins with its CER,
\* and no application puts a Result-Code into a request.
THEOREM AvpsReadBackWhileFitting ==
  ASSUME StartsWithCER, NoneResultCode
  PROVE  Spec => [](Fits => AvpsReadBack)
<1>1. TypeInv /\ ReceivedInv /\ ToldInv => (Fits => AvpsReadBack)
  <2> SUFFICES ASSUME TypeInv, ReceivedInv, ToldInv, Fits, Clean PROVE AvpsReadBack
    BY DEF AvpsReadBack
  <2>1. ReceivedSent /\ Told
    BY DEF ReceivedInv, ToldInv, Good
  <2>2. ASSUME NEW d \in Direction, received[d] # <<>> PROVE Names(received[d][1], Node(d))
    <3>1. received[d] \in Seq(Message) /\ sent[d] \in Seq(Message)
      BY DEF TypeInv
    <3>2. 1 \in 1 .. Len(received[d]) /\ Len(sent[d]) > 0
      BY <2>1, <2>2, <3>1 DEF ReceivedSent
    <3>3. received[d][1] = sent[d][1]
      BY <2>1, <3>2 DEF ReceivedSent
    <3> QED
      BY <2>1, <3>2, <3>3 DEF Told
  <2>3. ASSUME NEW d \in Direction, NEW i \in 1 .. Len(received[d]), ~IsRequest(received[d][i])
        PROVE  Understood(received[d][i])
    <3> DEFINE m == received[d][i]
    <3>1. received[d] \in Seq(Message) /\ sent[d] \in Seq(Message)
      BY DEF TypeInv
    <3>2. m \in Message
      BY <3>1, ElementOfSeq
    <3>3. i \in 1 .. Len(sent[d]) /\ m = sent[d][i]
      BY <2>1, <3>1 DEF ReceivedSent
    <3>4. Telling(m)
      BY <2>1, <3>3 DEF Told
    <3> HIDE DEF m
    <3>5. Readable(m)
      BY <2>3, <3>4 DEF Telling, m
    <3>6. Understood(m)
      BY <3>2, <3>5, ReadableUnderstood
    <3> QED
      BY <3>6 DEF m
  <2> QED
    BY <2>2, <2>3 DEF AvpsReadBack, Names, Understood
<1> QED
  BY <1>1, TypeInvariance, ReceivedInvariance, ToldInvariance, PTL
=============================================================================
