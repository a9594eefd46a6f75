------------------------------- MODULE Framing -------------------------------
(***************************************************************************)
(* One established connection as PeerConnection (src/src/PeerConnection.   *)
(* cpp) uses it: asyncWrite, a composed operation that puts a message on   *)
(* the socket part by part, and the read loop, which takes a length and    *)
(* then as much from the stream.  A client sends a CER and, once it has    *)
(* the CEA, requests; a server that is open may send requests as well.     *)
(* Each side answers in the handler that has read a request, base messages *)
(* as Peer does and others as its application does.                        *)
(*                                                                         *)
(* asio: a part is written when its turn at the socket comes; the handler  *)
(* of a part that is not the last, which is run on the io thread, queues   *)
(* the rest behind whatever waits by then.  asyncWrite itself waits for    *)
(* nothing.  Sessions that end, and lost links, are module PeerSession's.  *)
(***************************************************************************)
EXTENDS Messages

CONSTANTS
  Plans,       \* the requests the two applications may send: plan[d]
  Client, Server,  \* the configurations of the two nodes
  PartWords,   \* what one write_some may take of a message
  SocketWords, \* what the connection holds that is written and not read
  MaxRequests  \* bound: the longest of the plans

Direction == {"there", "back"}
Word == Nat

\* What an application asks to send.
Item ==
  [kind : {"CER", "DWR", "DPR", "PING", "APP"},
   avps : Seq([code : Word, vendor : Word, data : Data])]

ASSUME PartAssumption == PartWords \in Nat \ {0} /\ SocketWords \in Nat \ {0}
ASSUME NodeAssumption == Client \in Config /\ Server \in Config
ASSUME PlanAssumption == \A p \in Plans : p \in [Direction -> Seq(Item)]

VARIABLES
  plan,        \* plan[d]: the requests the application has not sent yet
  queued,      \* queued[d]: the writes that wait for their turn at the socket
  resuming,    \* resuming[d]: the rests of writes that a handler is to queue
  wire,        \* wire[d]: the words written and not read
  reader,      \* reader[d]: the read loop
  sent,        \* sent[d]: the messages given to asyncWrite (history)
  received,    \* received[d]: the messages given to onMessage (history)
  contended    \* contended[d]: a message was in parts beside another (history)

vars == <<plan, queued, resuming, wire, reader, sent, received, contended>>

TypeOK ==
  /\ \A d \in Direction :
       /\ wire[d] \in Seq(Word) /\ Len(wire[d]) <= SocketWords
       /\ \A i \in 1 .. Len(queued[d]) : queued[d][i].words \in Seq(Word) \ {<<>>}
       /\ \A i \in 1 .. Len(resuming[d]) : resuming[d][i].words \in Seq(Word) \ {<<>>}
       /\ \A i \in 1 .. Len(received[d]) : Len(received[d][i]) >= HeaderWords
       /\ reader[d].phase \in {"header", "body", "failed"}
       /\ reader[d].phase = "body" =>
            Len(reader[d].readBuf) < WordsOf(Size(reader[d].readBuf))
  /\ contended \in [Direction -> BOOLEAN]

AtHeader == [phase |-> "header", readBuf |-> <<>>]

Init ==
  /\ plan \in Plans
  /\ queued = [d \in Direction |-> <<>>]
  /\ resuming = queued /\ wire = queued /\ sent = queued /\ received = queued
  /\ reader = [d \in Direction |-> AtHeader]
  /\ contended = [d \in Direction |-> FALSE]

Put(f, d, x) == [f EXCEPT ![d] = Append(@, x)]

\* A write, of which so many words are left; cut once some are written.
Rest(w, n) == [words |-> SubSeq(w.words, n + 1, Len(w.words)), cut |-> TRUE]
Writes(d) == queued[d] \o resuming[d]

(***************************************************************************)
(* Writing.                                                                *)
(***************************************************************************)
\* asyncWrite: the write is queued whether or not another is under way.
AsyncWrite(d, m) ==
  /\ queued' = Put(queued, d, [words |-> m, cut |-> FALSE])
  /\ sent' = Put(sent, d, m)
  /\ contended' = [contended EXCEPT ![d] =
       @ \/ \E i \in 1 .. Len(Writes(d)) : Writes(d)[i].cut]

PartOf(d) == Min({Len(Head(queued[d]).words), PartWords, SocketWords - Len(wire[d])})

\* A part after which the message starts all over.
WritePart_Restarts(d) ==
  /\ queued[d] # <<>>
  /\ Len(wire[d]) < SocketWords
  /\ LET w == Head(queued[d])
     IN  /\ wire' = [wire EXCEPT ![d] = @ \o SubSeq(w.words, 1, PartOf(d))]
         /\ resuming' = IF PartOf(d) = Len(w.words) THEN resuming ELSE Put(resuming, d, w)
  /\ queued' = [queued EXCEPT ![d] = Tail(@)]
  /\ UNCHANGED <<plan, reader, sent, received, contended>>

\* write_some: as much as a part may be and the connection has room for.
WritePart(d) ==
  /\ queued[d] # <<>>
  /\ Len(wire[d]) < SocketWords
  /\ LET w == Head(queued[d])
     IN  /\ wire' = [wire EXCEPT ![d] = @ \o SubSeq(w.words, 1, PartOf(d))]
         /\ IF PartOf(d) = Len(w.words)
            THEN UNCHANGED <<resuming, contended>>
            ELSE /\ resuming' = Put(resuming, d, Rest(w, PartOf(d)))
                 /\ contended' = [contended EXCEPT ![d] = @ \/ Len(Writes(d)) > 1]
  /\ queued' = [queued EXCEPT ![d] = Tail(@)]
  /\ UNCHANGED <<plan, reader, sent, received>>

\* The handler of a part.
WriteResumes(d) ==
  /\ resuming[d] # <<>>
  /\ queued' = Put(queued, d, Head(resuming[d]))
  /\ resuming' = [resuming EXCEPT ![d] = Tail(@)]
  /\ UNCHANGED <<plan, wire, reader, sent, received, contended>>

(***************************************************************************)
(* Requests and answers.                                                   *)
(***************************************************************************)
\* The messages at some places of a sequence, in their order.
At(ms, places) ==
  LET upTo[n \in 0 .. Len(ms)] ==
        IF n = 0 THEN <<>>
        ELSE IF n \in places THEN Append(upTo[n - 1], ms[n]) ELSE upTo[n - 1]
  IN  upTo[Len(ms)]

Requests(ms) == At(ms, {i \in 1 .. Len(ms) : IsRequest(ms[i])})
Answers(ms) == At(ms, {i \in 1 .. Len(ms) : ~IsRequest(ms[i])})

\* The counters of the writer of d: the seeds of the two nodes' hop-by-hop are
\* the same here, those of their end-to-end are not.
NextHop(d) == Len(Requests(sent[d])) + 1
NextEnd(d) == Len(Requests(sent[d])) + (IF d = "there" THEN 101 ELSE 201)

AvpOf(a) == IF a.vendor = 0 THEN Avp(a.code, a.data) ELSE VendorAvp(a.code, a.vendor, a.data)

\* Peer::send: identifiers that are zero are filled in.
WithIds(d, m) ==
  SetEndToEnd(SetHopByHop(m, IF HopByHop(m) = 0 THEN NextHop(d) ELSE HopByHop(m)),
              IF EndToEnd(m) = 0 THEN NextEnd(d) ELSE EndToEnd(m))

Node(d) == IF d = "there" THEN Client ELSE Server
Other(d) == IF d = "there" THEN "back" ELSE "there"

RequestFor(d, item) ==
  CASE item.kind = "CER" -> BuildCER(Client, NextHop(d), NextEnd(d))
    [] item.kind = "DWR" -> BuildDWR(Client, NextHop(d), NextEnd(d))
    [] item.kind = "DPR" -> BuildDPR(Node(d), 0, NextHop(d), NextEnd(d))
    [] item.kind = "PING" -> WithIds(d, BuildRequest(999, 0, Node(d).host))
    [] item.kind = "APP" ->
         WithIds(d, BuildAppRequest(
                      FlattenSeq([i \in 1 .. Len(item.avps) |-> AvpOf(item.avps[i])])))

\* The writer of d has the other side's half of the capability exchange.
Open(d) ==
  \E i \in 1 .. Len(received[Other(d)]) : CommandCode(received[Other(d)][i]) = CER

\* The CER first, and the rest, from any thread, from a Peer that is Open.
Send(d) ==
  /\ plan[d] # <<>>
  /\ Open(d) \/ (d = "there" /\ sent[d] = <<>>)
  /\ plan' = [plan EXCEPT ![d] = Tail(@)]
  /\ AsyncWrite(d, RequestFor(d, Head(plan[d])))
  /\ UNCHANGED <<resuming, wire, reader, received>>

\* The client's application answers through sendAnswer, as the unit tests do,
\* and the server's in the request callback of echo_server.
SendAnswer(m) == WithIds("there", AnswerFor(m))
Echo(m) == WithIds("back", BuildAnswer(m))

\* The answer of the writer of d.
AnswerTo(d, m) ==
  CASE CommandCode(m) = CER -> BuildCEA(Node(d), m)
    [] CommandCode(m) \in {DWR, DPR} -> BuildBaseAnswer(Node(d), m)
    [] OTHER -> IF d = "there" THEN SendAnswer(m) ELSE Echo(m)

\* onMessage that hands every message of an application to the callback.
OnMessage_NoMatterWhat(d, m) ==
  /\ received' = Put(received, d, m)
  /\ IF IsRequest(m) \/ CommandCode(m) \notin {CER, DWR, DPR}
     THEN AsyncWrite(Other(d), AnswerTo(Other(d), m))
     ELSE UNCHANGED <<queued, sent, contended>>

\* Peer's onMessage and its owner's, onPeerRequest or onPeerMessage: a request
\* is answered in the handler, by an application through sendAnswer, and an
\* answer never is.
OnMessage(d, m) ==
  /\ received' = Put(received, d, m)
  /\ IF IsRequest(m) /\ (Open(Other(d)) \/ CommandCode(m) \in {CER, DPR})
     THEN AsyncWrite(Other(d), AnswerTo(Other(d), m))
     ELSE UNCHANGED <<queued, sent, contended>>

(***************************************************************************)
(* Reading.                                                                *)
(***************************************************************************)
\* doReadHeader that takes the length for that of what follows the header.
ReadHeader_LengthOfBody(d) ==
  /\ reader[d].phase = "header"
  /\ wire[d] # <<>>
  /\ wire' = [wire EXCEPT ![d] = Tail(@)]
  /\ reader' = [reader EXCEPT ![d] =
       IF Low(Head(wire[d])) < 20 THEN [@ EXCEPT !.phase = "failed"]
       ELSE [phase |-> "body", readBuf |-> <<Head(wire[d]) + 4>>]]
  /\ UNCHANGED <<plan, queued, resuming, sent, received, contended>>

\* doReadHeader that accepts any length.
ReadHeader_AnyLength(d) ==
  /\ reader[d].phase = "header"
  /\ wire[d] # <<>>
  /\ wire' = [wire EXCEPT ![d] = Tail(@)]
  /\ reader' = [reader EXCEPT ![d] = [phase |-> "body", readBuf |-> <<Head(wire[d])>>]]
  /\ UNCHANGED <<plan, queued, resuming, sent, received, contended>>

\* doReadHeader: the first four bytes.
ReadHeader(d) ==
  /\ reader[d].phase = "header"
  /\ wire[d] # <<>>
  /\ wire' = [wire EXCEPT ![d] = Tail(@)]
  /\ reader' = [reader EXCEPT ![d] =
       IF Low(Head(wire[d])) < 20 THEN [@ EXCEPT !.phase = "failed"]
       ELSE [phase |-> "body", readBuf |-> <<Head(wire[d])>>]]
  /\ UNCHANGED <<plan, queued, resuming, sent, received, contended>>

\* doReadBody, a composed read: what there is, up to the length announced.
\* (A length that is not of whole words is met only when writes were cut into
\* each other, and is rounded up.)
ReadBody(d) ==
  /\ reader[d].phase = "body"
  /\ wire[d] # <<>>
  /\ LET missing == WordsOf(Size(reader[d].readBuf)) - Len(reader[d].readBuf)
         n == Min({missing, Len(wire[d])})
         readBuf == reader[d].readBuf \o SubSeq(wire[d], 1, n)
     IN  /\ wire' = [wire EXCEPT ![d] = SubSeq(@, n + 1, Len(@))]
         /\ IF n = missing
            THEN OnMessage(d, readBuf) /\ reader' = [reader EXCEPT ![d] = AtHeader]
            ELSE /\ reader' = [reader EXCEPT ![d].readBuf = readBuf]
                 /\ UNCHANGED <<queued, sent, received, contended>>
  /\ UNCHANGED <<plan, resuming>>

(***************************************************************************)
(* The specification.                                                      *)
(***************************************************************************)
ReadStep(d) == ReadHeader(d) \/ ReadBody(d)

Next == \E d \in Direction : Send(d) \/ WritePart(d) \/ WriteResumes(d) \/ ReadStep(d)

Spec == Init /\ [][Next]_vars

\* asio writes what it can, reads what there is, and runs the handlers.
Fairness ==
  \A d \in Direction : WF_vars(WritePart(d)) /\ WF_vars(WriteResumes(d)) /\ WF_vars(ReadStep(d))

FairSpec == Spec /\ Fairness

(***************************************************************************)
(* Properties.                                                             *)
(***************************************************************************)
Clean == \A d \in Direction : ~contended[d]

\* Writes from any number of handlers and threads reach the other side whole,
\* in order and once, wherever they are cut and whatever has been read of them,
\* as long as no message is cut while another waits to be written.
WholeMessages ==
  \A d \in Direction : ~contended[d] =>
    IsPrefix(received[d], sent[d]) /\ reader[d].phase # "failed"

\* "Write a complete Diameter message" (PeerConnection.hpp): what the other
\* side reads is messages that were written.
WritesAreWhole ==
  \A d \in Direction : \A i \in 1 .. Len(received[d]) :
    \E j \in 1 .. Len(sent[d]) : received[d][i] = sent[d][j]

\* What one side writes in an AVP the other reads there, byte for byte and
\* whatever the lengths: the identities of the capability exchange, and the
\* Result-Code of every answer that has AVPs, behind others with a vendor or
\* without.
AvpsReadBack ==
  LET says(m, c) == ExtractString(m, OriginHost) = c.host /\ ExtractString(m, OriginRealm) = c.realm
      result(m) == IF Len(m) = HeaderWords THEN 0 ELSE Success
      understood(m) == ExtractResultCode(m) = result(m) /\ PingResultCode(m) = result(m)
  IN  Clean => \A d \in Direction :
        /\ received[d] # <<>> => says(received[d][1], Node(d))
        /\ \A i \in 1 .. Len(received[d]) : IsRequest(received[d][i]) \/ understood(received[d][i])

\* Each request that a side has read has one answer and no answer has any, with
\* requests under way in both directions under the same identifiers: the n-th
\* answer has the identifiers, the command and the application of the n-th
\* request.
AnswersCorrelate ==
  Clean => \A d \in Direction :
    LET requests == Requests(received[d])
        answers == Answers(sent[Other(d)])
    IN  /\ Len(answers) = Len(requests)
        /\ \A n \in 1 .. Len(requests) :
             /\ HopByHop(answers[n]) = HopByHop(requests[n])
             /\ EndToEnd(answers[n]) = EndToEnd(requests[n])
             /\ CommandCode(answers[n]) = CommandCode(requests[n])
             /\ ApplicationId(answers[n]) = ApplicationId(requests[n])

\* What is sent is answered, unless writes have been in each other's way.
EveryRequestAnswered ==
  \A d \in Direction, n \in 1 .. MaxRequests :
    Len(Requests(sent[d])) >= n ~> Len(Answers(received[Other(d)])) >= n \/ ~Clean
=====================
