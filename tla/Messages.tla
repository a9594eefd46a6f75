------------------------------ MODULE Messages ------------------------------
(***************************************************************************)
(* Diameter messages as the library and its two example programs build and *)
(* read them: the header, AVPs with their padding, and the walks that look *)
(* for an AVP.  A message is a sequence of 32-bit words.  A word that      *)
(* packs a byte of flags with 24 bits is High * HighBit, where High is the *)
(* one bit of the flags that is looked at (R of a command, V of an AVP) or *)
(* the version, plus its low part.  What is kept of a string is its length *)
(* in bytes and one word per four of them.  Messages are made of whole     *)
(* words here, as all that the library encodes are.                        *)
(***************************************************************************)
EXTENDS Naturals, SequencesExt

CONSTANT HighBit   \* the low part of a word counts modulo HighBit (2^24)

\* Every command below is less.
ASSUME HighBitAssumption == HighBit \in Nat /\ HighBit > 999

Low(w) == w % HighBit
High(w) == w \div HighBit
Pack(bit, low) == (IF bit THEN HighBit ELSE 0) + low

\* Bytes to words: AVPs start at multiples of four bytes.
WordsOf(n) == (n + 3) \div 4

CER == 257
DWR == 280
DPR == 282
OriginHost == 264
OriginRealm == 296
HostIpAddress == 257
VendorId == 266
ProductName == 269
ResultCode == 268
DisconnectCause == 273
AuthApplicationId == 258
Success == 2001

(***************************************************************************)
(* Data, AVPs and headers.                                                 *)
(***************************************************************************)
\* The data of an AVP: its length in bytes, and as many words as these take.
Data == {data \in [len : Nat, words : Seq(Nat)] : Len(data.words) = WordsOf(data.len)}

\* A string of len bytes, and a 32-bit number.
Text(len, fill) == [len |-> len, words |-> [i \in 1 .. WordsOf(len) |-> fill]]
Number(n) == [len |-> 4, words |-> <<n>>]

\* An address AVP holds its family and four bytes.
Address(a) == [len |-> 6, words |-> <<a, 0>>]

\* appendAvp that counts the padding in the length of the AVP.
Avp_PaddedLength(code, data) == <<code, Pack(FALSE, 8 + 4 * Len(data.words))>> \o data.words

\* appendAvp: the length does not count the padding.
Avp(code, data) == <<code, Pack(FALSE, 8 + data.len)>> \o data.words

\* A vendor's AVP, as applications may send them.
VendorAvp(code, vendor, data) == <<code, Pack(TRUE, 12 + data.len), vendor>> \o data.words

\* writeMessageHeader, the length of which fixMessageLength fills in.
Header(request, command, app, hop, end) ==
  <<Pack(TRUE, 0), Pack(request, command), app, hop, end>>

\* fixMessageLength of a message with its header in place.
FixLength(m) == [m EXCEPT ![1] = Pack(TRUE, 4 * Len(m))]

HeaderWords == 5
Size(m) == Low(m[1])
IsRequest(m) == High(m[2]) = 1
CommandCode(m) == Low(m[2])
ApplicationId(m) == m[3]
HopByHop(m) == m[4]
EndToEnd(m) == m[5]
SetHopByHop(m, hop) == [m EXCEPT ![4] = hop]
SetEndToEnd(m, end) == [m EXCEPT ![5] = end]

(***************************************************************************)
(* The walks.  Both start behind the header, at the index of a word that   *)
(* is an AVP's code.                                                       *)
(***************************************************************************)
\* Peer's extractStringAvp, which stops at an AVP that does not fit.
NoText == [len |-> 0, words |-> <<>>]

ExtractString(m, code) ==
  LET walk[i \in Nat] ==
        IF i + 1 > Len(m) THEN NoText
        ELSE LET avpLen == Low(m[i + 1])
                 header == IF High(m[i + 1]) = 1 THEN 3 ELSE 2
             IN  IF avpLen < 4 * header \/ 4 * (i - 1) + avpLen > 4 * Len(m) THEN NoText
                 ELSE IF m[i] = code
                 THEN [len |-> avpLen - 4 * header,
                       words |-> SubSeq(m, i + header, i + WordsOf(avpLen) - 1)]
                 ELSE walk[i + WordsOf(avpLen)]
  IN  walk[HeaderWords + 1]

\* extractResultCode that does not step over the padding.
ExtractResultCode_Unpadded(m) ==
  LET walk[i \in Nat] ==
        IF i + 1 > Len(m) \/ Low(m[i + 1]) < 8 THEN 0
        ELSE LET header == IF High(m[i + 1]) = 1 THEN 3 ELSE 2
             IN  IF m[i] = ResultCode /\ i + header <= Len(m) THEN m[i + header]
                 ELSE walk[i + Low(m[i + 1]) \div 4]
  IN  walk[HeaderWords + 1]

\* extractResultCode of DiameterClient and DiameterServer: zero when there is
\* none.  The length of the AVP it finds is not looked at.
ExtractResultCode(m) ==
  LET walk[i \in Nat] ==
        IF i + 1 > Len(m) \/ Low(m[i + 1]) < 8 THEN 0
        ELSE LET header == IF High(m[i + 1]) = 1 THEN 3 ELSE 2
             IN  IF m[i] = ResultCode /\ i + header <= Len(m) THEN m[i + header]
                 ELSE walk[i + WordsOf(Low(m[i + 1]))]
  IN  walk[HeaderWords + 1]

\* That of ping_client, which knows no vendors.
PingResultCode(m) ==
  LET walk[i \in Nat] ==
        IF i + 1 > Len(m) \/ Low(m[i + 1]) < 8 THEN 0
        ELSE IF m[i] = ResultCode /\ Low(m[i + 1]) >= 12 THEN m[i + 2]
        ELSE walk[i + WordsOf(Low(m[i + 1]))]
  IN  walk[HeaderWords + 1]

(***************************************************************************)
(* The messages of Peer, for a node with the given configuration.          *)
(***************************************************************************)
\* A configuration.
Config ==
  [host : Data, realm : Data, product : Data, address : Nat, vendor : Nat,
   applications : Seq(Nat)]

Identity(c) == Avp(OriginHost, c.host) \o Avp(OriginRealm, c.realm)

\* The applications of a node, of which 0 stands for a relay and is not said.
Applications(c) ==
  FlattenSeq([i \in 1 .. Len(c.applications) |->
                IF c.applications[i] = 0 THEN <<>>
                ELSE Avp(AuthApplicationId, Number(c.applications[i]))])

Capabilities(c) ==
  Identity(c) \o Avp(HostIpAddress, Address(c.address)) \o Avp(VendorId, Number(c.vendor))
    \o Avp(ProductName, c.product) \o Applications(c)

BuildCER(c, hop, end) == FixLength(Header(TRUE, CER, 0, hop, end) \o Capabilities(c))

BuildDWR(c, hop, end) == FixLength(Header(TRUE, DWR, 0, hop, end) \o Identity(c))
BuildDPR(c, cause, hop, end) ==
  FixLength(Header(TRUE, DPR, 0, hop, end) \o Identity(c) \o Avp(DisconnectCause, Number(cause)))

\* An answer of the base protocol takes the identifiers of its request.
AnswerHeader(request) ==
  Header(FALSE, CommandCode(request), 0, HopByHop(request), EndToEnd(request))
    \o Avp(ResultCode, Number(Success))

BuildCEA(c, cer) == FixLength(AnswerHeader(cer) \o Capabilities(c))

\* buildDWA and buildDPA.
BuildBaseAnswer(c, request) == FixLength(AnswerHeader(request) \o Identity(c))

(***************************************************************************)
(* The messages of the examples and of the unit tests.                     *)
(***************************************************************************)
\* buildRequest of ping_client: the identifiers are left to the library.
BuildRequest(command, app, host) ==
  FixLength(Header(TRUE, command, app, 0, 0) \o Avp(OriginHost, host))

\* buildAnswer of echo_server: the request, its R bit cleared, and a
\* Result-Code at the end.
BuildAnswer(request) ==
  FixLength([request EXCEPT ![2] = Pack(FALSE, Low(@))] \o Avp(ResultCode, Number(Success)))

\* The application messages of the unit tests: a request of command 272, here
\* with AVPs, and an answer that is the request's header.
BuildAppRequest(avps) == FixLength(Header(TRUE, 272, 4, 0, 0) \o avps)

AnswerFor(request) ==
  FixLength([SubSeq(request, 1, HeaderWords) EXCEPT ![2] = Pack(FALSE, Low(@))])
=============================================================================
