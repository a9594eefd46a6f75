------------------------- MODULE PeerSession_proofs -------------------------
(***************************************************************************)
(* Theorems about PeerSession, for every value of its constants: any       *)
(* transport, any set of application messages, any bounds.  Types first,   *)
(* then the invariant about what is on its way between the sides, the      *)
(* session it implements, force close, and what Closed means.              *)
(***************************************************************************)
EXTENDS PeerSession, TLAPS

\* There are two sides, and Other leads from each to the other.
LEMMA OtherSide ==
  ASSUME NEW p \in Side
  PROVE  /\ Other(p) \in Side /\ Other(p) # p /\ Other(Other(p)) = p
         /\ (p = "client" /\ Other(p) = "server") \/ (p = "server" /\ Other(p) = "client")
BY DEF Side, Other

\* asyncWrite touches the other side's queue only, and appends to it at most
\* the message written, and that only over a connection that carries it.
LEMMA WriteEffect ==
  ASSUME wire \in [Side -> Seq(Message)],
         completion \in [Side -> SUBSET {"close", "error"}],
         NEW p \in Side, NEW m \in Message,
         NEW c \in SUBSET {"close", "error"}, Write(p, m, c)
  PROVE  /\ wire' \in [Side -> Seq(Message)]
         /\ completion' \in [Side -> SUBSET {"close", "error"}]
         /\ wire'[p] = wire[p]
         /\ \/ wire' = wire
            \/ Carries(p) /\ wire'[Other(p)] = Append(wire[Other(p)], m)
         /\ ~Carries(p) => wire' = wire
<1>0. Other(p) \in Side /\ Other(p) # p
  BY OtherSide
<1>1. CASE Carries(p)
  <2>1. wire' = [wire EXCEPT ![Other(p)] = Append(@, m)]
    BY <1>1 DEF Write
  <2>2. completion' = [completion EXCEPT ![p] = @ \cup c]
    BY <1>1 DEF Write
  <2>3. Append(wire[Other(p)], m) \in Seq(Message)
    BY <1>0
  <2> QED BY <1>0, <1>1, <2>1, <2>2, <2>3
<1>2. CASE ~Carries(p)
  BY <1>2 DEF Write
<1> QED BY <1>1, <1>2

\* What a write adds to a queue is legal there if the message is.
LEMMA WriteTypes ==
  ASSUME TypeOK, NEW p \in Side, NEW m \in MessageTo(Other(p)),
         NEW c \in SUBSET {"close", "error"}, Write(p, m, c)
  PROVE  /\ wire' \in [Side -> Seq(Message)]
         /\ completion' \in [Side -> SUBSET {"close", "error"}]
         /\ \A q \in Side : \A i \in DOMAIN wire'[q] : wire'[q][i] \in MessageTo(q)
<1>1. m \in Message
  BY DEF MessageTo
<1>2. wire \in [Side -> Seq(Message)] /\ completion \in [Side -> SUBSET {"close", "error"}]
  BY DEF TypeOK
<1>3. \A q \in Side : \A i \in DOMAIN wire[q] : wire[q][i] \in MessageTo(q)
  BY DEF TypeOK
<1>4. /\ wire' \in [Side -> Seq(Message)]
      /\ completion' \in [Side -> SUBSET {"close", "error"}]
      /\ wire'[p] = wire[p]
      /\ wire' = wire \/ wire'[Other(p)] = Append(wire[Other(p)], m)
  BY <1>1, <1>2, WriteEffect
<1>5. ASSUME NEW q \in Side, NEW i \in DOMAIN wire'[q]
      PROVE  wire'[q][i] \in MessageTo(q)
  <2>1. CASE q = p \/ wire' = wire
    BY <1>3, <1>4, <1>5, <2>1
  <2>2. CASE q = Other(p) /\ wire'[q] = Append(wire[q], m)
    <3>1. wire[q] \in Seq(Message)
      BY <1>2
    <3>2. (i \in DOMAIN wire[q] /\ wire'[q][i] = wire[q][i]) \/ wire'[q][i] = m
      BY <1>1, <1>5, <2>2, <3>1
    <3> QED BY <1>3, <2>2, <3>2
  <2> QED BY <1>4, <2>1, <2>2, OtherSide DEF Side, Other
<1> QED BY <1>4, <1>5

\* SetState, ClosePeer and OnError keep the types of what they change.
LEMMA SetStateTypes ==
  ASSUME TypeOK, NEW p \in Side, NEW s \in StateOf(p), SetState(p, s)
  PROVE  /\ state' \in [Side -> State]
         /\ \A q \in Side : state'[q] \in StateOf(q)
         /\ opened' \in SUBSET Side
BY DEF TypeOK, SetState, StateOf

\* Cancelling the watchdog leaves the timer in one of its states.
LEMMA StopWatchdogTypes ==
  ASSUME TypeOK, NEW p \in Side, StopWatchdog(p)
  PROVE  watchdog' \in [Side -> {"off", "armed", "fired"}]
BY DEF TypeOK, StopWatchdog

\* Closing a socket empties its queue or leaves everything alone.
LEMMA CloseConnectionTypes ==
  ASSUME TypeOK, NEW p \in Side, CloseConnection(p)
  PROVE  /\ socket' \in [Side -> {"none", "open", "closed"}]
         /\ wire' \in [Side -> Seq(Message)]
         /\ \A q \in Side : \A i \in DOMAIN wire'[q] : wire'[q][i] \in MessageTo(q)
<1>1. CASE socket[p] = "open"
  <2>1. <<>> \in Seq(Message) /\ DOMAIN <<>> = {}
    OBVIOUS
  <2>2. /\ socket' = [socket EXCEPT ![p] = "closed"]
        /\ wire' = [wire EXCEPT ![p] = <<>>]
    BY <1>1 DEF CloseConnection
  <2>3. \A q \in Side : wire'[q] = wire[q] \/ wire'[q] = <<>>
    BY <2>2 DEF TypeOK
  <2> QED BY <2>1, <2>2, <2>3 DEF TypeOK
<1>2. CASE socket[p] # "open"
  BY <1>2 DEF CloseConnection, TypeOK
<1> QED BY <1>1, <1>2

\* Peer::close keeps the types of the five variables it changes.
LEMMA ClosePeerTypes ==
  ASSUME TypeOK, NEW p \in Side, ClosePeer(p)
  PROVE  /\ state' \in [Side -> State] /\ opened' \in SUBSET Side
         /\ \A q \in Side : state'[q] \in StateOf(q)
         /\ watchdog' \in [Side -> {"off", "armed", "fired"}]
         /\ socket' \in [Side -> {"none", "open", "closed"}]
         /\ wire' \in [Side -> Seq(Message)]
         /\ \A q \in Side : \A i \in DOMAIN wire'[q] : wire'[q][i] \in MessageTo(q)
<1>1. "Closed" \in StateOf(p)
  BY DEF StateOf, State
<1> QED BY <1>1, SetStateTypes, StopWatchdogTypes, CloseConnectionTypes DEF ClosePeer

\* Peer::onError keeps the types of the three variables it changes.
LEMMA OnErrorTypes ==
  ASSUME TypeOK, NEW p \in Side, OnError(p)
  PROVE  /\ state' \in [Side -> State] /\ opened' \in SUBSET Side
         /\ \A q \in Side : state'[q] \in StateOf(q)
         /\ watchdog' \in [Side -> {"off", "armed", "fired"}]
<1>1. "Closed" \in StateOf(p)
  BY DEF StateOf, State
<1> QED BY <1>1, SetStateTypes, StopWatchdogTypes DEF OnError

(***************************************************************************)
(* Type correctness, one lemma for the handling of a message and one step  *)
(* per action.                                                             *)
(***************************************************************************)
LEMMA HandlerTypes ==
  ASSUME TypeOK, NEW p \in Side, HandleMessage(p)
  PROVE  TypeOK'
<1> USE DEF HandleMessage, counters
<1>0. /\ ready' = [ready EXCEPT ![p] = "none"]
      /\ UNCHANGED <<dialing, link, sent, expired>>
  OBVIOUS
<1>1. CASE Ignore /\ UNCHANGED reading
  BY <1>0, <1>1 DEF Ignore, TypeOK
<1>2. CASE ready[p] = "CER" /\ HandleCER(p) /\ UNCHANGED reading /\ state[p] = "WaitCER"
  <2>1. "CEA" \in MessageTo(Other(p)) /\ "Open" \in StateOf(p)
    BY <1>2 DEF TypeOK, StateOf, MessageTo, Message, BaseMessages, Other, Side, State
  <2>2. Write(p, "CEA", {}) /\ SetState(p, "Open") /\ UNCHANGED <<socket, watchdog, inCallback>>
    BY <1>2 DEF HandleCER
  <2> QED BY <1>0, <1>2, <2>1, <2>2, WriteTypes, SetStateTypes DEF TypeOK
<1>3. CASE ready[p] = "CEA" /\ HandleCEA(p) /\ UNCHANGED reading /\ state[p] = "WaitCEA"
  <2>1. "Open" \in StateOf(p)
    BY DEF StateOf, State
  <2>2. /\ SetState(p, "Open")
        /\ inCallback' = [inCallback EXCEPT ![p] = TRUE]
        /\ UNCHANGED <<socket, wire, completion, watchdog>>
    BY <1>3 DEF HandleCEA
  <2> QED BY <1>0, <1>3, <2>1, <2>2, SetStateTypes DEF TypeOK
<1>4. CASE ready[p] = "DWR" /\ HandleDWR(p) /\ UNCHANGED reading /\ state[p] = "Open"
  <2>1. "DWA" \in MessageTo(Other(p))
    BY DEF MessageTo, Message, BaseMessages
  <2>2. Write(p, "DWA", {}) /\ UNCHANGED <<socket, state, watchdog, inCallback, opened>>
    BY <1>4 DEF HandleDWR
  <2> QED BY <1>0, <1>4, <2>1, <2>2, WriteTypes DEF TypeOK
<1>5. CASE ready[p] = "DPR" /\ HandleDPR(p) /\ UNCHANGED reading
  <2>1. "DPA" \in MessageTo(Other(p))
    BY DEF MessageTo, Message, BaseMessages
  <2>2. Write(p, "DPA", {"close"}) /\ UNCHANGED <<socket, state, watchdog, inCallback, opened>>
    BY <1>5 DEF HandleDPR
  <2> QED BY <1>0, <1>5, <2>1, <2>2, WriteTypes DEF TypeOK
<1>6. CASE ready[p] = "DPA" /\ HandleDPA(p) /\ UNCHANGED reading /\ state[p] = "Closing"
  <2>1. ClosePeer(p) /\ UNCHANGED <<completion, inCallback>>
    BY <1>6 DEF HandleDPA
  <2> QED BY <1>0, <1>6, <2>1, ClosePeerTypes DEF TypeOK
<1>7. CASE ready[p] = "BAD" /\ HandleBAD(p)
  <2>1. OnError(p) /\ reading' = [reading EXCEPT ![p] = FALSE]
        /\ UNCHANGED <<socket, wire, completion, inCallback>>
    BY <1>7 DEF HandleBAD
  <2> QED BY <1>0, <2>1, OnErrorTypes DEF TypeOK
<1> QED BY <1>1, <1>2, <1>3, <1>4, <1>5, <1>6, <1>7
        DEF HandleCER, HandleCEA, HandleDWR, HandleDPA

\* Every step of either side, of the network or of a timer keeps the types.
LEMMA TypesStep ==
  ASSUME TypeOK, [Next]_vars
  PROVE  TypeOK'
<1> USE DEF connectionVars, counters
<1>1. CASE Connect
  <2>1. "WaitCEA" \in StateOf("client") /\ "client" \in Side
    BY DEF StateOf, State, Side
  <2> QED BY <1>1, <2>1, SetStateTypes DEF Connect, TypeOK, Dialing
<1>2. CASE Resolved
  BY <1>2 DEF Resolved, TypeOK, Dialing
<1>3. CASE DialFails
  <2>1. "client" \in Side
    BY DEF Side
  <2> QED BY <1>3, <2>1, OnErrorTypes DEF DialFails, TypeOK, Dialing
<1>4. CASE Established
  BY <1>4 DEF Established, TypeOK, Dialing
<1>5. CASE HandshakeDone
  BY <1>5 DEF HandshakeDone, TypeOK, Dialing
<1>6. CASE OnConnected
  <2>1. "client" \in Side /\ "WaitCEA" \in StateOf("client") /\ "CER" \in MessageTo(Other("client"))
    BY DEF StateOf, State, Side, MessageTo, Message, BaseMessages, Other
  <2>2. CASE OnError("client") /\ UNCHANGED <<wire, completion, reading>>
    BY <1>6, <2>1, <2>2, OnErrorTypes DEF OnConnected, TypeOK, Dialing
  <2>3. CASE /\ SetState("client", "WaitCEA")
             /\ Write("client", "CER", {})
             /\ reading' = [reading EXCEPT !["client"] = TRUE]
             /\ UNCHANGED watchdog
    BY <1>6, <2>1, <2>3, SetStateTypes, WriteTypes DEF OnConnected, TypeOK, Dialing
  <2> QED BY <1>6, <2>2, <2>3 DEF OnConnected
<1>7. CASE Start
  <2>1. "WaitCER" \in StateOf("server") /\ "server" \in Side
    BY DEF StateOf, State, Side
  <2> QED BY <1>7, <2>1, SetStateTypes DEF Start, TypeOK
<1>8. CASE LinkLost
  BY <1>8 DEF LinkLost, TypeOK
<1>9. ASSUME NEW p \in Side, MessageRead(p)
      PROVE  TypeOK'
  <2>0. wire[p] \in Seq(Message) /\ wire[p] # <<>>
    BY <1>9 DEF MessageRead, TypeOK
  <2>1. Tail(wire[p]) \in Seq(Message) /\ Head(wire[p]) \in Message
    BY <2>0
  <2>2. Head(wire[p]) = wire[p][1] /\ 1 \in DOMAIN wire[p]
    BY <2>0
  <2>3. \A i \in DOMAIN Tail(wire[p]) : i + 1 \in DOMAIN wire[p] /\ Tail(wire[p])[i] = wire[p][i + 1]
    BY <2>0
  <2>4. /\ ready' = [ready EXCEPT ![p] = Head(wire[p])]
        /\ wire' = [wire EXCEPT ![p] = Tail(wire[p])]
        /\ UNCHANGED <<dialing, link, socket, reading, completion, state,
                       watchdog, inCallback, opened, sent, expired>>
    BY <1>9 DEF MessageRead
  <2>5. wire' \in [Side -> Seq(Message)] /\ ready' \in [Side -> Message \cup {"none"}]
    BY <2>1, <2>4 DEF TypeOK
  <2>6. \A q \in Side : ready'[q] \in MessageTo(q) \cup {"none"}
    BY <2>2, <2>4 DEF TypeOK
  <2>7. \A q \in Side : \A i \in DOMAIN wire'[q] : wire'[q][i] \in MessageTo(q)
    BY <2>3, <2>4 DEF TypeOK
  <2> QED BY <2>4, <2>5, <2>6, <2>7 DEF TypeOK
<1>10. ASSUME NEW p \in Side, ReadError(p)
       PROVE  TypeOK'
  BY <1>10, OnErrorTypes DEF ReadError, TypeOK
<1>11. ASSUME NEW p \in Side, FinishOpen(p)
       PROVE  TypeOK'
  BY <1>11 DEF FinishOpen, StartWatchdog, TypeOK
<1>12. ASSUME NEW p \in Side, WriteCompleted(p)
       PROVE  TypeOK'
  <2> PICK c \in completion[p] :
        /\ completion' = [completion EXCEPT ![p] = @ \ {c}]
        /\ \/ c = "close" /\ ClosePeer(p)
           \/ c = "error" /\ OnError(p) /\ UNCHANGED <<socket, wire>>
    BY <1>12 DEF WriteCompleted
  <2>1. completion' \in [Side -> SUBSET {"close", "error"}]
    BY DEF TypeOK
  <2>2. UNCHANGED <<dialing, link, ready, reading, inCallback, sent, expired>>
    BY <1>12 DEF WriteCompleted
  <2>3. CASE ClosePeer(p)
    BY <2>1, <2>2, <2>3, ClosePeerTypes DEF TypeOK
  <2>4. CASE OnError(p) /\ UNCHANGED <<socket, wire>>
    BY <2>1, <2>2, <2>4, OnErrorTypes DEF TypeOK
  <2> QED BY <2>3, <2>4
<1>13. ASSUME NEW p \in Side, WatchdogHandler(p)
       PROVE  TypeOK'
  <2>1. "DWR" \in MessageTo(Other(p))
    BY DEF MessageTo, Message, BaseMessages
  <2>2. UNCHANGED <<dialing, link, socket, reading, ready, state, inCallback,
                    opened, sent, expired>>
    BY <1>13 DEF WatchdogHandler
  <2>3. CASE Write(p, "DWR", {}) /\ StartWatchdog(p)
    BY <2>1, <2>2, <2>3, WriteTypes DEF StartWatchdog, TypeOK
  <2>4. CASE watchdog' = [watchdog EXCEPT ![p] = "off"] /\ UNCHANGED <<wire, completion>>
    BY <2>2, <2>4 DEF TypeOK
  <2> QED BY <1>13, <2>3, <2>4 DEF WatchdogHandler
<1>14. ASSUME NEW p \in Side, WatchdogExpires(p)
       PROVE  TypeOK'
  BY <1>14 DEF WatchdogExpires, TypeOK
<1>15. ASSUME NEW p \in Side, Send(p)
       PROVE  TypeOK'
  <2> PICK m \in AppMessages : Write(p, m, {})
    BY <1>15 DEF Send
  <2>1. m \in MessageTo(Other(p))
    BY AppMessagesAssumption DEF MessageTo, Message, BaseMessages
  <2>2. sent' \in [Side -> Nat]
    BY <1>15 DEF Send, TypeOK
  <2> QED BY <1>15, <2>1, <2>2, WriteTypes DEF Send, TypeOK
<1>16. ASSUME NEW p \in Side, Disconnect(p)
       PROVE  TypeOK'
  <2>1. "DPR" \in MessageTo(Other(p)) /\ "Closing" \in StateOf(p)
    BY DEF MessageTo, Message, BaseMessages, StateOf, State
  <2> QED BY <1>16, <2>1, WriteTypes, SetStateTypes, StopWatchdogTypes DEF Disconnect, TypeOK
<1>17. ASSUME NEW p \in Side, Close(p)
       PROVE  TypeOK'
  BY <1>17, ClosePeerTypes DEF Close, TypeOK
<1>18. CASE UNCHANGED vars
  BY <1>18 DEF vars, TypeOK
<1> QED BY <1>1, <1>2, <1>3, <1>4, <1>5, <1>6, <1>7, <1>8, <1>9, <1>10, <1>11, <1>12,
           <1>13, <1>14, <1>15, <1>16, <1>17, <1>18, HandlerTypes
        DEF Next, Dial, Read, Handler, Application

\* Every variable has its type in every reachable state, and each side only
\* ever meets the capability messages and the states of its own role.
THEOREM TypeCorrect == Spec => []TypeOK
<1>1. Init => TypeOK
  BY DEF Init, TypeOK, Side, Dialing, State, StateOf, MessageTo, Message
<1>2. TypeOK /\ [Next]_vars => TypeOK'
  BY TypesStep
<1> QED BY <1>1, <1>2, PTL DEF Spec

(***************************************************************************)
(* The inductive invariant.  The properties are not inductive by           *)
(* themselves: that the client cannot open alone rests on what may be on   *)
(* its way before the server has opened, and that the DPR is a last        *)
(* message on its sender having left Open for good.                        *)
(***************************************************************************)
\* Until asyncConnect has ended nothing has been said to the server; a socket
\* exists from the resolution, or from the accept, on.
DialInv ==
  /\ dialing # "over" =>
       "server" \notin opened /\ wire["server"] = <<>> /\ ready["server"] = "none"
  /\ dialing = "idle" => socket["client"] = "none"
  /\ "server" \in opened \/ state["server"] = "WaitCER" => socket["server"] # "none"

OpenedInv ==
  \A p \in Side : state[p] \in {"Open", "Closing"} => p \in opened

\* Before the server opens, the CER is all there may be.
FreshInv ==
  "server" \notin opened =>
    /\ "client" \notin opened
    /\ wire["client"] = <<>> /\ ready["client"] = "none"
    /\ Coming("server") \subseteq {"none", "CER"}

\* A client still waiting when the server is open has the CEA next, or the CEA
\* was lost with the connection and nothing else can arrive.
AnswerInv ==
  state["client"] = "WaitCEA" /\ "server" \in opened =>
    \/ ready["client"] = "CEA"
    \/ ready["client"] = "none" /\ wire["client"] # <<>> /\ wire["client"][1] = "CEA"
    \/ ready["client"] = "none" /\ wire["client"] = <<>> /\ ~Carries("server")

PendingInv ==
  \A p \in Side : "DPR" \in Coming(Other(p)) \/ "DPA" \in Coming(p)
    => p \in opened /\ state[p] \in {"Closing", "Closed"}

SessionInv == DialInv /\ OpenedInv /\ FreshInv /\ AnswerInv /\ PendingInv /\ QuietAfterDPR

IInv == TypeOK /\ SessionInv

\* What a queue holds after it grows and after it shrinks.
LEMMA QueueContents ==
  ASSUME NEW s \in Seq(Message), NEW m \in Message
  PROVE  /\ Append(s, m) \in Seq(Message) /\ Append(s, m) # <<>>
         /\ \A i \in DOMAIN s : i \in DOMAIN Append(s, m) /\ Append(s, m)[i] = s[i]
         /\ \A i \in DOMAIN Append(s, m) :
              i \in DOMAIN s \/ (i = Len(s) + 1 /\ Append(s, m)[i] = m)
         /\ \A i \in DOMAIN s : i < Len(s) + 1
         /\ s # <<>> => /\ Head(s) = s[1] /\ 1 \in DOMAIN s
                        /\ \A i \in DOMAIN Tail(s) : i + 1 \in DOMAIN s /\ Tail(s)[i] = s[i + 1]
                        /\ \A i, j \in DOMAIN Tail(s) : i < j => i + 1 < j + 1
         /\ s = <<>> => Append(s, m)[1] = m /\ DOMAIN s = {}
OBVIOUS

\* A message appended to a queue without a DPR has none before it.
LEMMA NothingAfter ==
  ASSUME NEW s \in Seq(Message), NEW m \in Message, NEW t,
         t = s \/ t = Append(s, m), \A i \in DOMAIN s : s[i] # "DPR"
  PROVE  \A i, j \in DOMAIN t : i < j => t[i] # "DPR"
<1>1. CASE t = s
  BY <1>1
<1>2. CASE t = Append(s, m)
  <2>1. DOMAIN t = 1..(Len(s) + 1) /\ Len(s) \in Nat /\ DOMAIN s = 1..Len(s)
    BY <1>2
  <2>2. ASSUME NEW i \in DOMAIN t, NEW j \in DOMAIN t, i < j
        PROVE  t[i] # "DPR"
    <3>1. i \in DOMAIN s
      BY <2>1, <2>2
    <3> QED BY <1>2, <3>1, QueueContents
  <2> QED BY <2>2
<1> QED BY <1>1, <1>2

\* Handling a message takes it away; writing one adds it.
LEMMA ComingShrinks ==
  ASSUME NEW p \in Side, ready'[p] \in {ready[p], "none"}, wire'[p] = wire[p]
  PROVE  Coming(p)' \subseteq Coming(p) \cup {"none"}
BY DEF Coming

\* A write adds nothing to what is on its way but the message written.
LEMMA ComingGrows ==
  ASSUME NEW p \in Side, NEW m \in Message, wire[p] \in Seq(Message),
         ready'[p] = ready[p], wire'[p] = wire[p] \/ wire'[p] = Append(wire[p], m)
  PROVE  Coming(p)' \subseteq Coming(p) \cup {m}
<1>1. ASSUME NEW i \in DOMAIN wire'[p]
      PROVE  wire'[p][i] \in Coming(p) \cup {m}
  <2>1. CASE wire'[p] = wire[p]
    BY <1>1, <2>1 DEF Coming
  <2>2. CASE wire'[p] = Append(wire[p], m)
    <3>1. (i \in DOMAIN wire[p] /\ wire'[p][i] = wire[p][i]) \/ wire'[p][i] = m
      BY <1>1, <2>2, QueueContents
    <3> QED BY <3>1 DEF Coming
  <2> QED BY <2>1, <2>2
<1>2. ready'[p] \in Coming(p)
  BY DEF Coming
<1> QED BY <1>1, <1>2 DEF Coming

\* Nothing a Peer that has ended does, or suffers, disturbs the invariant.
LEMMA EndStep ==
  ASSUME IInv, NEW p \in Side,
         state' = [state EXCEPT ![p] = "Closed"], opened' = opened,
         wire' = wire \/ wire' = [wire EXCEPT ![p] = <<>>],
         ready' = ready \/ ready' = [ready EXCEPT ![p] = "none"],
         socket' = socket \/ (socket[p] = "open" /\ socket' = [socket EXCEPT ![p] = "closed"]),
         link' = link, dialing' = dialing \/ (dialing # "idle" /\ dialing' = "over")
  PROVE  SessionInv'
<1> USE DEF IInv, SessionInv, TypeOK
<1>0. DOMAIN <<>> = {}
  OBVIOUS
<1>1. \A q \in Side : /\ wire'[q] = wire[q] \/ wire'[q] = <<>>
                      /\ ready'[q] = ready[q] \/ ready'[q] = "none"
                      /\ Coming(q)' \subseteq Coming(q) \cup {"none"}
  <2>1. \A q \in Side : /\ wire'[q] = wire[q] \/ wire'[q] = <<>>
                        /\ ready'[q] = ready[q] \/ ready'[q] = "none"
    OBVIOUS
  <2> QED BY <1>0, <2>1 DEF Coming
<1>2. DialInv'
  BY <1>1 DEF DialInv, Side
<1>3. OpenedInv'
  BY DEF OpenedInv
<1>4. FreshInv'
  BY <1>1 DEF FreshInv, Side
<1>5. AnswerInv'
  BY DEF AnswerInv, Carries, Other, Side
<1>6. PendingInv'
  BY <1>1, OtherSide DEF PendingInv
<1>7. QuietAfterDPR'
  BY <1>0, <1>1 DEF QuietAfterDPR
<1> QED BY <1>2, <1>3, <1>4, <1>5, <1>6, <1>7

\* A message a Peer sends while it is Open, or its answer to a DPR.
LEMMA TrafficStep ==
  ASSUME IInv, NEW p \in Side, NEW m \in Message \ {"CER", "CEA", "DPR"},
         NEW c \in SUBSET {"close", "error"}, Write(p, m, c),
         state[p] = "Open" \/ ready[p] = "DPR",
         m = "DPA" => ready[p] = "DPR",
         m # "DPA" => state[p] = "Open",
         ready' = ready \/ (state[p] # "WaitCEA" /\ ready' = [ready EXCEPT ![p] = "none"]),
         UNCHANGED <<dialing, link, socket, state, opened>>
  PROVE  SessionInv'
<1> USE DEF IInv, SessionInv
<1>0. Other(p) \in Side /\ Other(p) # p /\ Side = {p, Other(p)}
  BY OtherSide DEF Side
<1>1. /\ wire' \in [Side -> Seq(Message)]
      /\ wire'[p] = wire[p]
      /\ wire' = wire \/ (Carries(p) /\ wire'[Other(p)] = Append(wire[Other(p)], m))
  BY WriteEffect DEF TypeOK
<1>2. Coming(p)' \subseteq Coming(p) \cup {"none"} /\ Coming(Other(p))' \subseteq Coming(Other(p)) \cup {m}
  <2>1. ready'[Other(p)] = ready[Other(p)] /\ ready'[p] \in {ready[p], "none"}
    BY <1>0 DEF TypeOK
  <2>2. wire[Other(p)] \in Seq(Message)
    BY <1>0 DEF TypeOK
  <2>3. Coming(p)' \subseteq Coming(p) \cup {"none"}
    BY <1>1, <2>1, ComingShrinks
  <2>4. Coming(Other(p))' \subseteq Coming(Other(p)) \cup {m}
    BY <1>0, <1>1, <2>1, <2>2, ComingGrows
  <2> QED BY <2>3, <2>4
<1>3. "server" \in opened /\ dialing = "over"
  BY <1>0 DEF FreshInv, OpenedInv, DialInv, Coming, Other, Side
<1>4. DialInv'
  BY <1>3 DEF DialInv
<1>5. OpenedInv'
  BY DEF OpenedInv
<1>6. FreshInv'
  BY <1>3 DEF FreshInv
<1>7. AnswerInv'
  <2>1. SUFFICES ASSUME state["client"] = "WaitCEA"
                 PROVE  AnswerInv'
    BY DEF AnswerInv
  <2>2. p # "client"
    BY <2>1, <1>3 DEF AnswerInv
  <2>3. p = "server" /\ Other(p) = "client" /\ ready'["client"] = ready["client"]
    BY <2>2, <1>0 DEF Side, Other, TypeOK
  <2>4. Carries("server")' = Carries("server")
    BY DEF Carries
  <2>5. wire["client"] \in Seq(Message) /\ m \in Message
    BY DEF TypeOK, Side
  <2> QED BY <1>1, <1>3, <2>1, <2>3, <2>4, <2>5, QueueContents DEF AnswerInv
<1>8. PendingInv'
  <2>1. ASSUME NEW q \in Side, "DPR" \in Coming(Other(q))' \/ "DPA" \in Coming(q)'
        PROVE  q \in opened /\ state[q] \in {"Closing", "Closed"}
    <3>1. CASE "DPR" \in Coming(Other(q)) \/ "DPA" \in Coming(q)
      BY <3>1 DEF PendingInv
    <3>2. CASE q = Other(p) /\ m = "DPA"
      BY <3>2, <1>0, OtherSide DEF PendingInv, Coming
    <3> QED BY <2>1, <1>0, <1>2, <3>1, <3>2, OtherSide
  <2> QED BY <2>1 DEF PendingInv
<1>9. QuietAfterDPR'
  <2>1. wire' = wire => QuietAfterDPR'
    BY DEF QuietAfterDPR
  <2>2. ASSUME wire'[Other(p)] = Append(wire[Other(p)], m)
        PROVE  QuietAfterDPR'
    <3>1. wire[Other(p)] \in Seq(Message) /\ m \in Message
      BY <1>0 DEF TypeOK
    <3>2. m = "DPA" \/ \A i \in DOMAIN wire[Other(p)] : wire[Other(p)][i] # "DPR"
      BY DEF PendingInv, Coming
    <3>3. \A i, j \in DOMAIN wire'[Other(p)] :
            i < j /\ wire'[Other(p)][i] = "DPR" => wire'[Other(p)][j] = "DPA"
      BY <1>0, <2>2, <3>1, <3>2, QueueContents DEF QuietAfterDPR
    <3> QED BY <1>0, <1>1, <3>3 DEF QuietAfterDPR
  <2> QED BY <1>1, <2>1, <2>2
<1> QED BY <1>4, <1>5, <1>6, <1>7, <1>8, <1>9

\* disconnect: the DPR is the first its sender writes, and it leaves Open.
LEMMA DisconnectStep ==
  ASSUME IInv, NEW p \in Side, Disconnect(p)
  PROVE  SessionInv'
<1> USE DEF IInv, SessionInv
<1>0. Other(p) \in Side /\ Other(p) # p /\ Side = {p, Other(p)}
  BY OtherSide DEF Side
<1>1. /\ state[p] = "Open" /\ p \in opened
      /\ state' = [state EXCEPT ![p] = "Closing"] /\ opened' = opened
      /\ UNCHANGED <<dialing, link, socket, ready>>
  BY DEF Disconnect, SetState, connectionVars, OpenedInv
<1>2. "DPR" \in Message
  BY DEF Message, BaseMessages
<1>3. /\ wire[p] \in Seq(Message) /\ wire[Other(p)] \in Seq(Message)
      /\ wire' \in [Side -> Seq(Message)]
      /\ wire'[p] = wire[p]
      /\ wire' = wire \/ wire'[Other(p)] = Append(wire[Other(p)], "DPR")
  BY <1>0, <1>2, WriteEffect DEF Disconnect, TypeOK
<1>4. /\ Coming(p)' \subseteq Coming(p) \cup {"none"}
      /\ Coming(Other(p))' \subseteq Coming(Other(p)) \cup {"DPR"}
  BY <1>0, <1>1, <1>2, <1>3, ComingShrinks, ComingGrows
<1>5. "server" \in opened /\ dialing = "over"
  BY <1>1 DEF FreshInv, DialInv, Side
<1>6. DialInv'
  BY <1>0, <1>1, <1>5 DEF DialInv, TypeOK
<1>7. OpenedInv'
  BY <1>1 DEF OpenedInv, TypeOK
<1>8. FreshInv'
  BY <1>1, <1>5 DEF FreshInv
<1>9. AnswerInv'
  <2>1. SUFFICES ASSUME state["client"] = "WaitCEA"
                 PROVE  AnswerInv'
    BY <1>1 DEF AnswerInv, TypeOK, Side
  <2>2. p = "server" /\ Other(p) = "client"
    BY <1>1, <2>1 DEF Side, Other
  <2>3. /\ Carries("server")' = Carries("server")
        /\ ~Carries("server") => wire' = wire
    BY <1>1, <1>2, <2>2, WriteEffect DEF Carries, Disconnect, TypeOK
  <2> QED BY <1>1, <1>2, <1>3, <1>5, <2>1, <2>2, <2>3, QueueContents DEF AnswerInv
<1>10. PendingInv'
  BY <1>0, <1>1, <1>4, OtherSide DEF PendingInv, TypeOK
<1>11. QuietAfterDPR'
  <2>1. \A i \in DOMAIN wire[Other(p)] : wire[Other(p)][i] # "DPR"
    BY <1>0, <1>1 DEF PendingInv, Coming
  <2>2. \A i, j \in DOMAIN wire'[Other(p)] :
          i < j /\ wire'[Other(p)][i] = "DPR" => wire'[Other(p)][j] = "DPA"
    BY <1>2, <1>3, <2>1, NothingAfter
  <2> QED BY <1>0, <1>3, <2>2 DEF QuietAfterDPR
<1> QED BY <1>6, <1>7, <1>8, <1>9, <1>10, <1>11

\* handleCER, when it answers: the CEA is the first message of its queue.
LEMMA AnswerStep ==
  ASSUME IInv, NEW p \in Side, state[p] = "WaitCER", ready[p] = "CER",
         Write(p, "CEA", {}), SetState(p, "Open"),
         ready' = [ready EXCEPT ![p] = "none"],
         UNCHANGED <<dialing, link, socket>>
  PROVE  SessionInv'
<1> USE DEF IInv, SessionInv
<1>0. p = "server" /\ Other(p) = "client" /\ Side = {"client", "server"}
  BY DEF TypeOK, StateOf, Side, Other
<1>1. /\ state' = [state EXCEPT !["server"] = "Open"]
      /\ opened' = opened \cup {"server"}
      /\ ready'["server"] = "none" /\ ready'["client"] = ready["client"]
  BY <1>0 DEF SetState, TypeOK
<1>2. "CEA" \in Message
  BY DEF Message, BaseMessages
<1>3. /\ wire["client"] \in Seq(Message)
      /\ wire'["server"] = wire["server"]
      /\ \/ wire' = wire
         \/ wire'["client"] = Append(wire["client"], "CEA")
  BY <1>0, <1>2, WriteEffect DEF TypeOK
<1>4. dialing = "over"
  BY <1>0 DEF DialInv
<1>5. Coming("server")' \subseteq Coming("server") \cup {"none"}
      /\ Coming("client")' \subseteq Coming("client") \cup {"CEA"}
  BY <1>0, <1>1, <1>2, <1>3, ComingShrinks, ComingGrows
<1>6. DialInv'
  BY <1>0, <1>4 DEF DialInv
<1>7. OpenedInv'
  BY <1>0, <1>1 DEF OpenedInv, TypeOK
<1>8. FreshInv'
  BY <1>1 DEF FreshInv
<1>9. AnswerInv'
  <2>1. CASE "server" \in opened
    <3>1. state'["client"] = state["client"]
      BY <1>1 DEF TypeOK
    <3>2. Carries("server")' = Carries("server") /\ (~Carries("server") => wire' = wire)
      BY <1>0, <1>2, WriteEffect DEF Carries, TypeOK
    <3> QED BY <1>1, <1>2, <1>3, <2>1, <3>1, <3>2, QueueContents DEF AnswerInv
  <2>2. CASE "server" \notin opened
    <3>1. wire["client"] = <<>> /\ ready["client"] = "none"
      BY <2>2 DEF FreshInv
    <3>2. CASE Carries("server")
      <4>1. wire'["client"] = Append(wire["client"], "CEA")
        BY <1>0, <3>2 DEF Write, TypeOK
      <4> QED BY <1>1, <1>2, <1>3, <3>1, <4>1, QueueContents DEF AnswerInv
    <3>3. CASE ~Carries("server")
      <4>1. wire' = wire /\ ~Carries("server")'
        BY <1>0, <1>2, <3>3, WriteEffect DEF Carries, TypeOK
      <4> QED BY <1>1, <3>1, <4>1 DEF AnswerInv
    <3> QED BY <3>2, <3>3
  <2> QED BY <2>1, <2>2
<1>10. PendingInv'
  <2>1. "DPR" \notin Coming("client") /\ "DPA" \notin Coming("server")
    BY <1>0 DEF PendingInv, Other
  <2> QED BY <1>0, <1>1, <1>5, <2>1, OtherSide DEF PendingInv, TypeOK, Other
<1>11. QuietAfterDPR'
  <2>1. \A i \in DOMAIN wire["client"] : wire["client"][i] # "DPR"
    BY <1>0 DEF PendingInv, Coming, Other
  <2>2. \A i, j \in DOMAIN wire'["client"] :
          i < j /\ wire'["client"][i] = "DPR" => wire'["client"][j] = "DPA"
    BY <1>2, <1>3, <2>1, NothingAfter
  <2> QED BY <1>0, <1>3, <2>2 DEF QuietAfterDPR
<1> QED BY <1>6, <1>7, <1>8, <1>9, <1>10, <1>11

\* handleCEA, when it opens the client: the server is open, and waited for no
\* answer to a DPR of the client's.
LEMMA OpenStep ==
  ASSUME IInv, NEW p \in Side, state[p] = "WaitCEA", ready[p] = "CEA",
         SetState(p, "Open"), ready' = [ready EXCEPT ![p] = "none"],
         UNCHANGED <<dialing, link, socket, wire>>
  PROVE  SessionInv'
<1> USE DEF IInv, SessionInv
<1>0. p = "client" /\ Side = {"client", "server"}
  BY DEF TypeOK, StateOf, Side
<1>1. /\ state' = [state EXCEPT !["client"] = "Open"]
      /\ opened' = opened \cup {"client"}
      /\ ready'["client"] = "none" /\ ready'["server"] = ready["server"]
  BY <1>0 DEF SetState, TypeOK
<1>2. "server" \in opened
  BY <1>0 DEF FreshInv
<1>3. \A q \in Side : Coming(q)' \subseteq Coming(q) \cup {"none"}
  BY <1>0, <1>1, ComingShrinks
<1>4. DialInv' /\ OpenedInv' /\ FreshInv'
  BY <1>0, <1>1, <1>2 DEF DialInv, OpenedInv, FreshInv, TypeOK
<1>5. AnswerInv'
  BY <1>0, <1>1 DEF AnswerInv, TypeOK
<1>6. PendingInv'
  BY <1>0, <1>1, <1>3, OtherSide DEF PendingInv, TypeOK
<1>7. QuietAfterDPR'
  BY DEF QuietAfterDPR
<1> QED BY <1>4, <1>5, <1>6, <1>7

\* A message ignored, a timer, the network, the steps of asyncConnect before
\* its last: no Peer changes its state and nothing is written.
LEMMA BackgroundStep ==
  ASSUME IInv, NEW p \in Side,
         UNCHANGED <<state, opened, wire>>,
         ready' = ready
           \/ (ready' = [ready EXCEPT ![p] = "none"] /\ ready[p] # "CEA")
           \/ (ready' = [ready EXCEPT ![p] = "none"] /\ state[p] # "WaitCEA"),
         \/ UNCHANGED <<dialing, link, socket>>
         \/ UNCHANGED <<dialing, socket>> /\ link' = "lost"
         \/ dialing \notin {"over", "idle"} /\ dialing' \notin {"over", "idle"}
             /\ (socket' = socket \/ socket' = [socket EXCEPT !["client"] = "open"])
  PROVE  SessionInv'
<1> USE DEF IInv, SessionInv
<1>0. \A q \in Side : ready'[q] \in {ready[q], "none"}
  BY DEF TypeOK
<1>1. \A q \in Side : Coming(q)' \subseteq Coming(q) \cup {"none"}
  BY <1>0, ComingShrinks
<1>2. DialInv'
  BY <1>0 DEF DialInv, TypeOK, Side
<1>3. OpenedInv'
  BY DEF OpenedInv
<1>4. FreshInv'
  BY <1>0, <1>1 DEF FreshInv, Side
<1>5. AnswerInv'
  <2>1. SUFFICES ASSUME state["client"] = "WaitCEA", "server" \in opened
                 PROVE  AnswerInv'
    BY DEF AnswerInv
  <2>2. dialing = "over"
    BY <2>1 DEF DialInv
  <2>3. ready'["client"] = ready["client"]
    BY <2>1 DEF AnswerInv, TypeOK, Side
  <2>4. ~Carries("server") => ~Carries("server")'
    BY <2>2 DEF Carries
  <2> QED BY <2>1, <2>3, <2>4 DEF AnswerInv
<1>6. PendingInv'
  BY <1>1, OtherSide DEF PendingInv
<1>7. QuietAfterDPR'
  BY DEF QuietAfterDPR
<1> QED BY <1>2, <1>3, <1>4, <1>5, <1>6, <1>7

\* A read takes the oldest message of the queue.
LEMMA ReadStep ==
  ASSUME IInv, NEW p \in Side, MessageRead(p)
  PROVE  SessionInv'
<1> USE DEF IInv, SessionInv
<1>0. "CER" \in Message
  BY DEF Message, BaseMessages
<1>1. /\ ready[p] = "none" /\ wire[p] # <<>> /\ wire[p] \in Seq(Message)
      /\ ready' = [ready EXCEPT ![p] = Head(wire[p])]
      /\ wire' = [wire EXCEPT ![p] = Tail(wire[p])]
      /\ UNCHANGED <<dialing, link, socket, state, opened>>
  BY DEF MessageRead, connectionVars, TypeOK
<1>2. /\ Head(wire[p]) = wire[p][1] /\ 1 \in DOMAIN wire[p]
      /\ \A i \in DOMAIN Tail(wire[p]) : i + 1 \in DOMAIN wire[p] /\ Tail(wire[p])[i] = wire[p][i + 1]
      /\ \A i, j \in DOMAIN Tail(wire[p]) : i < j => i + 1 < j + 1
  BY <1>1, <1>0, QueueContents
<1>3. \A q \in Side : Coming(q)' \subseteq Coming(q)
  BY <1>1, <1>2 DEF Coming, TypeOK
<1>4. DialInv'
  BY <1>1 DEF DialInv, TypeOK
<1>5. OpenedInv'
  BY <1>1 DEF OpenedInv
<1>6. FreshInv'
  BY <1>1, <1>3 DEF FreshInv, TypeOK, Side
<1>7. AnswerInv'
  <2>1. Carries("server")' = Carries("server")
    BY <1>1 DEF Carries
  <2> QED BY <1>1, <1>2, <2>1 DEF AnswerInv, TypeOK, Side
<1>8. PendingInv'
  BY <1>1, <1>3, OtherSide DEF PendingInv
<1>9. QuietAfterDPR'
  BY <1>1, <1>2 DEF QuietAfterDPR, TypeOK
<1> QED BY <1>4, <1>5, <1>6, <1>7, <1>8, <1>9

\* The client's CER is the first message of the session.
LEMMA RequestStep ==
  ASSUME IInv, dialing = "connected", dialing' = "over",
         SetState("client", "WaitCEA"), Write("client", "CER", {}),
         UNCHANGED <<link, socket, ready>>
  PROVE  SessionInv'
<1> USE DEF IInv, SessionInv
<1>0. "client" \in Side /\ Other("client") = "server" /\ Side = {"client", "server"}
  BY DEF Side, Other
<1>1. "CER" \in Message
  BY DEF Message, BaseMessages
<1>2. /\ "server" \notin opened /\ wire["server"] = <<>> /\ ready["server"] = "none"
      /\ opened' = opened /\ state' = [state EXCEPT !["client"] = "WaitCEA"]
  BY DEF DialInv, SetState
<1>3. /\ wire["server"] \in Seq(Message)
      /\ wire'["client"] = wire["client"]
      /\ wire'["server"] = wire["server"] \/ wire'["server"] = Append(wire["server"], "CER")
  BY <1>0, <1>1, WriteEffect DEF TypeOK
<1>4. /\ Coming("client")' \subseteq Coming("client") \cup {"none"}
      /\ Coming("server")' \subseteq Coming("server") \cup {"CER"}
  BY <1>0, <1>1, <1>3, ComingShrinks, ComingGrows
<1>5. DialInv' /\ OpenedInv' /\ FreshInv' /\ AnswerInv'
  BY <1>0, <1>2, <1>3, <1>4 DEF DialInv, OpenedInv, FreshInv, AnswerInv, TypeOK
<1>6. PendingInv'
  BY <1>0, <1>2, <1>4 DEF PendingInv, FreshInv, TypeOK, Other
<1>7. QuietAfterDPR'
  <2>1. \A i \in DOMAIN wire["server"] : wire["server"][i] # "DPR"
    BY <1>2
  <2>2. \A i, j \in DOMAIN wire'["server"] : i < j => wire'["server"][i] # "DPR"
    BY <1>1, <1>3, <2>1, NothingAfter
  <2> QED BY <1>0, <1>3, <2>2 DEF QuietAfterDPR
<1> QED BY <1>5, <1>6, <1>7

\* connect and start find no trace of an earlier session.
LEMMA ConnectStep ==
  ASSUME IInv, Connect
  PROVE  SessionInv'
<1> USE DEF IInv, SessionInv, Connect, SetState, counters
<1>1. "server" \notin opened /\ opened' = opened /\ "client" \notin opened
      /\ state' = [state EXCEPT !["client"] = "WaitCEA"]
      /\ UNCHANGED <<wire, ready, socket>>
  BY DEF DialInv, FreshInv
<1>2. \A q \in Side : Coming(q)' = Coming(q)
  BY <1>1 DEF Coming
<1>3. DialInv' /\ OpenedInv' /\ FreshInv' /\ AnswerInv'
  BY <1>1, <1>2 DEF DialInv, OpenedInv, FreshInv, AnswerInv, TypeOK, Side
<1>4. PendingInv'
  BY <1>1, <1>2, OtherSide DEF PendingInv, TypeOK, Side
<1>5. QuietAfterDPR'
  BY <1>1 DEF QuietAfterDPR
<1> QED BY <1>3, <1>4, <1>5

\* The server starts before anything has been written to it or by it.
LEMMA StartStep ==
  ASSUME IInv, Start
  PROVE  SessionInv'
<1> USE DEF IInv, SessionInv, Start, SetState, counters
<1>1. /\ socket["server"] = "none" /\ socket' = [socket EXCEPT !["server"] = "open"]
      /\ opened' = opened /\ state' = [state EXCEPT !["server"] = "WaitCER"]
      /\ UNCHANGED <<dialing, link, wire, ready>>
  OBVIOUS
<1>2. "server" \notin opened /\ "client" \notin opened
  BY <1>1 DEF DialInv, FreshInv
<1>3. \A q \in Side : Coming(q)' = Coming(q)
  BY <1>1 DEF Coming
<1>4. DialInv' /\ OpenedInv' /\ FreshInv' /\ AnswerInv'
  BY <1>1, <1>2, <1>3 DEF DialInv, OpenedInv, FreshInv, AnswerInv, TypeOK, Side
<1>5. PendingInv'
  BY <1>1, <1>2, <1>3, OtherSide DEF PendingInv, TypeOK, Side
<1>6. QuietAfterDPR'
  BY <1>1 DEF QuietAfterDPR
<1> QED BY <1>4, <1>5, <1>6

\* Handling the message that was read preserves the invariant, whichever it is.
LEMMA HandlerStep ==
  ASSUME IInv, NEW p \in Side, HandleMessage(p)
  PROVE  SessionInv'
<1>0. /\ ready' = [ready EXCEPT ![p] = "none"]
      /\ UNCHANGED <<dialing, link>>
  BY DEF HandleMessage
<1>1. CASE Ignore /\ (ready[p] # "CEA" \/ state[p] # "WaitCEA")
  BY <1>0, <1>1, BackgroundStep DEF Ignore
<1>2. CASE ready[p] = "CER" /\ HandleCER(p) /\ state[p] = "WaitCER"
  BY <1>0, <1>2, AnswerStep DEF HandleCER
<1>3. CASE ready[p] = "CEA" /\ HandleCEA(p) /\ state[p] = "WaitCEA"
  BY <1>0, <1>3, OpenStep DEF HandleCEA
<1>4. CASE ready[p] = "DWR" /\ HandleDWR(p) /\ state[p] = "Open"
  <2>1. "DWA" \in Message \ {"CER", "CEA", "DPR"}
    BY DEF Message, BaseMessages
  <2> QED BY <1>0, <1>4, <2>1, TrafficStep DEF HandleDWR
<1>5. CASE ready[p] = "DPR" /\ HandleDPR(p)
  <2>1. "DPA" \in Message \ {"CER", "CEA", "DPR"}
    BY DEF Message, BaseMessages
  <2>2. state[p] # "WaitCEA"
    BY <1>5 DEF IInv, SessionInv, AnswerInv, FreshInv, TypeOK, StateOf, Side
  <2> QED BY <1>0, <1>5, <2>1, <2>2, TrafficStep DEF HandleDPR
<1>6. CASE ready[p] = "DPA" /\ HandleDPA(p) /\ state[p] = "Closing"
  BY <1>0, <1>6, EndStep DEF HandleDPA, ClosePeer, CloseConnection, SetState
<1>7. CASE HandleBAD(p)
  BY <1>0, <1>7, EndStep DEF HandleBAD, OnError, SetState
<1> QED BY <1>1, <1>2, <1>3, <1>4, <1>5, <1>6, <1>7
        DEF HandleMessage, HandleCER, HandleCEA, HandleDWR, HandleDPA

\* Every step of the session preserves the invariant.
LEMMA SessionStep ==
  ASSUME IInv, [Next]_vars
  PROVE  IInv'
<1> SUFFICES SessionInv'
  BY TypesStep DEF IInv
<1> USE DEF connectionVars, counters
<1>0. "client" \in Side
  BY DEF Side
<1>1. CASE DialFails
  BY <1>0, <1>1, EndStep DEF DialFails, OnError, SetState
<1>2. CASE OnConnected
  <2>1. CASE OnError("client") /\ UNCHANGED wire
    BY <1>0, <1>2, <2>1, EndStep DEF OnConnected, OnError, SetState
  <2>2. CASE SetState("client", "WaitCEA") /\ Write("client", "CER", {})
    BY <1>2, <2>2, RequestStep DEF OnConnected
  <2> QED BY <1>2, <2>1, <2>2 DEF OnConnected
<1>3. CASE Resolved
  BY <1>0, <1>3, BackgroundStep DEF Resolved
<1>4. CASE Established
  BY <1>0, <1>4, BackgroundStep DEF Established
<1>5. CASE HandshakeDone
  BY <1>0, <1>5, BackgroundStep DEF HandshakeDone
<1>6. CASE LinkLost
  BY <1>0, <1>6, BackgroundStep DEF LinkLost
<1>7. ASSUME NEW p \in Side, ReadError(p)
      PROVE  SessionInv'
  BY <1>7, EndStep DEF ReadError, OnError, SetState
<1>8. ASSUME NEW p \in Side, FinishOpen(p)
      PROVE  SessionInv'
  BY <1>8, BackgroundStep DEF FinishOpen
<1>9. ASSUME NEW p \in Side, WriteCompleted(p)
      PROVE  SessionInv'
  <2>1. CASE ClosePeer(p)
    BY <1>9, <2>1, EndStep DEF WriteCompleted, ClosePeer, CloseConnection, SetState
  <2>2. CASE OnError(p) /\ UNCHANGED <<socket, wire>>
    BY <1>9, <2>2, EndStep DEF WriteCompleted, OnError, SetState
  <2> QED BY <1>9, <2>1, <2>2 DEF WriteCompleted
<1>10. ASSUME NEW p \in Side, WatchdogHandler(p)
       PROVE  SessionInv'
  <2>1. "DWR" \in Message \ {"CER", "CEA", "DPR"}
    BY DEF Message, BaseMessages
  <2>2. CASE state[p] = "Open"
    BY <1>10, <2>1, <2>2, TrafficStep DEF WatchdogHandler
  <2>3. CASE state[p] # "Open"
    BY <1>10, <2>3, BackgroundStep DEF WatchdogHandler
  <2> QED BY <2>2, <2>3
<1>11. ASSUME NEW p \in Side, WatchdogExpires(p)
       PROVE  SessionInv'
  BY <1>11, BackgroundStep DEF WatchdogExpires
<1>12. ASSUME NEW p \in Side, Send(p)
       PROVE  SessionInv'
  <2> PICK m \in AppMessages : Write(p, m, {})
    BY <1>12 DEF Send
  <2>1. m \in Message \ {"CER", "CEA", "DPR"} /\ m # "DPA"
    BY AppMessagesAssumption DEF Message, BaseMessages
  <2> QED BY <1>12, <2>1, TrafficStep DEF Send
<1>13. ASSUME NEW p \in Side, Close(p)
       PROVE  SessionInv'
  BY <1>13, EndStep DEF Close, ClosePeer, CloseConnection, SetState
<1>14. CASE UNCHANGED vars
  BY <1>0, <1>14, BackgroundStep DEF vars
<1> QED BY <1>1, <1>2, <1>3, <1>4, <1>5, <1>6, <1>7, <1>8, <1>9, <1>10, <1>11, <1>12,
           <1>13, <1>14, ConnectStep, StartStep, ReadStep, HandlerStep, DisconnectStep
        DEF Next, Dial, Read, Handler, Application

\* The session invariant, of which the properties below are consequences.
THEOREM Invariance == Spec => []IInv
<1>1. Init => IInv
  <2>1. Init => TypeOK
    BY DEF Init, TypeOK, Side, Dialing, State, StateOf, MessageTo, Message
  <2>2. Init => SessionInv
    BY DEF Init, SessionInv, DialInv, OpenedInv, FreshInv, AnswerInv, PendingInv,
           QuietAfterDPR, Coming, Side, Other
  <2> QED BY <2>1, <2>2 DEF IInv
<1>2. IInv /\ [Next]_vars => IInv'
  BY SessionStep
<1> QED BY <1>1, <1>2, PTL DEF Spec

\* A client that has been Open had a server that opened first.
THEOREM ServerOpensFirstAlways == Spec => []ServerOpensFirst
<1>1. IInv => ServerOpensFirst
  BY DEF IInv, SessionInv, FreshInv, ServerOpensFirst
<1> QED BY <1>1, Invariance, PTL

\* The CEA reaches a waiting client before anything else the server sends.
THEOREM CeaFirstAlways == Spec => []CeaFirst
<1>1. IInv => CeaFirst
  <2> SUFFICES ASSUME IInv, state["client"] = "WaitCEA"
               PROVE  /\ ready["client"] \in {"none", "CEA"}
                      /\ ready["client"] = "none" /\ wire["client"] # <<>>
                         => Head(wire["client"]) = "CEA"
    BY DEF CeaFirst
  <2>1. wire["client"] # <<>> => Head(wire["client"]) = wire["client"][1]
    BY DEF IInv, TypeOK, Side
  <2> QED BY <2>1 DEF IInv, SessionInv, AnswerInv, FreshInv
<1> QED BY <1>1, Invariance, PTL

\* Only the answer to the other side's DPR follows a Peer's own DPR.
THEOREM QuietAfterDPRAlways == Spec => []QuietAfterDPR
<1>1. IInv => QuietAfterDPR
  BY DEF IInv, SessionInv
<1> QED BY <1>1, Invariance, PTL

\* From its DPR until the answer is handled a Peer is Closing or Closed.
THEOREM DisconnectPendingAlways == Spec => []DisconnectPending
<1>1. IInv => DisconnectPending
  BY DEF IInv, SessionInv, PendingInv, DisconnectPending
<1> QED BY <1>1, Invariance, PTL

(***************************************************************************)
(* A Peer that has been Open is never brought back.                        *)
(***************************************************************************)
\* What a step does to a Peer's state: it ends it, or moves it on from the one
\* state that the handler's guard, or the invariant, demands.
LEMMA StateStep ==
  ASSUME IInv, [Next]_vars, NEW q \in opened
  PROVE  \/ state'[q] = state[q]
         \/ state'[q] = "Closed"
         \/ state[q] \in {"WaitCEA", "WaitCER"} /\ state'[q] = "Open"
         \/ state[q] = "Open" /\ state'[q] = "Closing"
<1> USE DEF IInv, SessionInv, SetState
<1>0. q \in Side /\ "server" \in opened /\ dialing = "over" /\ socket["server"] # "none"
      /\ state \in [Side -> State]
  BY DEF TypeOK, DialInv, FreshInv, Side
<1>1. CASE Connect \/ Dial \/ Start
  BY <1>0, <1>1 DEF Connect, Dial, Start, Resolved, DialFails, Established,
                    HandshakeDone, OnConnected
<1>2. CASE LinkLost \/ UNCHANGED vars
  BY <1>2 DEF LinkLost, vars
<1>3. ASSUME NEW p \in Side, Read(p)
      PROVE  state' = state \/ state' = [state EXCEPT ![p] = "Closed"]
  BY <1>3 DEF Read, MessageRead, ReadError, OnError
<1>4. ASSUME NEW p \in Side, HandleMessage(p)
      PROVE  \/ state' = state
             \/ state' = [state EXCEPT ![p] = "Closed"]
             \/ state[p] \in {"WaitCEA", "WaitCER"} /\ state' = [state EXCEPT ![p] = "Open"]
  BY <1>4 DEF HandleMessage, HandleCER, HandleCEA, HandleDWR, HandleDPR, HandleDPA,
              HandleBAD, Ignore, OnError, ClosePeer
<1>5. ASSUME NEW p \in Side, FinishOpen(p) \/ WriteCompleted(p) \/ WatchdogHandler(p)
                             \/ WatchdogExpires(p)
      PROVE  state' = state \/ state' = [state EXCEPT ![p] = "Closed"]
  BY <1>5 DEF FinishOpen, WriteCompleted, WatchdogHandler, WatchdogExpires, OnError, ClosePeer
<1>6. ASSUME NEW p \in Side, Application(p)
      PROVE  \/ state' = state
             \/ state' = [state EXCEPT ![p] = "Closed"]
             \/ state[p] = "Open" /\ state' = [state EXCEPT ![p] = "Closing"]
  BY <1>6 DEF Application, Send, Disconnect, Close, ClosePeer
<1> QED BY <1>0, <1>1, <1>2, <1>3, <1>4, <1>5, <1>6 DEF Next, Handler

\* A step changes the state of one side at most, and opens it only if the
\* server is, or becomes, open.
LEMMA OneSideStep ==
  ASSUME IInv, [Next]_vars
  PROVE  \/ UNCHANGED <<state, opened>>
         \/ \E p \in Side, s \in State :
              SetState(p, s) /\ (s = "Open" => p = "server" \/ "server" \in opened)
<1> USE DEF State
<1>1. CASE Connect \/ Dial \/ Start
  BY <1>1 DEF Connect, Dial, Start, Resolved, DialFails, Established, HandshakeDone,
              OnConnected, OnError, Side
<1>2. CASE LinkLost \/ UNCHANGED vars
  BY <1>2 DEF LinkLost, vars
<1>3. ASSUME NEW p \in Side, Read(p)
      PROVE  UNCHANGED <<state, opened>> \/ SetState(p, "Closed")
  BY <1>3 DEF Read, MessageRead, ReadError, OnError
<1>4. ASSUME NEW p \in Side, HandleMessage(p)
      PROVE  \/ UNCHANGED <<state, opened>>
             \/ SetState(p, "Closed")
             \/ SetState(p, "Open") /\ (p = "server" \/ "server" \in opened)
  <2>1. CASE ready[p] = "CER"
    <3>1. p = "server"
      BY <2>1 DEF IInv, TypeOK, MessageTo, Side
    <3> QED
      BY <1>4, <2>1, <3>1 DEF HandleMessage, HandleCER, Ignore
  <2>2. CASE ready[p] = "CEA"
    <3>1. "server" \in opened
      BY <2>2 DEF IInv, SessionInv, FreshInv, TypeOK, MessageTo, Side
    <3> QED
      BY <1>4, <2>2, <3>1 DEF HandleMessage, HandleCEA, Ignore
  <2>3. CASE ready[p] \notin {"CER", "CEA"}
    BY <1>4, <2>3 DEF HandleMessage, HandleDWR, HandleDPR, HandleDPA, HandleBAD, Ignore,
                      OnError, ClosePeer
  <2> QED
    BY <2>1, <2>2, <2>3
<1>5. ASSUME NEW p \in Side, FinishOpen(p) \/ WriteCompleted(p) \/ WatchdogHandler(p)
                             \/ WatchdogExpires(p)
      PROVE  UNCHANGED <<state, opened>> \/ SetState(p, "Closed")
  BY <1>5 DEF FinishOpen, WriteCompleted, WatchdogHandler, WatchdogExpires, OnError, ClosePeer
<1>6. ASSUME NEW p \in Side, Application(p)
      PROVE  UNCHANGED <<state, opened>> \/ SetState(p, "Closed") \/ SetState(p, "Closing")
  BY <1>6 DEF Application, Send, Disconnect, Close, ClosePeer
<1> QED
  BY <1>1, <1>2, <1>3, <1>4, <1>5, <1>6 DEF Next, Handler

\* A side that has been open does not wait for a capability message again.
WaitInv == \A p \in opened : state[p] \notin {"WaitCEA", "WaitCER"}

\* Every step keeps what has been open out of the waiting states.
LEMMA WaitStep ==
  ASSUME IInv, WaitInv, [Next]_vars
  PROVE  WaitInv'
<1>1. CASE UNCHANGED <<state, opened>>
  BY <1>1 DEF WaitInv
<1>2. CASE ~UNCHANGED <<state, opened>>
  <2>1. PICK p \in Side, s \in State : SetState(p, s)
    BY <1>2, OneSideStep
  <2>2. ASSUME NEW q \in opened', q \notin opened PROVE state'[q] = "Open"
    BY <2>1, <2>2 DEF SetState, IInv, TypeOK
  <2>3. ASSUME NEW q \in opened PROVE state'[q] \notin {"WaitCEA", "WaitCER"}
    BY <2>3, StateStep DEF WaitInv
  <2> QED
    BY <2>2, <2>3 DEF WaitInv
<1> QED
  BY <1>1, <1>2

\* Every step of the session is a step of module Session, or none.
LEMMA StepLife ==
  ASSUME IInv, WaitInv, [Next]_vars
  PROVE  [Life!Next]_Lives
<1>1. CASE UNCHANGED <<state, opened>>
  BY <1>1 DEF Lives, LifeOf
<1>2. CASE ~UNCHANGED <<state, opened>>
  <2>1. PICK p \in Side, s \in State :
          SetState(p, s) /\ (s = "Open" => p = "server" \/ "server" \in opened)
    BY <1>2, OneSideStep
  <2>2. /\ state'[p] = s /\ \A q \in Side : q # p => state'[q] = state[q]
        /\ opened' = IF s = "Open" THEN opened \cup {p} ELSE opened
    BY <2>1 DEF SetState, IInv, TypeOK
  <2>3. \A q \in Side : q # p => LifeOf(q)' = LifeOf(q)
    BY <2>2 DEF LifeOf
  <2>4. CASE LifeOf(p)' = LifeOf(p)
    BY <2>3, <2>4 DEF Lives
  <2>5. ASSUME NEW how, LifeOf(p)' = how
        PROVE  Lives' = [Lives EXCEPT ![p] = how]
    BY <2>3, <2>5 DEF Lives
  <2>6. CASE p \notin opened /\ s = "Open"
    <3>1. LifeOf(p) = "waiting" /\ LifeOf(p)' = "open"
      BY <2>2, <2>6 DEF LifeOf
    <3>2. p = "client" => LifeOf("server") # "waiting"
      BY <2>1, <2>6 DEF LifeOf
    <3>3. Life!Open(p)
      BY <2>5, <3>1, <3>2 DEF Life!Open, Lives, Side
    <3> QED
      BY <3>3 DEF Life!Next, Life!Side, Side
  <2>7. CASE p \notin opened /\ s # "Open"
    BY <2>2, <2>4, <2>7 DEF LifeOf
  <2>8. CASE p \in opened /\ s = "Closed" /\ state[p] \in {"Open", "Closing"}
    <3>1. LifeOf(p) \in {"open", "closing"} /\ LifeOf(p)' = "ended"
      BY <2>2, <2>8 DEF LifeOf
    <3>2. Life!End(p)
      BY <2>5, <3>1 DEF Life!End, Lives
    <3> QED
      BY <3>2 DEF Life!Next, Life!Side, Side
  <2>9. CASE p \in opened /\ s = "Closing" /\ state[p] = "Open"
    <3>1. LifeOf(p) = "open" /\ LifeOf(p)' = "closing"
      BY <2>2, <2>9 DEF LifeOf
    <3>2. Life!Disconnect(p)
      BY <2>5, <3>1 DEF Life!Disconnect, Lives
    <3> QED
      BY <3>2 DEF Life!Next, Life!Side, Side
  <2>10. CASE p \in opened /\ s = state[p]
    BY <2>2, <2>4, <2>10 DEF LifeOf
  <2>11. p \in opened => \/ s = state[p]
                         \/ s = "Closed" /\ state[p] \in {"Open", "Closing"}
                         \/ s = "Closing" /\ state[p] = "Open"
    <3>1. state[p] \in State
      BY DEF IInv, TypeOK
    <3> QED
      BY <2>2, <3>1, StateStep DEF WaitInv, State
  <2> QED
    BY <2>6, <2>7, <2>8, <2>9, <2>10, <2>11
<1> QED
  BY <1>1, <1>2

\* KeepsSession: whatever the handlers of Peer.cpp make of messages, timers and
\* errors, the sides open in order, and each that has opened ends once.
THEOREM PeersKeepSession == Spec => KeepsSession
<1>1. Init => WaitInv /\ Life!Init
  BY DEF Init, WaitInv, Life!Init, Life!Side, Lives, LifeOf, Side
<1>2. IInv /\ WaitInv /\ [Next]_vars => WaitInv' /\ [Life!Next]_Lives
  BY WaitStep, StepLife
<1> QED
  BY <1>1, <1>2, Invariance, PTL DEF Spec, KeepsSession, Life!Spec

(***************************************************************************)
(* Force close.  A handler that runs after close() finds the state it      *)
(* guards on gone; what is left is asyncConnect, which carries on: over    *)
(* TCP its last handler finds the socket closed, over TLS and SCTP it does *)
(* not look, so that a client is closed for good over TCP only.            *)
(***************************************************************************)
\* The sides that a closed socket keeps Closed.
Held(p) == p = "server" \/ Transport = "TCP"

\* The client has no socket to close before its name is resolved, and none is
\* opened again.
CloseInv ==
  /\ dialing \in {"idle", "resolving"} => socket["client"] = "none"
  /\ \A p \in Side : Held(p) /\ socket[p] = "closed" => state[p] = "Closed"

\* A step that ends one side, with its socket or without.
LEMMA ClosedStep ==
  ASSUME TypeOK, CloseInv, NEW p \in Side,
         dialing' = dialing \/ dialing' = "over",
         state' = [state EXCEPT ![p] = "Closed"],
         \/ socket' = socket
         \/ socket[p] = "open" /\ socket' = [socket EXCEPT ![p] = "closed"]
  PROVE  CloseInv'
<1>1. /\ state'[p] = "Closed"
      /\ \A q \in Side : q # p => state'[q] = state[q] /\ socket'[q] = socket[q]
  BY DEF TypeOK
<1>2. dialing' \in {"idle", "resolving"} => socket'["client"] = "none"
  BY DEF TypeOK, CloseInv, Side
<1> QED
  BY <1>1, <1>2 DEF CloseInv

\* A step that moves one side on from a state that is not Closed.
LEMMA MovedStep ==
  ASSUME TypeOK, CloseInv, NEW p \in Side, NEW s \in State,
         UNCHANGED <<dialing, socket>>,
         state' = state \/ (state[p] # "Closed" /\ state' = [state EXCEPT ![p] = s])
  PROVE  CloseInv'
<1>1. /\ state[p] = "Closed" => state'[p] = state[p]
      /\ \A q \in Side : q # p => state'[q] = state[q]
  BY DEF TypeOK
<1> QED
  BY <1>1 DEF CloseInv

\* Every step keeps the Peer of a closed socket Closed.
LEMMA CloseInvStep ==
  ASSUME TypeOK, CloseInv, [Next]_vars
  PROVE  CloseInv'
<1> USE DEF SetState, connectionVars, counters
<1>0. "client" \in Side /\ "server" \in Side /\ State # {}
      /\ {"Closed", "Open", "Closing"} \subseteq State
  BY DEF Side, State
<1>1. CASE Connect
  BY <1>1 DEF Connect, CloseInv, TypeOK, Side
<1>2. CASE Resolved
  BY <1>2 DEF Resolved, CloseInv, TypeOK, Side
<1>3. CASE DialFails
  BY <1>0, <1>3, ClosedStep DEF DialFails, OnError
<1>4. CASE Established \/ HandshakeDone
  BY <1>4 DEF Established, HandshakeDone, CloseInv
<1>5. CASE OnConnected
  <2>1. CASE Transport = "TCP" /\ socket["client"] = "closed"
    BY <1>0, <1>5, <2>1, ClosedStep DEF OnConnected, OnError
  <2>2. CASE ~(Transport = "TCP" /\ socket["client"] = "closed")
    BY <1>5, <2>2 DEF OnConnected, CloseInv, Held, TypeOK, Side
  <2> QED
    BY <2>1, <2>2
<1>6. CASE Start
  BY <1>6 DEF Start, CloseInv, TypeOK, Side
<1>7. CASE LinkLost \/ UNCHANGED vars
  BY <1>7 DEF LinkLost, vars, CloseInv
<1>8. ASSUME NEW p \in Side, Read(p)
      PROVE  CloseInv'
  <2>1. CASE MessageRead(p)
    BY <1>0, <2>1, MovedStep DEF MessageRead
  <2>2. CASE ReadError(p)
    BY <2>2, ClosedStep DEF ReadError, OnError
  <2> QED
    BY <1>8, <2>1, <2>2 DEF Read
<1>9. ASSUME NEW p \in Side, HandleMessage(p)
      PROVE  CloseInv'
  <2>0. UNCHANGED dialing
    BY <1>9 DEF HandleMessage
  <2>1. CASE HandleCER(p) \/ HandleCEA(p) \/ HandleDWR(p) \/ HandleDPR(p) \/ Ignore
    <3>1. /\ socket' = socket
          /\ state' = state \/ (state[p] # "Closed" /\ state' = [state EXCEPT ![p] = "Open"])
      BY <2>1 DEF HandleCER, HandleCEA, HandleDWR, HandleDPR, Ignore
    <3> QED
      BY <1>0, <2>0, <3>1, MovedStep
  <2>2. CASE HandleDPA(p) /\ state[p] = "Closing"
    BY <2>0, <2>2, ClosedStep DEF HandleDPA, ClosePeer, CloseConnection
  <2>3. CASE HandleDPA(p) /\ state[p] # "Closing"
    BY <1>0, <2>0, <2>3, MovedStep DEF HandleDPA, Ignore
  <2>4. CASE HandleBAD(p)
    BY <2>0, <2>4, ClosedStep DEF HandleBAD, OnError
  <2> QED
    BY <1>9, <2>1, <2>2, <2>3, <2>4 DEF HandleMessage
<1>10. ASSUME NEW p \in Side, WriteCompleted(p)
       PROVE  CloseInv'
  BY <1>10, ClosedStep DEF WriteCompleted, ClosePeer, CloseConnection, OnError
<1>11. ASSUME NEW p \in Side, FinishOpen(p) \/ WatchdogHandler(p) \/ WatchdogExpires(p) \/ Send(p)
       PROVE  CloseInv'
  <2>1. UNCHANGED <<dialing, socket, state>>
    BY <1>11 DEF FinishOpen, WatchdogHandler, WatchdogExpires, Send
  <2> QED
    BY <1>0, <2>1, MovedStep
<1>12. ASSUME NEW p \in Side, Disconnect(p)
       PROVE  CloseInv'
  BY <1>0, <1>12, MovedStep DEF Disconnect
<1>13. ASSUME NEW p \in Side, Close(p)
       PROVE  CloseInv'
  BY <1>13, ClosedStep DEF Close, ClosePeer, CloseConnection
<1> QED
  BY <1>1, <1>2, <1>3, <1>4, <1>5, <1>6, <1>7, <1>8, <1>9, <1>10, <1>11, <1>12, <1>13
     DEF Next, Dial, Handler, Application

\* A Peer whose socket close() has closed stays Closed, a server's whatever the
\* transport and a client's over TCP: what is queued finds no state to act in.
THEOREM CloseInvariance == Spec => []CloseInv
<1>1. Init => CloseInv
  BY DEF Init, CloseInv, Side
<1>2. TypeOK /\ CloseInv /\ [Next]_vars => CloseInv'
  BY CloseInvStep
<1> QED
  BY <1>1, <1>2, TypeCorrect, PTL DEF Spec

\* ForceCloseHolds: over TCP, no message, write, timer or connect handler that
\* was queued when close() closed the socket brings the Peer back.
THEOREM ForceCloseAlwaysHolds ==
  ASSUME Transport = "TCP"
  PROVE  Spec => []ForceCloseHolds
<1>1. CloseInv => ForceCloseHolds
  BY DEF CloseInv, Held, ForceCloseHolds
<1> QED
  BY <1>1, CloseInvariance, PTL

(***************************************************************************)
(* A Peer that is Closed has no connection.  What ends a session without   *)
(* closing the socket is an error, and whatever error it is the connection *)
(* carries nothing then and never will; but for the message that is too    *)
(* short, which leaves a working connection behind.                        *)
(***************************************************************************)
Ended(p) == Started(p) /\ ~Carries(p)

NoneBad == \A p \in Side : "BAD" \notin Coming(p)

\* The socket is opened, then dialled, then up, and the server starts after it.
Dialled ==
  /\ dialing \in {"idle", "resolving"} => socket["client"] = "none"
  /\ socket["server"] # "none" => link # "down"
  /\ link # "down" => dialing \in {"connected", "over"}
  /\ dialing = "connected" => link # "down"

\* Nothing runs for a side that has not started; a side that is Closed, or is
\* to be by an error, has ended.
EndInv ==
  /\ Dialled
  /\ \A p \in Side : ready[p] # "none" \/ reading[p] \/ state[p] = "Open" => Started(p)
  /\ \A p \in Side : (Started(p) /\ state[p] = "Closed") \/ "error" \in completion[p] => Ended(p)

LEMMA NoneBadWrite ==
  ASSUME TypeOK, NoneBad, NEW p \in Side, NEW m \in Message, m # "BAD",
         NEW c \in SUBSET {"close", "error"}, Write(p, m, c),
         ready' = ready \/ ready' = [ready EXCEPT ![p] = "none"]
  PROVE  NoneBad'
<1>1. Other(p) \in Side /\ Other(p) # p /\ \A q \in Side : q = p \/ q = Other(p)
  BY OtherSide DEF Side
<1>2. wire'[p] = wire[p] /\ (wire' = wire \/ wire'[Other(p)] = Append(wire[Other(p)], m))
  BY WriteEffect DEF TypeOK
<1>3. Coming(p)' \subseteq Coming(p) \cup {"none"}
  <2>1. ready'[p] \in {ready[p], "none"}
    BY DEF TypeOK
  <2> QED
    BY <1>2, <2>1, ComingShrinks
<1>4. Coming(Other(p))' \subseteq Coming(Other(p)) \cup {m}
  <2>1. ready'[Other(p)] = ready[Other(p)] /\ wire[Other(p)] \in Seq(Message)
    BY <1>1 DEF TypeOK
  <2> QED
    BY <1>1, <1>2, <2>1, ComingGrows
<1> QED
  BY <1>1, <1>3, <1>4 DEF NoneBad

LEMMA NoneBadQuiet ==
  ASSUME TypeOK, NoneBad, NEW p \in Side,
         wire' = wire \/ wire' = [wire EXCEPT ![p] = <<>>],
         ready' = ready \/ ready' = [ready EXCEPT ![p] = "none"]
  PROVE  NoneBad'
<1> SUFFICES ASSUME NEW q \in Side PROVE Coming(q)' \subseteq Coming(q) \cup {"none"}
  BY DEF NoneBad
<1>1. ready'[q] \in {ready[q], "none"} /\ (wire'[q] = wire[q] \/ wire'[q] = <<>>)
  BY DEF TypeOK
<1>2. CASE wire'[q] = wire[q]
  BY <1>1, <1>2, ComingShrinks
<1>3. CASE wire'[q] = <<>>
  BY <1>1, <1>3 DEF Coming
<1> QED
  BY <1>1, <1>2, <1>3

LEMMA NoneBadRead ==
  ASSUME TypeOK, NoneBad, NEW p \in Side, MessageRead(p)
  PROVE  NoneBad'
<1> SUFFICES ASSUME NEW q \in Side PROVE Coming(q)' \subseteq Coming(q)
  BY DEF NoneBad
<1>1. /\ wire[p] \in Seq(Message) /\ wire[p] # <<>>
      /\ ready' = [ready EXCEPT ![p] = Head(wire[p])] /\ wire' = [wire EXCEPT ![p] = Tail(wire[p])]
  BY DEF MessageRead, TypeOK
<1>2. CASE q # p
  <2>1. ready'[q] = ready[q] /\ wire'[q] = wire[q]
    BY <1>1, <1>2 DEF TypeOK
  <2> QED
    BY <2>1 DEF Coming
<1>3. CASE q = p
  <2>1. ready'[p] = wire[p][1] /\ 1 \in DOMAIN wire[p] /\ wire'[p] = Tail(wire[p])
    BY <1>1 DEF TypeOK
  <2>2. \A i \in DOMAIN Tail(wire[p]) : i + 1 \in DOMAIN wire[p] /\ Tail(wire[p])[i] = wire[p][i + 1]
    BY <1>1
  <2> QED
    BY <1>3, <2>1, <2>2 DEF Coming
<1> QED
  BY <1>2, <1>3

LEMMA NoneBadStep ==
  ASSUME TypeOK, NoneBad, "BAD" \notin AppMessages, [Next]_vars
  PROVE  NoneBad'
<1> USE DEF connectionVars, counters
<1>0. /\ "client" \in Side /\ BaseMessages \subseteq Message
      /\ "BAD" \notin BaseMessages
  BY DEF Side, Message, BaseMessages
<1>1. CASE UNCHANGED vars \/ Connect \/ Start \/ LinkLost \/ Resolved \/ DialFails \/ Established
           \/ HandshakeDone
  <2>1. UNCHANGED <<wire, ready>>
    BY <1>1 DEF vars, Connect, Start, LinkLost, Resolved, DialFails, Established, HandshakeDone
  <2> QED
    BY <1>0, <2>1, NoneBadQuiet
<1>2. CASE OnConnected
  <2>1. CASE UNCHANGED wire
    BY <1>0, <1>2, <2>1, NoneBadQuiet DEF OnConnected
  <2>2. CASE Write("client", "CER", {})
    BY <1>0, <1>2, <2>2, NoneBadWrite DEF OnConnected, BaseMessages
  <2> QED
    BY <1>2, <2>1, <2>2 DEF OnConnected
<1>3. ASSUME NEW p \in Side, ReadError(p) \/ FinishOpen(p) \/ WatchdogExpires(p)
      PROVE  NoneBad'
  BY <1>3, NoneBadQuiet DEF ReadError, FinishOpen, WatchdogExpires
<1>4. ASSUME NEW p \in Side, WriteCompleted(p) \/ Close(p)
      PROVE  NoneBad'
  <2>1. ready' = ready /\ (wire' = wire \/ wire' = [wire EXCEPT ![p] = <<>>])
    BY <1>4 DEF WriteCompleted, Close, ClosePeer, CloseConnection
  <2> QED
    BY <2>1, NoneBadQuiet
<1>5. ASSUME NEW p \in Side, WatchdogHandler(p)
      PROVE  NoneBad'
  <2>1. CASE Write(p, "DWR", {})
    BY <1>0, <1>5, <2>1, NoneBadWrite DEF WatchdogHandler, BaseMessages
  <2>2. CASE UNCHANGED wire
    BY <1>5, <2>2, NoneBadQuiet DEF WatchdogHandler
  <2> QED
    BY <1>5, <2>1, <2>2 DEF WatchdogHandler
<1>6. ASSUME NEW p \in Side, Send(p)
      PROVE  NoneBad'
  <2> PICK m \in AppMessages : Write(p, m, {})
    BY <1>6 DEF Send
  <2>1. m \in Message /\ m # "BAD"
    BY AppMessagesAssumption DEF Message
  <2> QED
    BY <1>6, <2>1, NoneBadWrite DEF Send
<1>7. ASSUME NEW p \in Side, Disconnect(p)
      PROVE  NoneBad'
  BY <1>0, <1>7, NoneBadWrite DEF Disconnect, BaseMessages
<1>8. ASSUME NEW p \in Side, HandleMessage(p)
      PROVE  NoneBad'
  <2>1. ready' = [ready EXCEPT ![p] = "none"]
    BY <1>8 DEF HandleMessage
  <2>2. \/ wire' = wire \/ wire' = [wire EXCEPT ![p] = <<>>]
        \/ \E m \in {"CEA", "DWA", "DPA"}, c \in SUBSET {"close", "error"} : Write(p, m, c)
    <3>1. CASE HandleCER(p) \/ HandleDWR(p) \/ HandleDPR(p)
      BY <3>1 DEF HandleCER, HandleDWR, HandleDPR, Ignore
    <3>2. CASE HandleCEA(p) \/ Ignore \/ HandleBAD(p)
      BY <3>2 DEF HandleCEA, Ignore, HandleBAD
    <3>3. CASE HandleDPA(p)
      BY <3>3 DEF HandleDPA, Ignore, ClosePeer, CloseConnection
    <3> QED
      BY <1>8, <3>1, <3>2, <3>3 DEF HandleMessage
  <2>3. CASE wire' = wire \/ wire' = [wire EXCEPT ![p] = <<>>]
    BY <2>1, <2>3, NoneBadQuiet
  <2>4. ASSUME NEW m \in {"CEA", "DWA", "DPA"}, NEW c \in SUBSET {"close", "error"}, Write(p, m, c)
        PROVE  NoneBad'
    <3>1. m \in Message /\ m # "BAD"
      BY DEF Message, BaseMessages
    <3> QED
      BY <2>1, <2>4, <3>1, NoneBadWrite
  <2> QED
    BY <2>2, <2>3, <2>4
<1> QED
  BY <1>1, <1>2, <1>3, <1>4, <1>5, <1>6, <1>7, <1>8, NoneBadRead
     DEF Next, Dial, Read, Handler, Application

\* What no step undoes about the transport.
Steady ==
  /\ dialing = "over" => dialing' = "over"
  /\ link # "down" => link' # "down"
  /\ link' = "up" => link = "up" \/ dialing \in {"connecting", "handshaking"}
  /\ \A p \in Side :
       /\ socket[p] = "closed" => socket'[p] = "closed"
       /\ socket[p] # "none" => socket'[p] # "none"
       /\ socket[p] = "none" => \/ socket'[p] = "none"
                                \/ p = "client" /\ dialing = "resolving" /\ link' = link
                                \/ p = "server"

\* What a step may add for p: what runs for it and how it comes to be Closed.
Adds(p) ==
  /\ ready'[p] # "none" => ready[p] # "none" \/ reading[p]
  /\ reading'[p] => reading[p] \/ Started(p)'
  /\ state'[p] = "Open" => state[p] = "Open" \/ ready[p] # "none"
  /\ Started(p)' /\ state'[p] = "Closed"
       => \/ Started(p) /\ state[p] = "Closed"
          \/ "error" \in completion[p]
          \/ ~Carries(p)'
  /\ "error" \in completion'[p] => "error" \in completion[p] \/ Ended(p)'

LEMMA StartedStays ==
  ASSUME Steady, NEW p \in Side, Started(p)
  PROVE  Started(p)'
BY DEF Steady, Started, Side

LEMMA EndedStays ==
  ASSUME TypeOK, Dialled, Steady, NEW p \in Side, Ended(p)
  PROVE  Ended(p)'
<1>1. Started(p)'
  BY StartedStays DEF Ended
<1>2. Other(p) \in Side
  BY OtherSide
<1>3. Started(p) /\ dialing \notin {"connecting", "handshaking", "resolving"}
  BY DEF Ended, Started, Dialled, Side
<1>4. link # "up" => link' # "up"
  BY <1>3 DEF Steady
<1>5. socket[Other(p)] = "closed" => socket'[Other(p)] = "closed"
  BY <1>2 DEF Steady
<1>6. socket[p] # "open" => socket'[p] # "open"
  <2>1. CASE socket[p] = "closed"
    BY <2>1 DEF Steady
  <2>2. CASE socket[p] = "none"
    BY <1>3, <2>2 DEF Steady, Started, Side
  <2> QED
    BY <2>1, <2>2 DEF TypeOK
<1> QED
  BY <1>1, <1>4, <1>5, <1>6 DEF Ended, Carries

LEMMA EndInvKept ==
  ASSUME TypeOK, EndInv, Steady, Dialled', \A p \in Side : Adds(p)
  PROVE  EndInv'
<1> SUFFICES ASSUME NEW p \in Side
             PROVE  /\ (ready[p] # "none" \/ reading[p] \/ state[p] = "Open" => Started(p))'
                    /\ ((Started(p) /\ state[p] = "Closed") \/ "error" \in completion[p] => Ended(p))'
  BY DEF EndInv
<1>1. Started(p) => Started(p)'
  BY StartedStays
<1>2. Ended(p) => Ended(p)'
  BY EndedStays DEF EndInv
<1>3. Adds(p)
  OBVIOUS
<1>4. (ready[p] # "none" \/ reading[p] \/ state[p] = "Open" => Started(p))'
  BY <1>1, <1>3 DEF Adds, EndInv
<1>5. ("error" \in completion[p] => Ended(p))'
  BY <1>2, <1>3 DEF Adds, EndInv
<1>6. (Started(p) /\ state[p] = "Closed" => Ended(p))'
  <2>1. Started(p)' /\ ~Carries(p)' => Ended(p)'
    BY DEF Ended
  <2> QED
    BY <1>2, <1>3, <2>1 DEF Adds, EndInv
<1> QED
  BY <1>4, <1>5, <1>6

\* A write fails only on a connection that does not carry it.
LEMMA WriteErrors ==
  ASSUME TypeOK, NEW p \in Side, NEW m, NEW c, Write(p, m, c), "error" \notin c, NEW q \in Side,
         "error" \in completion'[q]
  PROVE  "error" \in completion[q] \/ (q = p /\ ~Carries(p))
BY DEF Write, TypeOK

\* A handler that writes, of a side that has started, when it changes neither
\* the transport nor any state but to leave Closed alone.
LEMMA WriterAdds ==
  ASSUME TypeOK, NEW p \in Side, NEW m, NEW c, Write(p, m, c), "error" \notin c, Started(p),
         UNCHANGED <<dialing, link, socket, reading>>,
         NEW q \in Side,
         state'[q] = state[q] \/ state'[q] # "Closed",
         state'[q] = "Open" => state[q] = "Open" \/ ready[q] # "none",
         ready'[q] \in {ready[q], "none"}
  PROVE  Adds(q)
<1>1. "error" \in completion'[q] => "error" \in completion[q] \/ Ended(q)'
  <2>1. Carries(p)' = Carries(p)
    BY DEF Carries, Other
  <2>2. Started(p)'
    BY DEF Started
  <2>3. CASE q = p
    BY <2>1, <2>2, <2>3, WriteErrors DEF Ended
  <2>4. CASE q # p
    BY <2>4, WriteErrors
  <2> QED
    BY <2>3, <2>4
<1>2. Started(q)' /\ state'[q] = "Closed" => (Started(q) /\ state[q] = "Closed") \/ ~Carries(q)'
  BY DEF Started, Side
<1> QED
  BY <1>1, <1>2 DEF Adds

LEMMA TransportSteady ==
  ASSUME TypeOK, Dialled, [Next]_vars
  PROVE  Steady /\ Dialled'
<1> USE DEF connectionVars
<1>0. dialing \in Dialing /\ link \in {"down", "up", "lost"} /\ socket \in [Side -> {"none", "open", "closed"}]
  BY DEF TypeOK
<1>1. CASE UNCHANGED <<dialing, link, socket>>
  BY <1>0, <1>1 DEF Steady, Dialled
<1>2. ASSUME NEW p \in Side, CloseConnection(p), UNCHANGED <<dialing, link>>
      PROVE  Steady /\ Dialled'
  BY <1>0, <1>2 DEF CloseConnection, Steady, Dialled, Side
<1>3. CASE Connect \/ LinkLost
  BY <1>0, <1>3 DEF Connect, LinkLost, Steady, Dialled
<1>4. CASE Start
  BY <1>0, <1>4 DEF Start, Steady, Dialled, Side
<1>5. CASE Resolved
  BY <1>0, <1>5 DEF Resolved, Steady, Dialled, Side
<1>6. CASE DialFails \/ OnConnected
  BY <1>0, <1>6 DEF DialFails, OnConnected, Steady, Dialled
<1>7. CASE Established \/ HandshakeDone
  BY <1>0, <1>7 DEF Established, HandshakeDone, Steady, Dialled
<1>8. ASSUME NEW p \in Side, HandleMessage(p)
      PROVE  Steady /\ Dialled'
  <2>1. UNCHANGED <<dialing, link>>
    BY <1>8 DEF HandleMessage
  <2>2. CASE UNCHANGED socket
    BY <1>1, <2>1, <2>2
  <2>3. CASE HandleDPA(p)
    BY <1>1, <1>2, <2>1, <2>3 DEF HandleDPA, ClosePeer, Ignore
  <2> QED
    BY <1>8, <2>2, <2>3
       DEF HandleMessage, HandleCER, HandleCEA, HandleDWR, HandleDPR, HandleBAD, Ignore
<1>9. ASSUME NEW p \in Side, WriteCompleted(p) \/ Close(p)
      PROVE  Steady /\ Dialled'
  <2>1. UNCHANGED <<dialing, link>> /\ (CloseConnection(p) \/ UNCHANGED socket)
    BY <1>9 DEF WriteCompleted, Close, ClosePeer
  <2> QED
    BY <1>1, <1>2, <2>1
<1>10. ASSUME NEW p \in Side,
              \/ MessageRead(p) \/ ReadError(p) \/ FinishOpen(p) \/ WatchdogHandler(p)
              \/ WatchdogExpires(p) \/ Send(p) \/ Disconnect(p)
       PROVE  Steady /\ Dialled'
  <2>1. UNCHANGED <<dialing, link, socket>>
    BY <1>10 DEF MessageRead, ReadError, FinishOpen, WatchdogHandler, WatchdogExpires, Send, Disconnect
  <2> QED
    BY <1>1, <2>1
<1>11. CASE UNCHANGED vars
  BY <1>1, <1>11 DEF vars
<1> QED
  BY <1>3, <1>4, <1>5, <1>6, <1>7, <1>8, <1>9, <1>10, <1>11
     DEF Next, Dial, Read, Handler, Application

\* A step that writes nothing, starts no reading and leaves states alone.
LEMMA QuietAdds ==
  ASSUME NEW q \in Side,
         UNCHANGED <<completion, reading, state>>,
         ready'[q] # "none" => ready[q] # "none" \/ reading[q],
         Started(q)' => Started(q)
  PROVE  Adds(q)
BY DEF Adds

\* A side closed by force has no open socket.
LEMMA ForcedAdds ==
  ASSUME TypeOK, NEW p \in Side, ClosePeer(p), UNCHANGED <<dialing, link, reading>>,
         \A r \in Side : "error" \in completion'[r] => "error" \in completion[r],
         NEW q \in Side, ready'[q] \in {ready[q], "none"}
  PROVE  Adds(q)
<1>1. state' = [state EXCEPT ![p] = "Closed"]
  BY DEF ClosePeer, SetState
<1>2. socket'[p] # "open" /\ (socket'["server"] # "none" => socket["server"] # "none")
  BY DEF ClosePeer, CloseConnection, TypeOK, Side
<1>3. ~Carries(p)' /\ (Started(q)' => Started(q))
  BY <1>2 DEF Carries, Started
<1>4. CASE q = p
  BY <1>1, <1>3, <1>4 DEF Adds, TypeOK
<1>5. CASE q # p
  <2>1. state'[q] = state[q]
    BY <1>1, <1>5 DEF TypeOK
  <2> QED
    BY <1>3, <2>1 DEF Adds
<1> QED
  BY <1>4, <1>5

LEMMA MessageAdds ==
  ASSUME TypeOK, EndInv, NoneBad, NEW p \in Side, HandleMessage(p), NEW q \in Side
  PROVE  Adds(q)
<1>1. /\ ready[p] # "none" /\ ready' = [ready EXCEPT ![p] = "none"]
      /\ UNCHANGED <<dialing, link>> /\ Started(p)
  BY DEF HandleMessage, EndInv
<1>2. ready'[q] \in {ready[q], "none"}
  BY <1>1 DEF TypeOK
<1>3. ready[p] # "BAD" /\ UNCHANGED reading
  BY DEF HandleMessage, NoneBad, Coming
<1>4. CASE UNCHANGED <<socket, completion, state>>
  BY <1>1, <1>2, <1>3, <1>4, QuietAdds DEF Started
<1>5. CASE HandleCER(p) /\ state[p] = "WaitCER"
  <2>1. Write(p, "CEA", {}) /\ state' = [state EXCEPT ![p] = "Open"] /\ UNCHANGED socket
    BY <1>5 DEF HandleCER, SetState
  <2>2. /\ state'[q] = state[q] \/ state'[q] # "Closed"
        /\ state'[q] = "Open" => state[q] = "Open" \/ ready[q] # "none"
    BY <1>1, <2>1 DEF TypeOK
  <2> QED
    BY <1>1, <1>2, <1>3, <2>1, <2>2, WriterAdds
<1>6. CASE HandleCEA(p) /\ state[p] = "WaitCEA"
  <2>1. state' = [state EXCEPT ![p] = "Open"] /\ UNCHANGED <<socket, completion>>
    BY <1>6 DEF HandleCEA, SetState
  <2>2. /\ state'[q] = "Closed" => state[q] = "Closed"
        /\ state'[q] = "Open" => state[q] = "Open" \/ ready[q] # "none"
    BY <1>1, <2>1 DEF TypeOK
  <2> QED
    BY <1>1, <1>2, <1>3, <2>1, <2>2 DEF Adds, Started
<1>7. CASE (HandleDWR(p) /\ state[p] = "Open") \/ HandleDPR(p)
  <2>1. /\ Write(p, "DWA", {}) \/ Write(p, "DPA", {"close"})
        /\ UNCHANGED <<socket, state>>
    BY <1>7 DEF HandleDWR, HandleDPR
  <2> QED
    BY <1>1, <1>2, <1>3, <2>1, WriterAdds
<1>8. CASE HandleDPA(p) /\ state[p] = "Closing"
  BY <1>1, <1>2, <1>3, <1>8, ForcedAdds DEF HandleDPA
<1> QED
  BY <1>3, <1>4, <1>5, <1>6, <1>7, <1>8
     DEF HandleMessage, HandleCER, HandleCEA, HandleDWR, HandleDPA, Ignore

LEMMA ConnectedAdds ==
  ASSUME TypeOK, EndInv, OnConnected, NEW q \in Side
  PROVE  Adds(q)
<1>1. /\ dialing' = "over" /\ UNCHANGED <<link, socket, ready>> /\ "client" \in Side
      /\ Started("client")' /\ \A r \in Side : Carries(r)' = Carries(r)
  BY DEF OnConnected, Started, Carries, Other, Side
<1>2. q # "client" => (Started(q)' => Started(q))
  BY <1>1 DEF Started
<1>3. CASE socket["client"] = "closed" /\ OnError("client") /\ UNCHANGED <<completion, reading>>
  <2>1. state' = [state EXCEPT !["client"] = "Closed"] /\ ~Carries("client")'
    BY <1>1, <1>3 DEF OnError, SetState, Carries
  <2>2. q # "client" => state'[q] = state[q]
    BY <2>1 DEF TypeOK
  <2>3. state'["client"] = "Closed"
    BY <1>1, <2>1 DEF TypeOK
  <2> QED
    BY <1>1, <1>2, <1>3, <2>1, <2>2, <2>3 DEF Adds
<1>4. CASE /\ SetState("client", "WaitCEA") /\ Write("client", "CER", {})
           /\ reading' = [reading EXCEPT !["client"] = TRUE]
  <2>1. q # "client" => state'[q] = state[q] /\ reading'[q] = reading[q]
    BY <1>4 DEF TypeOK, SetState
  <2>2. state'["client"] = "WaitCEA"
    BY <1>1, <1>4 DEF TypeOK, SetState
  <2>3. "error" \in completion'[q] => "error" \in completion[q] \/ Ended(q)'
    BY <1>1, <1>4, WriteErrors DEF Ended
  <2> QED
    BY <1>1, <1>2, <2>1, <2>2, <2>3 DEF Adds
<1> QED
  BY <1>3, <1>4 DEF OnConnected

\* An error that is reported ends the side it is reported to.
LEMMA ErrorAdds ==
  ASSUME TypeOK, NEW p \in Side, OnError(p), ~Carries(p)', ready' = ready,
         \A r \in Side : reading'[r] => reading[r],
         \A r \in Side : "error" \in completion'[r] => "error" \in completion[r],
         NEW q \in Side, q # p => (Started(q)' => Started(q))
  PROVE  Adds(q)
<1>1. state' = [state EXCEPT ![p] = "Closed"]
  BY DEF OnError, SetState
<1>2. (q # p => state'[q] = state[q]) /\ state'[p] = "Closed"
  BY <1>1 DEF TypeOK
<1> QED
  BY <1>2 DEF Adds

LEMMA StepAdds ==
  ASSUME TypeOK, EndInv, NoneBad, [Next]_vars, NEW q \in Side
  PROVE  Adds(q)
<1> USE DEF connectionVars, counters
<1>1. CASE UNCHANGED vars
  BY <1>1, QuietAdds DEF vars, Started
<1>2. CASE Established \/ HandshakeDone \/ LinkLost \/ Resolved
  <2>1. /\ UNCHANGED <<completion, reading, state, ready>>
        /\ socket'["server"] = socket["server"]
        /\ dialing' = "over" => dialing = "over"
    BY <1>2 DEF Established, HandshakeDone, LinkLost, Resolved, TypeOK, Side
  <2> QED
    BY <2>1, QuietAdds DEF Started
<1>3. CASE Connect
  <2>1. UNCHANGED <<completion, reading, ready, socket>> /\ dialing = "idle" /\ dialing' = "resolving"
    BY <1>3 DEF Connect
  <2>2. /\ state'[q] = "Closed" => state[q] = "Closed"
        /\ state'[q] = "Open" => state[q] = "Open"
    BY <1>3 DEF Connect, SetState, TypeOK
  <2> QED
    BY <2>1, <2>2 DEF Adds, Started
<1>4. CASE Start
  <2>1. /\ UNCHANGED <<completion, ready, dialing>> /\ Started("server")' /\ "server" \in Side
        /\ state' = [state EXCEPT !["server"] = "WaitCER"]
        /\ reading' = [reading EXCEPT !["server"] = TRUE]
    BY <1>4 DEF Start, SetState, Started, TypeOK, Side
  <2>2. CASE q = "server"
    <3>1. state'[q] = "WaitCER"
      BY <2>1, <2>2 DEF TypeOK
    <3> QED
      BY <2>1, <2>2, <3>1 DEF Adds
  <2>3. CASE q # "server"
    <3>1. state'[q] = state[q] /\ reading'[q] = reading[q]
      BY <2>1, <2>3 DEF TypeOK
    <3>2. Started(q)' = Started(q)
      BY <2>1, <2>3 DEF Started, Side
    <3> QED
      BY <2>1, <3>1, <3>2 DEF Adds
  <2> QED
    BY <2>2, <2>3
<1>5. CASE DialFails
  <2>1. /\ link = "down" /\ UNCHANGED <<link, socket, ready, reading, completion>>
        /\ OnError("client") /\ "client" \in Side
    BY <1>5 DEF DialFails, EndInv, Dialled, Side
  <2>2. ~Carries("client")' /\ (q # "client" => (Started(q)' => Started(q)))
    BY <2>1 DEF Carries, Started
  <2> QED
    BY <2>1, <2>2, ErrorAdds
<1>6. ASSUME NEW p \in Side, ReadError(p)
      PROVE  Adds(q)
  <2>1. /\ UNCHANGED <<dialing, link, socket, ready, completion>>
        /\ reading' = [reading EXCEPT ![p] = FALSE] /\ OnError(p)
    BY <1>6 DEF ReadError
  <2>2. ~Carries(p)' /\ (Started(q)' => Started(q))
    BY <1>6, <2>1 DEF ReadError, Carries, Started
  <2>3. \A r \in Side : reading'[r] => reading[r]
    BY <2>1 DEF TypeOK
  <2> QED
    BY <2>1, <2>2, <2>3, ErrorAdds
<1>7. ASSUME NEW p \in Side, WriteCompleted(p) \/ Close(p)
      PROVE  Adds(q)
  <2>1. UNCHANGED <<dialing, link, ready, reading>>
    BY <1>7 DEF WriteCompleted, Close
  <2>2. \A r \in Side : "error" \in completion'[r] => "error" \in completion[r]
    <3>1. \/ completion' = completion
          \/ \E c \in completion[p] : completion' = [completion EXCEPT ![p] = @ \ {c}]
      BY <1>7 DEF WriteCompleted, Close
    <3>2. completion \in [Side -> SUBSET {"close", "error"}]
      BY DEF TypeOK
    <3> QED
      BY <3>1, <3>2
  <2>3. CASE ClosePeer(p)
    BY <2>1, <2>2, <2>3, ForcedAdds
  <2>4. CASE "error" \in completion[p] /\ OnError(p) /\ UNCHANGED socket
    <3>1. ~Carries(p)' /\ (Started(q)' => Started(q))
      BY <2>1, <2>4 DEF EndInv, Ended, Carries, Started
    <3> QED
      BY <2>1, <2>2, <2>4, <3>1, ErrorAdds
  <2> QED
    BY <1>7, <2>3, <2>4 DEF WriteCompleted, Close
<1>8. ASSUME NEW p \in Side, MessageRead(p)
      PROVE  Adds(q)
  <2>1. UNCHANGED <<completion, reading, state, dialing, socket>>
    BY <1>8 DEF MessageRead
  <2>2. ready'[q] # "none" => ready[q] # "none" \/ reading[q]
    BY <1>8 DEF MessageRead, TypeOK
  <2> QED
    BY <2>1, <2>2, QuietAdds DEF Started
<1>9. ASSUME NEW p \in Side, FinishOpen(p) \/ WatchdogExpires(p)
      PROVE  Adds(q)
  BY <1>9, QuietAdds DEF FinishOpen, WatchdogExpires, Started
<1>10. ASSUME NEW p \in Side, WatchdogHandler(p) \/ Send(p) \/ Disconnect(p)
       PROVE  Adds(q)
  <2>1. UNCHANGED <<dialing, link, socket, reading, ready>>
    BY <1>10 DEF WatchdogHandler, Send, Disconnect
  <2>2. CASE UNCHANGED <<state, completion>>
    BY <2>1, <2>2, QuietAdds DEF Started
  <2>3. CASE state[p] = "Open" /\ \E m : Write(p, m, {})
    <3>1. Started(p)
      BY <2>3 DEF EndInv
    <3>2. /\ state'[q] = state[q] \/ state'[q] # "Closed"
          /\ state'[q] = "Open" => state[q] = "Open"
      BY <1>10 DEF WatchdogHandler, Send, Disconnect, SetState, TypeOK
    <3> QED
      BY <2>1, <2>3, <3>1, <3>2, WriterAdds
  <2> QED
    BY <1>10, <2>2, <2>3 DEF WatchdogHandler, Send, Disconnect
<1> QED
  BY <1>1, <1>2, <1>3, <1>4, <1>5, <1>6, <1>7, <1>8, <1>9, <1>10, ConnectedAdds, MessageAdds
     DEF Next, Dial, Read, Handler, Application

\* "Closed, // No connection or connection lost" (Peer.hpp), while every
\* message announces a length its header fits in: a Peer that is Closed has no
\* working connection, whichever error, close or disconnect closed it.
THEOREM ClosedMeansNoConnectionAlways ==
  ASSUME "BAD" \notin AppMessages
  PROVE  Spec => []ClosedMeansNoConnection
<1>1. Init => NoneBad /\ EndInv
  BY DEF Init, NoneBad, Coming, EndInv, Dialled, Started, Side
<1>2. TypeOK /\ NoneBad /\ EndInv /\ [Next]_vars => NoneBad' /\ EndInv'
  <2> SUFFICES ASSUME TypeOK, NoneBad, EndInv, [Next]_vars PROVE NoneBad' /\ EndInv'
    OBVIOUS
  <2>1. Steady /\ Dialled'
    BY TransportSteady DEF EndInv
  <2>2. \A p \in Side : Adds(p)
    BY StepAdds
  <2> QED
    BY <2>1, <2>2, EndInvKept, NoneBadStep
<1>3. EndInv => ClosedMeansNoConnection
  BY DEF EndInv, ClosedMeansNoConnection, Ended, Carries
<1> QED
  BY <1>1, <1>2, <1>3, TypeCorrect, PTL DEF Spec
=============================================================================
