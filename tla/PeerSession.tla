----------------------------- MODULE PeerSession -----------------------------
(***************************************************************************)
(* The life of one Diameter session: a client Peer that connects and a     *)
(* server Peer created for the accepted connection (src/src/Peer.cpp),     *)
(* each over its own PeerConnection (src/src/PeerConnection.cpp).          *)
(*                                                                         *)
(* What is modelled: the capability exchange (CER/CEA), the device         *)
(* watchdog (DWR/DWA), the graceful disconnect (DPR/DPA), forced close,    *)
(* errors, and every handler the io_context may run for them, in every     *)
(* order it may run them in.  A handler is one action: the two io_contexts *)
(* are each run by one thread and the application calls a Peer from it     *)
(* (Peer has no lock).  What is not atomic in the code is not atomic here: *)
(* an event that happens (a message arrives, a timer expires, a write      *)
(* fails) only QUEUES a handler, and a queued handler runs later, even     *)
(* when the Peer was closed in between.                                    *)
(***************************************************************************)
EXTENDS Naturals, Sequences

CONSTANTS
  Transport,     \* how the two nodes are connected: "TCP", "TLS" or "SCTP"
  AppMessages,   \* what the applications send: "APP", a well-formed message;
                 \* "BAD", one whose header announces less than 20 bytes
  WatchdogOn,    \* the sides configured with watchdogIntervalSec # 0
  MaxSend,       \* bound: application messages sent by each side
  MaxWatchdog    \* bound: expirations of each side's watchdog timer

Side == {"client", "server"}
Other(p) == IF p = "client" THEN "server" ELSE "client"

State == {"Closed", "WaitCEA", "WaitCER", "Open", "Closing"}
BaseMessages == {"CER", "CEA", "DWR", "DWA", "DPR", "DPA"}
Message == BaseMessages \cup {"APP", "BAD"}

\* The states a side goes through, and the messages it is sent.
StateOf(p) == State \ {IF p = "client" THEN "WaitCER" ELSE "WaitCEA"}
MessageTo(p) == Message \ {IF p = "client" THEN "CER" ELSE "CEA"}

ASSUME TransportAssumption == Transport \in {"TCP", "TLS", "SCTP"}
ASSUME AppMessagesAssumption == AppMessages \subseteq {"APP", "BAD"}
ASSUME WatchdogAssumption == WatchdogOn \subseteq Side
ASSUME BoundsAssumption == MaxSend \in Nat /\ MaxWatchdog \in Nat

VARIABLES
  dialing,     \* PeerConnection::asyncConnect's progress, on the client
  link,        \* the transport connection between the two nodes
  socket,      \* socket[p]: p's PeerConnection::socket_
  wire,        \* wire[p]: the messages in flight towards p, oldest first
  ready,       \* ready[p]: the message whose read handler is queued at p
  reading,     \* reading[p]: the doReadHeader/doReadBody loop is running
  completion,  \* completion[p]: write handlers queued at p that will act
  state,       \* state[p]: Peer::state_
  watchdog,    \* watchdog[p]: Peer::watchdogTimer_
  inCallback,  \* inCallback[p]: p's Open callback runs inside handleCEA
  opened,      \* the sides that have been Open (history, never read)
  sent,        \* sent[p]: application messages sent so far (bounded)
  expired      \* expired[p]: expirations so far (bounded)

connectionVars == <<dialing, link, socket, reading>>
counters == <<sent, expired>>
vars == <<dialing, link, socket, wire, ready, reading, completion, state,
          watchdog, inCallback, opened, sent, expired>>

Dialing == {"idle", "resolving", "connecting", "handshaking", "connected", "over"}

\* The types, which tell the sides apart: a client never waits for a CER nor
\* meets one, a server never waits for a CEA nor meets one, so that the request
\* flag alone sends each capability message to the right handler.
TypeOK ==
  /\ dialing \in Dialing
  /\ link \in {"down", "up", "lost"}
  /\ socket \in [Side -> {"none", "open", "closed"}]
  /\ wire \in [Side -> Seq(Message)]
  /\ ready \in [Side -> Message \cup {"none"}]
  /\ reading \in [Side -> BOOLEAN]
  /\ completion \in [Side -> SUBSET {"close", "error"}]
  /\ state \in [Side -> State]
  /\ watchdog \in [Side -> {"off", "armed", "fired"}]
  /\ inCallback \in [Side -> BOOLEAN]
  /\ opened \in SUBSET Side
  /\ sent \in [Side -> Nat]
  /\ expired \in [Side -> Nat]
  /\ \A p \in Side :
       /\ state[p] \in StateOf(p)
       /\ ready[p] \in MessageTo(p) \cup {"none"}
       /\ \A i \in DOMAIN wire[p] : wire[p][i] \in MessageTo(p)

Init ==
  /\ dialing = "idle"
  /\ link = "down"
  /\ socket = [p \in Side |-> "none"]
  /\ wire = [p \in Side |-> <<>>]
  /\ ready = [p \in Side |-> "none"]
  /\ reading = [p \in Side |-> FALSE]
  /\ completion = [p \in Side |-> {}]
  /\ state = [p \in Side |-> "Closed"]
  /\ watchdog = [p \in Side |-> "off"]
  /\ inCallback = [p \in Side |-> FALSE]
  /\ opened = {}
  /\ sent = [p \in Side |-> 0]
  /\ expired = [p \in Side |-> 0]

(***************************************************************************)
(* What the handlers are built from.                                       *)
(***************************************************************************)
Started(p) == IF p = "client" THEN dialing = "over" ELSE socket["server"] # "none"

\* Both ends are open and the network carries what is written.
Carries(p) == link = "up" /\ socket[p] = "open" /\ socket[Other(p)] # "closed"

\* PeerConnection::asyncWrite.  The message is written at once if the
\* connection carries it; its handler is queued, to call onComplete, or
\* onError_ when the write failed.  A write on an open socket whose peer is
\* gone may still succeed: the kernel takes the bytes and they are lost.
Write(p, m, onComplete) ==
  \/ /\ Carries(p)
     /\ wire' = [wire EXCEPT ![Other(p)] = Append(@, m)]
     /\ completion' = [completion EXCEPT ![p] = @ \cup onComplete]
  \/ /\ ~Carries(p)
     /\ socket[p] = "open"
     /\ wire' = wire
     /\ completion' = [completion EXCEPT ![p] = @ \cup onComplete]
  \/ /\ ~Carries(p)
     /\ wire' = wire
     /\ completion' = [completion EXCEPT ![p] = @ \cup {"error"}]

\* steady_timer::cancel: too late for a handler that is already queued.
StopWatchdog(p) ==
  watchdog' = [watchdog EXCEPT ![p] = IF @ = "armed" THEN "off" ELSE @]

StartWatchdog(p) ==
  watchdog' = [watchdog EXCEPT ![p] = IF p \in WatchdogOn THEN "armed" ELSE "off"]

SetState(p, s) ==
  /\ state' = [state EXCEPT ![p] = s]
  /\ opened' = IF s = "Open" THEN opened \cup {p} ELSE opened

\* PeerConnection::close acts on an open socket only; what had arrived and
\* was not read is discarded with the socket.
CloseConnection(p) ==
  IF socket[p] = "open"
  THEN /\ socket' = [socket EXCEPT ![p] = "closed"]
       /\ wire' = [wire EXCEPT ![p] = <<>>]
  ELSE UNCHANGED <<socket, wire>>

\* close that forgets the connection.
ClosePeer_KeepsSocket(p) ==
  /\ StopWatchdog(p)
  /\ SetState(p, "Closed")
  /\ UNCHANGED <<socket, wire>>

ClosePeer(p) ==
  /\ StopWatchdog(p)
  /\ CloseConnection(p)
  /\ SetState(p, "Closed")

\* Peer::onError: the socket is left as it is.
OnError(p) ==
  /\ StopWatchdog(p)
  /\ SetState(p, "Closed")

(***************************************************************************)
(* The client connects (Peer::connect, PeerConnection::asyncConnect).      *)
(***************************************************************************)
Connect ==
  /\ dialing = "idle"
  /\ dialing' = "resolving"
  /\ SetState("client", "WaitCEA")
  /\ UNCHANGED <<link, socket, wire, ready, reading, completion, watchdog,
                 inCallback, counters>>

\* async_resolve's handler: it opens the socket and starts to connect it,
\* whatever happened to the Peer meanwhile.
Resolved ==
  /\ dialing = "resolving"
  /\ dialing' = "connecting"
  /\ socket' = [socket EXCEPT !["client"] = "open"]
  /\ UNCHANGED <<link, wire, ready, reading, completion, state, watchdog,
                 inCallback, opened, counters>>

\* The address does not resolve, the connection or the TLS handshake is
\* refused, or it is aborted because the socket was closed.
DialFails ==
  /\ dialing \in {"resolving", "connecting", "handshaking"}
  /\ dialing' = "over"
  /\ OnError("client")
  /\ UNCHANGED <<link, socket, wire, ready, reading, completion, inCallback,
                 counters>>

\* The kernel establishes the connection: the connect handler is queued.
\* Under TLS that handler starts the handshake, unless the socket is closed.
Established ==
  /\ dialing = "connecting"
  /\ socket["client"] = "open"
  /\ IF Transport = "TLS"
     THEN dialing' = "handshaking" /\ link' = link
     ELSE dialing' = "connected" /\ link' = "up"
  /\ UNCHANGED <<socket, wire, ready, reading, completion, state, watchdog,
                 inCallback, opened, counters>>

\* Both ends complete the handshake: their handlers are queued.
HandshakeDone ==
  /\ dialing = "handshaking"
  /\ socket["client"] = "open"
  /\ dialing' = "connected"
  /\ link' = "up"
  /\ UNCHANGED <<socket, wire, ready, reading, completion, state, watchdog,
                 inCallback, opened, counters>>

\* The last handler of asyncConnect.  The range connect used for TCP reports
\* operation_aborted when it finds the socket closed; the SCTP connect and the
\* TLS handshake report the success they were queued with.
OnConnected ==
  /\ dialing = "connected"
  /\ dialing' = "over"
  /\ IF Transport = "TCP" /\ socket["client"] = "closed"
     THEN OnError("client") /\ UNCHANGED <<wire, completion, reading>>
     ELSE /\ SetState("client", "WaitCEA")
          /\ Write("client", "CER", {})
          /\ reading' = [reading EXCEPT !["client"] = TRUE]
          /\ UNCHANGED watchdog
  /\ UNCHANGED <<link, socket, ready, inCallback, counters>>

\* DiameterServer::doAccept's handler creates the server Peer and starts it.
Start ==
  /\ link # "down"
  /\ socket["server"] = "none"
  /\ socket' = [socket EXCEPT !["server"] = "open"]
  /\ reading' = [reading EXCEPT !["server"] = TRUE]
  /\ SetState("server", "WaitCER")
  /\ UNCHANGED <<dialing, link, wire, ready, completion, watchdog, inCallback,
                 counters>>

\* The network or the other node's host breaks the connection.
LinkLost ==
  /\ link = "up"
  /\ link' = "lost"
  /\ UNCHANGED <<dialing, socket, wire, ready, reading, completion, state,
                 watchdog, inCallback, opened, counters>>

(***************************************************************************)
(* Reading (PeerConnection::doReadHeader and doReadBody).  One message is  *)
(* read at a time: the next read starts when onMessage returns.            *)
(***************************************************************************)
MessageRead(p) ==
  /\ reading[p]
  /\ ~inCallback[p]
  /\ ready[p] = "none"
  /\ wire[p] # <<>>
  /\ ready' = [ready EXCEPT ![p] = Head(wire[p])]
  /\ wire' = [wire EXCEPT ![p] = Tail(@)]
  /\ UNCHANGED <<connectionVars, completion, state, watchdog, inCallback,
                 opened, counters>>

\* A read fails: the socket was closed here (operation_aborted) or there (end
\* of file, or a reset that may overtake data), or the link is gone.
ReadError(p) ==
  /\ reading[p]
  /\ ~inCallback[p]
  /\ ready[p] = "none"
  /\ \/ socket[p] = "closed"
     \/ socket[Other(p)] = "closed"
     \/ link = "lost"
  /\ reading' = [reading EXCEPT ![p] = FALSE]
  /\ OnError(p)
  /\ UNCHANGED <<dialing, link, socket, wire, ready, completion, inCallback,
                 counters>>

\* The header of a message that announces less than 20 bytes ends the loop.
HandleBAD(p) ==
  /\ OnError(p)
  /\ reading' = [reading EXCEPT ![p] = FALSE]
  /\ UNCHANGED <<socket, wire, completion, inCallback>>

(***************************************************************************)
(* Peer::onMessage and the handlers it dispatches to.                      *)
(***************************************************************************)
Ignore == UNCHANGED <<socket, wire, completion, state, watchdog, inCallback,
                      opened>>

\* handleCER that opens the session without answering the request.
HandleCER_NoAnswer(p) ==
  IF state[p] = "WaitCER"
  THEN SetState(p, "Open") /\ UNCHANGED <<socket, wire, completion, watchdog, inCallback>>
  ELSE Ignore

\* handleCER that answers and forgets to open.
HandleCER_NotOpened(p) ==
  IF state[p] = "WaitCER"
  THEN Write(p, "CEA", {}) /\ UNCHANGED <<socket, state, watchdog, inCallback, opened>>
  ELSE Ignore

\* handleCER that echoes the request flag in the answer's header.
HandleCER_KeepsRequestFlag(p) ==
  IF state[p] = "WaitCER"
  THEN Write(p, "CER", {}) /\ SetState(p, "Open") /\ UNCHANGED <<socket, watchdog, inCallback>>
  ELSE Ignore

HandleCER(p) ==
  IF state[p] = "WaitCER"
  THEN /\ Write(p, "CEA", {})
       /\ SetState(p, "Open")
       /\ UNCHANGED <<socket, watchdog, inCallback>>
  ELSE Ignore

\* handleCEA without its guard on the state.
HandleCEA_AnyState(p) ==
  /\ SetState(p, "Open")
  /\ inCallback' = [inCallback EXCEPT ![p] = TRUE]
  /\ UNCHANGED <<socket, wire, completion, watchdog>>

\* The state callback runs inside setState, before startWatchdog: what it
\* does with the Peer happens between HandleCEA and FinishOpen.
HandleCEA(p) ==
  IF state[p] = "WaitCEA"
  THEN /\ SetState(p, "Open")
       /\ inCallback' = [inCallback EXCEPT ![p] = TRUE]
       /\ UNCHANGED <<socket, wire, completion, watchdog>>
  ELSE Ignore

FinishOpen(p) ==
  /\ inCallback[p]
  /\ inCallback' = [inCallback EXCEPT ![p] = FALSE]
  /\ StartWatchdog(p)
  /\ UNCHANGED <<connectionVars, wire, ready, completion, state, opened,
                 counters>>

\* handleDWR without its guard on the state.
HandleDWR_AnyState(p) ==
  /\ Write(p, "DWA", {})
  /\ UNCHANGED <<socket, state, watchdog, inCallback, opened>>

HandleDWR(p) ==
  IF state[p] = "Open"
  THEN /\ Write(p, "DWA", {})
       /\ UNCHANGED <<socket, state, watchdog, inCallback, opened>>
  ELSE Ignore

\* handleDPR with the guard on the state that the other handlers have.
HandleDPR_WhenOpen(p) ==
  IF state[p] = "Open"
  THEN /\ Write(p, "DPA", {"close"})
       /\ UNCHANGED <<socket, state, watchdog, inCallback, opened>>
  ELSE Ignore

\* A DPR is answered in every state: the Peer closes when the DPA is written.
HandleDPR(p) ==
  /\ Write(p, "DPA", {"close"})
  /\ UNCHANGED <<socket, state, watchdog, inCallback, opened>>

HandleDPA(p) ==
  IF state[p] = "Closing"
  THEN ClosePeer(p) /\ UNCHANGED <<completion, inCallback>>
  ELSE Ignore

HandleMessage(p) ==
  /\ ready[p] # "none"
  /\ ~inCallback[p]
  /\ ready' = [ready EXCEPT ![p] = "none"]
  /\ \/ ready[p] = "CER" /\ HandleCER(p) /\ UNCHANGED reading
     \/ ready[p] = "CEA" /\ HandleCEA(p) /\ UNCHANGED reading
     \/ ready[p] = "DWR" /\ HandleDWR(p) /\ UNCHANGED reading
     \/ ready[p] = "DPR" /\ HandleDPR(p) /\ UNCHANGED reading
     \/ ready[p] = "DPA" /\ HandleDPA(p) /\ UNCHANGED reading
     \/ ready[p] \in {"DWA", "APP"} /\ Ignore /\ UNCHANGED reading
     \/ ready[p] = "BAD" /\ HandleBAD(p)
  /\ UNCHANGED <<dialing, link, counters>>

(***************************************************************************)
(* The other handlers: asyncWrite's and the watchdog timer's.              *)
(***************************************************************************)
WriteCompleted(p) ==
  /\ ~inCallback[p]
  /\ \E c \in completion[p] :
       /\ completion' = [completion EXCEPT ![p] = @ \ {c}]
       /\ \/ c = "close" /\ ClosePeer(p)
          \/ c = "error" /\ OnError(p) /\ UNCHANGED <<socket, wire>>
  /\ UNCHANGED <<dialing, link, ready, reading, inCallback, counters>>

WatchdogExpires(p) ==
  /\ watchdog[p] = "armed"
  /\ expired[p] < MaxWatchdog
  /\ watchdog' = [watchdog EXCEPT ![p] = "fired"]
  /\ expired' = [expired EXCEPT ![p] = @ + 1]
  /\ UNCHANGED <<connectionVars, wire, ready, completion, state, inCallback,
                 opened, sent>>

\* The timer's handler without its guard on the state.
WatchdogHandler_AnyState(p) ==
  /\ watchdog[p] = "fired"
  /\ ~inCallback[p]
  /\ Write(p, "DWR", {})
  /\ StartWatchdog(p)
  /\ UNCHANGED <<connectionVars, ready, state, inCallback, opened, counters>>

WatchdogHandler(p) ==
  /\ watchdog[p] = "fired"
  /\ ~inCallback[p]
  /\ IF state[p] = "Open"
     THEN Write(p, "DWR", {}) /\ StartWatchdog(p)
     ELSE /\ watchdog' = [watchdog EXCEPT ![p] = "off"]
          /\ UNCHANGED <<wire, completion>>
  /\ UNCHANGED <<connectionVars, ready, state, inCallback, opened, counters>>

(***************************************************************************)
(* What the application may do with a Peer, whenever it runs: between two  *)
(* handlers, or inside its Open callback.                                  *)
(***************************************************************************)
Send(p) ==
  /\ state[p] = "Open"
  /\ sent[p] < MaxSend
  /\ sent' = [sent EXCEPT ![p] = @ + 1]
  /\ \E m \in AppMessages : Write(p, m, {})
  /\ UNCHANGED <<connectionVars, ready, state, watchdog, inCallback, opened,
                 expired>>

\* disconnect without its guard on the state.
Disconnect_AnyState(p) ==
  /\ socket[p] # "none"
  /\ SetState(p, "Closing")
  /\ StopWatchdog(p)
  /\ Write(p, "DPR", {})
  /\ UNCHANGED <<connectionVars, ready, inCallback, counters>>

\* disconnect that does not change the state before it writes the DPR.
Disconnect_StaysOpen(p) ==
  /\ state[p] = "Open"
  /\ StopWatchdog(p)
  /\ Write(p, "DPR", {})
  /\ UNCHANGED <<connectionVars, ready, state, inCallback, opened, counters>>

Disconnect(p) ==
  /\ state[p] = "Open"
  /\ SetState(p, "Closing")
  /\ StopWatchdog(p)
  /\ Write(p, "DPR", {})
  /\ UNCHANGED <<connectionVars, ready, inCallback, counters>>

\* Peer::close, and Peer::disconnect in any state but Open.
Close(p) ==
  /\ ClosePeer(p)
  /\ UNCHANGED <<dialing, link, ready, reading, completion, inCallback, counters>>

(***************************************************************************)
(* The specification.                                                      *)
(***************************************************************************)
Dial == Resolved \/ DialFails \/ Established \/ HandshakeDone \/ OnConnected
Read(p) == MessageRead(p) \/ ReadError(p)
Handler(p) == \/ HandleMessage(p)
              \/ FinishOpen(p)
              \/ WriteCompleted(p)
              \/ WatchdogHandler(p)
Application(p) == Send(p) \/ Disconnect(p) \/ Close(p)

Next ==
  \/ Connect
  \/ Dial
  \/ Start
  \/ LinkLost
  \/ \E p \in Side : Read(p) \/ Handler(p) \/ WatchdogExpires(p) \/ Application(p)

Spec == Init /\ [][Next]_vars

\* asio runs every queued handler, completes every operation and expires every
\* timer, and the server's accept loop takes every connection.  Nothing makes
\* an application call anything, or the network fail.
Fairness ==
  /\ WF_vars(Dial)
  /\ WF_vars(Start)
  /\ \A p \in Side :
       /\ WF_vars(Read(p))
       /\ WF_vars(HandleMessage(p))
       /\ WF_vars(FinishOpen(p))
       /\ WF_vars(WriteCompleted(p))
       /\ WF_vars(WatchdogHandler(p))
       /\ WF_vars(WatchdogExpires(p))

FairSpec == Spec /\ Fairness

(***************************************************************************)
(* Safety.                                                                 *)
(***************************************************************************)
\* The client never believes in a session the server has not opened: handleCEA
\* only runs on an answer handleCER wrote while it opened the server's Peer.
ServerOpensFirst == "client" \in opened => "server" \in opened

\* A client that waits for its CEA meets it before anything else the server
\* sends, although the server may send as soon as handleCER returns: nothing
\* that onMessage would drop for want of an Open state overtakes the answer.
CeaFirst ==
  state["client"] = "WaitCEA" =>
    /\ ready["client"] \in {"none", "CEA"}
    /\ ready["client"] = "none" /\ wire["client"] # <<>> => Head(wire["client"]) = "CEA"

\* The DPR is the last message a Peer originates: whatever is queued when
\* disconnect is called (an expired watchdog, a DWR to answer, a send), only
\* the answer to the other side's own DPR follows it.
QuietAfterDPR ==
  \A p \in Side : \A i, j \in DOMAIN wire[p] :
    i < j /\ wire[p][i] = "DPR" => wire[p][j] = "DPA"

\* What is on its way to p, the message its queued handler holds included.
Coming(p) == {ready[p]} \cup {wire[p][i] : i \in DOMAIN wire[p]}

\* Between the DPR and its answer the sender stays in Closing, or is Closed by
\* an error or by force: handleDPA never finds a Peer that still takes sends.
DisconnectPending ==
  \A p \in Side : "DPR" \in Coming(Other(p)) \/ "DPA" \in Coming(p)
    => state[p] \in {"Closing", "Closed"}

\* A Peer whose socket close() has closed stays Closed, although the message,
\* write and timer handlers queued before the close still run.
ForceCloseHolds ==
  \A p \in Side : socket[p] = "closed" => state[p] = "Closed"

\* "Closed, // No connection or connection lost" (Peer.hpp): a Peer that has
\* reported Closed after its session started has no working connection.
ClosedMeansNoConnection ==
  \A p \in Side : Started(p) /\ state[p] = "Closed" =>
    ~(link = "up" /\ socket[p] = "open" /\ socket[Other(p)] # "closed")

\* The session is one of module Session: its sides open in order, and a side
\* that has been Open ends once, by a disconnect or at once, and is not brought
\* back by whatever handler is still queued.
LifeOf(p) ==
  IF p \notin opened THEN "waiting"
  ELSE CASE state[p] = "Open" -> "open"
         [] state[p] = "Closing" -> "closing"
         [] state[p] = "Closed" -> "ended"
         [] OTHER -> "revived"

Lives == [p \in Side |-> LifeOf(p)]

Life == INSTANCE Session WITH life <- Lives
KeepsSession == Life!Spec

\* "Force close" (Peer.hpp): a client closed at any moment after connect stays
\* Closed.  It does not: while the name is being resolved there is no socket to
\* close, and the handlers of asyncConnect carry on and bring the session up.
CloseIsFinal ==
  [][dialing # "idle" /\ state["client"] = "Closed"
     => state'["client"] = "Closed"]_vars

(***************************************************************************)
(* Liveness, under the fairness above and with well-formed messages.       *)
(***************************************************************************)
\* A connecting client and an accepted connection do not wait for ever: each
\* opens, or learns that the other will not.
EstablishedOrClosed ==
  \A p \in Side : state[p] \in {"WaitCEA", "WaitCER"} ~> state[p] \in {"Open", "Closed"}

\* disconnect always ends, even when both sides disconnect at once and each
\* DPR finds the other side in Closing.
DisconnectCompletes ==
  \A p \in Side : state[p] = "Closing" ~> state[p] = "Closed"

\* One side's end is the other side's end: when a session that was started is
\* Closed on one side, the other side becomes and stays Closed.
TeardownReachesPeer ==
  \A p \in Side : (Started(p) /\ state[p] = "Closed") ~> [](state[Other(p)] = "Closed")
=============================================================================
