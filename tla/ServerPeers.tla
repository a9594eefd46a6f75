----------------------------- MODULE ServerPeers -----------------------------
(***************************************************************************)
(* The connections of a DiameterServer (src/src/DiameterServer.cpp): the   *)
(* accept loop, the Peers it makes and starts, and peers_, the vector in   *)
(* which they are tracked, while stopListening, shutdown and close are     *)
(* called from any thread.                                                 *)
(*                                                                         *)
(* Two threads run: "io", which runs the handlers one at a time, and       *)
(* "call", in which stopListening, shutdown and close are called, one at a *)
(* time.  Only peers_ has a mutex.  Peer::state_ has none: what            *)
(* Peer::setState and the checks before it read, what setState assigns and *)
(* the callback are steps of their own, between which the other thread     *)
(* goes on.  A call made on the io thread, by an event's callback, is one  *)
(* during which "io" takes no step.  stopListening and doAccept are one    *)
(* step each.  What else goes on inside a session is module PeerSession's. *)
(***************************************************************************)
EXTENDS Naturals

CONSTANTS
  Conn,             \* the connections clients make
  MaxAcceptErrors,  \* bound: accepts that fail, for want of descriptors, say
  MaxCalls          \* bound: calls of listen, shutdown and close

ASSUME BoundsAssumption ==
  MaxAcceptErrors \in Nat /\ MaxCalls \in Nat

VARIABLES
  serverCtx,    \* the server has a TLS context: it is configured for TLS
  listening,    \* DiameterServer::listening_
  acceptor,     \* the acceptor is open
  waiting,      \* async_accept operations outstanding
  stage,        \* stage[c]: how far connection c has got
  socket,       \* socket[c]: the server's socket of c, once accepted
  state,        \* state[c]: Peer::state_ of the Peer of c
  torn,         \* Peers whose state was set over a Closed its test had not seen (history)
  job,          \* job[t]: the change of a Peer's state that thread t is at
  peers,        \* DiameterServer::peers_
  closedEvents, \* closedEvents[c]: Closed events delivered for c (history)
  call,         \* the call in progress, and how far it has got
  todo,         \* its copy of peers_
  down,         \* shutdown or close returned after the last listen (history)
  errors, calls \* counters of what is bounded

acceptVars == <<serverCtx, listening, acceptor, waiting>>
peerVars == <<state, torn, job, peers, closedEvents>>
callVars == <<call, todo, down>>
bounded == <<errors, calls>>
vars == <<serverCtx, listening, acceptor, waiting, stage, socket, state, torn, job,
          peers, closedEvents, call, todo, down, errors, calls>>

Thread == {"io", "call"}
State == {"WaitCER", "Open", "Closing", "Closed"}

\* A connection that has a Peer: start() is under way, or its read loop waits
\* for a message, has the CER, goes on behind it, or has ended by an error.
Running == {"started", "heard", "met", "deaf"}
Made == Running \cup {"starting"}
Stage == Made \cup {"none", "backlog", "accepted", "handshaking", "secured", "gone"}

\* What a thread is at: nothing; a step p on the way to setting the state of
\* c to s; or setState, whose test has seen state q.
Idle == [at |-> "idle"]
Job(c, s, p) == [peer |-> c, to |-> s, at |-> p]
Setting(c, s, q) == [peer |-> c, to |-> s, at |-> "assign", seen |-> q]
Step == {"disconnect", "close", "callback"}
Jobs == {Idle} \cup {Job(c, s, p) : c \in Conn, s \in State, p \in Step}
               \cup {Setting(c, s, q) : c \in Conn, s, q \in State}

TypeOK ==
  /\ serverCtx \in BOOLEAN
  /\ listening \in BOOLEAN /\ acceptor \in BOOLEAN /\ down \in BOOLEAN
  /\ waiting \in Nat
  /\ stage \in [Conn -> Stage]
  /\ socket \in [Conn -> {"none", "open", "closed"}]
  /\ state \in [Conn -> State]
  /\ torn \in SUBSET Conn
  /\ job \in [Thread -> Jobs]
  /\ peers \in SUBSET {c \in Conn : stage[c] \in Made}
  /\ todo \in SUBSET Conn
  /\ closedEvents \in [Conn -> Nat]
  /\ call \in {"none", "shutdown", "disconnecting", "close", "closing"}
  /\ errors \in Nat /\ calls \in Nat

Init ==
  /\ serverCtx \in BOOLEAN
  /\ listening = FALSE /\ acceptor = FALSE
  /\ waiting = 0
  /\ stage = [c \in Conn |-> "none"]
  /\ socket = [c \in Conn |-> "none"]
  /\ state = [c \in Conn |-> "Closed"]
  /\ torn = {} /\ job = [t \in Thread |-> Idle]
  /\ peers = {}
  /\ closedEvents = [c \in Conn |-> 0]
  /\ call = "none" /\ todo = {} /\ down = FALSE
  /\ errors = 0 /\ calls = 0

(***************************************************************************)
(* What the handlers and the calls are built from.                         *)
(***************************************************************************)
Move(c, s) == stage' = [stage EXCEPT ![c] = s]

\* The io thread is inside no handler.
IoFree == job["io"] = Idle /\ \A c \in Conn : stage[c] # "starting"

IsAt(t, c, s, p) == job[t] = Job(c, s, p)
Sets(t, c, s) == \E q \in State : job[t] = Setting(c, s, q)
Goes(t, next) == job' = [job EXCEPT ![t] = next]

\* onPeerStateChange that announces a Peer's end and keeps the Peer.
OnPeerStateChange_KeepsPeer(c, s) ==
  /\ closedEvents' = [closedEvents EXCEPT ![c] = IF s = "Closed" THEN @ + 1 ELSE @]
  /\ peers' = peers

OnPeerStateChange(c, s) ==
  /\ closedEvents' = [closedEvents EXCEPT ![c] = IF s = "Closed" THEN @ + 1 ELSE @]
  /\ peers' = IF s = "Closed" THEN peers \ {c} ELSE peers

\* setState that calls back for a state the Peer is already in.
Test_Always(t, c, s) == Goes(t, Setting(c, s, state[c]))

\* Peer::setState up to its assignment: the callback is for a change only.
\* The test is one step with the check that precedes it in handleCER and in
\* disconnect: only "io" sets WaitCER and Open, and only "call" sets Closing.
Test(t, c, s) == Goes(t, IF state[c] = s THEN Idle ELSE Setting(c, s, state[c]))

Assign(t, c, s) ==
  \E q \in State :
    /\ job[t] = Setting(c, s, q)
    /\ state' = [state EXCEPT ![c] = s]
    /\ torn' = IF state[c] = "Closed" /\ q # "Closed" THEN torn \cup {c} ELSE torn
    /\ Goes(t, Job(c, s, "callback"))
    /\ UNCHANGED <<peers, closedEvents>>

Callback(t, c, s) ==
  /\ IsAt(t, c, s, "callback")
  /\ OnPeerStateChange(c, s)
  /\ Goes(t, Idle)
  /\ UNCHANGED <<state, torn>>

SetState(t) ==
  /\ \E c \in Conn, s \in State : Assign(t, c, s) \/ Callback(t, c, s)
  /\ UNCHANGED <<acceptVars, stage, socket, callVars, bounded>>

\* Peer::close of c by thread t, up to its setState, and the test of that.
Closes(t, c) ==
  /\ socket' = [socket EXCEPT ![c] = "closed"]
  /\ Goes(t, Job(c, "Closed", "close"))

CloseSets(t) ==
  /\ \E c \in Conn : IsAt(t, c, "Closed", "close") /\ Test(t, c, "Closed")
  /\ UNCHANGED <<acceptVars, stage, socket, state, torn, peers, closedEvents, callVars, bounded>>

\* doAccept that takes no part in the loop.
DoAccept_Once == UNCHANGED acceptVars

DoAccept ==
  /\ waiting' = IF listening THEN waiting + 1 ELSE waiting
  /\ UNCHANGED <<serverCtx, listening, acceptor>>

(***************************************************************************)
(* Accepting.                                                              *)
(***************************************************************************)
Listen ==
  /\ ~acceptor
  /\ call = "none"
  /\ calls < MaxCalls
  /\ calls' = calls + 1
  /\ listening' = TRUE /\ acceptor' = TRUE
  /\ waiting' = waiting + 1
  /\ down' = FALSE
  /\ UNCHANGED <<serverCtx, stage, socket, peerVars, call, todo,
                 errors>>

Arrives(c) ==
  /\ acceptor
  /\ stage[c] = "none"
  /\ Move(c, "backlog")
  /\ UNCHANGED <<acceptVars, socket, peerVars, callVars, bounded>>

\* An outstanding accept completes: its handler is queued.
Accepted(c) ==
  /\ waiting > 0
  /\ stage[c] = "backlog"
  /\ waiting' = waiting - 1
  /\ Move(c, "accepted")
  /\ socket' = [socket EXCEPT ![c] = "open"]
  /\ UNCHANGED <<serverCtx, listening, acceptor, peerVars, callVars, bounded>>

\* An accept fails: its handler returns, and does not accept again.
AcceptFails ==
  /\ waiting > 0
  /\ errors < MaxAcceptErrors
  /\ errors' = errors + 1
  /\ waiting' = waiting - 1
  /\ UNCHANGED <<serverCtx, listening, acceptor, stage, socket, peerVars, callVars, calls>>

\* The handler of a successful accept, or of the handshake.  It does not look
\* at listening_ before it makes the Peer, or starts the handshake.
Track(c) ==
  /\ IoFree
  /\ stage[c] = IF serverCtx THEN "secured" ELSE "accepted"
  /\ Move(c, "starting")
  /\ peers' = peers \cup {c}
  /\ Test("io", c, "WaitCER")
  /\ UNCHANGED <<acceptVars, socket, state, torn, closedEvents, callVars, bounded>>

\* The rest of start(), and of the handler.
StartReading(c) ==
  /\ stage[c] = "starting"
  /\ job["io"] = Idle
  /\ Move(c, "started")
  /\ IF serverCtx THEN UNCHANGED acceptVars ELSE DoAccept
  /\ UNCHANGED <<socket, peerVars, callVars, bounded>>

\* A Peer that is tracked as the TLS handshake starts.
StartHandshake_Tracks(c) ==
  /\ IoFree
  /\ serverCtx
  /\ stage[c] = "accepted"
  /\ Move(c, "handshaking")
  /\ peers' = peers \cup {c}
  /\ DoAccept
  /\ UNCHANGED <<socket, state, torn, job, closedEvents, callVars, bounded>>

StartHandshake(c) ==
  /\ IoFree
  /\ serverCtx
  /\ stage[c] = "accepted"
  /\ Move(c, "handshaking")
  /\ DoAccept
  /\ UNCHANGED <<socket, peerVars, callVars, bounded>>

\* The handshake succeeds, and its handler is queued, or the connection is
\* dropped.
HandshakeEnds(c) ==
  /\ stage[c] = "handshaking"
  /\ \/ Move(c, "secured") /\ socket' = socket
     \/ Move(c, "gone") /\ socket' = [socket EXCEPT ![c] = "closed"]
  /\ UNCHANGED <<acceptVars, peerVars, callVars, bounded>>

(***************************************************************************)
(* The sessions.                                                           *)
(***************************************************************************)
\* The CER has been read: its handler is queued.
ReadCER(c) ==
  /\ stage[c] = "started"
  /\ socket[c] = "open"
  /\ Move(c, "heard")
  /\ UNCHANGED <<acceptVars, socket, peerVars, callVars, bounded>>

HandleCER(c) ==
  /\ IoFree
  /\ stage[c] = "heard"
  /\ Move(c, "met")
  /\ IF state[c] = "WaitCER" THEN Test("io", c, "Open") ELSE UNCHANGED job
  /\ UNCHANGED <<acceptVars, socket, state, torn, peers, closedEvents, callVars, bounded>>

\* onError of a read, which ends the read loop, or of a write.
ReadFails(c) ==
  /\ IoFree
  /\ stage[c] \in {"started", "met"}
  /\ Move(c, "deaf")
  /\ Test("io", c, "Closed")
  /\ UNCHANGED <<acceptVars, socket, state, torn, peers, closedEvents, callVars, bounded>>

WriteFails(c) ==
  /\ IoFree
  /\ stage[c] \in {"met", "deaf"}
  /\ state[c] # "Closed"
  /\ Test("io", c, "Closed")
  /\ UNCHANGED <<acceptVars, stage, socket, state, torn, peers, closedEvents, callVars, bounded>>

\* A DPR has been answered, or is answered by a DPA.
PeerCloses(c) ==
  /\ IoFree
  /\ stage[c] \in Running
  /\ state[c] # "Closed"
  /\ Closes("io", c)
  /\ UNCHANGED <<acceptVars, stage, state, torn, peers, closedEvents, callVars, bounded>>

(***************************************************************************)
(* The calls.                                                              *)
(***************************************************************************)
\* stopListening: what waits in the backlog is lost with the acceptor, and
\* outstanding accepts are aborted: their handlers only return.
Stop ==
  /\ listening' = FALSE /\ acceptor' = FALSE
  /\ waiting' = 0
  /\ stage' = [c \in Conn |-> IF stage[c] = "backlog" THEN "gone" ELSE stage[c]]
  /\ UNCHANGED serverCtx

StopListening ==
  /\ call = "none"
  /\ acceptor
  /\ Stop
  /\ UNCHANGED <<socket, peerVars, callVars, bounded>>

Begin(kind) ==
  /\ call = "none"
  /\ calls < MaxCalls
  /\ calls' = calls + 1
  /\ call' = kind
  /\ Stop
  /\ UNCHANGED <<socket, peerVars, todo, down, errors>>

Shutdown == Begin("shutdown")
Close == Begin("close")

CopyPeers ==
  /\ call = "shutdown"
  /\ call' = "disconnecting"
  /\ todo' = peers
  /\ UNCHANGED <<acceptVars, stage, socket, peerVars, down, bounded>>

\* shutdown looks at a Peer of its copy, ...
VisitPeer(c) ==
  /\ call = "disconnecting" /\ job["call"] = Idle
  /\ c \in todo
  /\ todo' = todo \ {c}
  /\ IF state[c] = "Open" THEN Goes("call", Job(c, "Closing", "disconnect")) ELSE UNCHANGED job
  /\ UNCHANGED <<acceptVars, stage, socket, state, torn, peers, closedEvents, call, down,
                 bounded>>

\* ... and Peer::disconnect looks again.
DisconnectPeer(c) ==
  /\ IsAt("call", c, "Closing", "disconnect")
  /\ IF state[c] = "Open" THEN Test("call", c, "Closing") /\ UNCHANGED socket
     ELSE Closes("call", c)
  /\ UNCHANGED <<acceptVars, stage, state, torn, peers, closedEvents, callVars, bounded>>

TakePeers ==
  /\ call = "close"
  /\ call' = "closing"
  /\ todo' = peers
  /\ peers' = {}
  /\ UNCHANGED <<acceptVars, stage, socket, state, torn, job, closedEvents, down, bounded>>

\* close that visits the Open Peers only, as shutdown does.
ClosePeer_OnlyOpen(c) ==
  /\ call = "closing" /\ job["call"] = Idle
  /\ c \in todo
  /\ todo' = todo \ {c}
  /\ IF state[c] = "Open" THEN Closes("call", c) ELSE UNCHANGED <<socket, job>>
  /\ UNCHANGED <<acceptVars, stage, state, torn, peers, closedEvents, call, down, bounded>>

\* close that leaves the connection of a Peer that is not started alone.
ClosePeer_SkipsNew(c) ==
  /\ call = "closing" /\ job["call"] = Idle
  /\ c \in todo
  /\ todo' = todo \ {c}
  /\ IF state[c] # "Closed" THEN Closes("call", c) ELSE UNCHANGED <<socket, job>>
  /\ UNCHANGED <<acceptVars, stage, state, torn, peers, closedEvents, call, down, bounded>>

ClosePeer(c) ==
  /\ call = "closing" /\ job["call"] = Idle
  /\ c \in todo
  /\ todo' = todo \ {c}
  /\ Closes("call", c)
  /\ UNCHANGED <<acceptVars, stage, state, torn, peers, closedEvents, call, down, bounded>>

Return ==
  /\ call \in {"disconnecting", "closing"}
  /\ todo = {} /\ job["call"] = Idle
  /\ call' = "none"
  /\ down' = TRUE
  /\ UNCHANGED <<acceptVars, stage, socket, peerVars, todo, bounded>>

(***************************************************************************)
(* The specification.                                                      *)
(***************************************************************************)
Handler(c) == Track(c) \/ StartReading(c) \/ StartHandshake(c) \/ HandleCER(c)
CallStep ==
  \/ CopyPeers \/ TakePeers \/ Return \/ CloseSets("call") \/ SetState("call")
  \/ \E c \in Conn : VisitPeer(c) \/ DisconnectPeer(c) \/ ClosePeer(c)

Next ==
  \/ Listen \/ StopListening \/ Shutdown \/ Close \/ CallStep
  \/ AcceptFails \/ CloseSets("io") \/ SetState("io")
  \/ \E c \in Conn : \/ Arrives(c) \/ Accepted(c) \/ Handler(c) \/ HandshakeEnds(c)
                     \/ ReadCER(c) \/ ReadFails(c) \/ WriteFails(c) \/ PeerCloses(c)

Spec == Init /\ [][Next]_vars

\* A call goes on, and so does the io thread while it has a handler to run, a
\* connection to accept, or a closed socket to read from, which is an error.
IoGoesOn ==
  \/ CloseSets("io") \/ SetState("io")
  \/ \E c \in Conn : Accepted(c) \/ Handler(c) \/ (ReadFails(c) /\ socket[c] = "closed")

Fairness == WF_vars(CallStep) /\ WF_vars(IoGoesOn)

FairSpec == Spec /\ Fairness

(***************************************************************************)
(* Properties.  Two threads that set the state of a Peer at the same time  *)
(* may both have passed their tests; if the first has closed the Peer, the *)
(* second makes it torn.  The properties say what that may lead to.        *)
(***************************************************************************)
\* c is to be closed by the close() that has taken it from peers_.
Taken(c) ==
  call = "closing" /\
    (c \in todo \/ IsAt("call", c, "Closed", "close") \/ Sets("call", c, "Closed"))

\* No session escapes the server: a Peer with a working connection that is
\* Open, or may still become it, is in peers_ or taken by close().  So is one in
\* Closing, but if it is torn: when onError closes it between the check of
\* disconnect and the assignment of Closing, it is in Closing and on no list.
LiveIsTracked ==
  \A c \in Conn :
    /\ socket[c] = "open"
    /\ state[c] \in {"WaitCER", "Open"} \/ (state[c] = "Closing" /\ c \notin torn)
    => c \in peers \/ Taken(c)

\* No Peer that has ended stays in peers_, whichever threads closed it: it is a
\* new connection's, or on its way out, in the callback of one of them.
DeadIsForgotten ==
  \A c \in peers : state[c] = "Closed" =>
    stage[c] = "starting" \/ \E t \in Thread : IsAt(t, c, "Closed", "callback")

\* The application hears of the end of each Peer that was started, though
\* close, shutdown, an error and a DPA may all end it; and it hears of it once,
\* but of a torn Peer: there both threads may pass the test of setState.
OneClosedEvent ==
  \A c \in Conn :
    /\ closedEvents[c] > 1 => c \in torn
    /\ stage[c] \in Running /\ state[c] = "Closed" =>
         closedEvents[c] > 0 \/ \E t \in Thread : IsAt(t, c, "Closed", "callback")

\* The accept loop is lost to nothing but a failed accept, whose handler ends
\* it: whatever calls of listen, shutdown and close come in between, again and
\* again nothing waits in the backlog, as every connection is taken from it, or
\* is reset as stopListening closes the acceptor.
EveryConnectionTaken == []<>(errors > 0 \/ \A c \in Conn : stage[c] # "backlog")

\* What peers_ has lost ends for good, but a torn Peer in Closing: so does a
\* Peer whose start() comes after its close(), and one that handleCER, past its
\* check, makes Open after it.
CloseHolds ==
  <>[](\A c \in Conn : stage[c] \in Made /\ c \notin peers =>
         state[c] = "Closed" \/ (state[c] = "Closing" /\ c \in torn))

\* "Graceful shutdown: send DPR to all peers, wait for DPA, then close"
\* (DiameterServer.hpp): once shutdown or close has returned, and until the
\* next listen, no Peer is Open.
NoSessionOnceDown == down => \A c \in Conn : state[c] # "Open"
=============================================================================
