# A verification project for diametercomm

diametercomm is a C++ library for Diameter (RFC 6733) connections over TCP, TLS and SCTP,
built on boost::asio. This directory holds TLA+ modules of its session, transaction,
reconnection and server logic, and of the messages it sends and how they cross a connection;
TLC configurations that check them on small instances; and TLAPS proofs of the most important
results for every instance. Paths below are relative to
the repository; `Peer.cpp` is `src/Peer.cpp`, headers are in `include/ert/diametercomm`.

    tlc -workers 2 -config PeerSession_tcp.cfg PeerSession.tla
    tlapm PeerSession_proofs.tla

Each run's module and properties are listed in `PROJECT.json`, with the lines of source that
every definition stands for (`map`), the hazards of the code and what covers them (`hazards`).

## 1. The system

| Component | State | Operations | Called by |
|---|---|---|---|
| `PeerConnection` | socket, TLS stream, read buffers, two callbacks | asyncConnect, asyncHandshakeServer, startReading, asyncWrite, close | Peer, DiameterServer |
| `Peer` | `state_` (Closed, WaitCEA, WaitCER, Open, Closing), watchdog timer, hop-by-hop counter, the node's end-to-end counter | connect, start, send, disconnect, close; handlers of CER, CEA, DWR, DWA, DPR, DPA; onError | DiameterClient, DiameterServer, io thread |
| `DiameterClient`, transactions | `pending_`, `pendingByE2e_`, a timer per request | send, resolve (answers), tryResolve (answers of other connections), close | any thread; io thread |
| `DiameterClient`, connection | `peer_`, `reconnectEnabled_`, `reconnectTimer_`, `reconnectCurrent_` | connect, onPeerState, scheduleReconnect, disconnect, close | application; Peer's callback; timer |
| `DiameterServer`, connections | acceptor, `listening_`, `peers_` | listen, doAccept, onPeerStateChange, stopListening, shutdown, close | any thread; io thread |
| `DiameterServer`, transactions | its own `pending_` and `pendingByE2e_`, for all Peers | sendRequest, resolve, tryResolve | any thread; io thread |
| Encoding | none | AVPs, headers, their extraction | Peer, DiameterClient, DiameterServer |
| Metrics, TLS contexts, source addresses, examples | none the library reads | | |

Everything asynchronous is a handler that asio's io thread runs, one at a time. The
components are tied together by callbacks: a connection calls its Peer (`onMessage`,
`onError`), a Peer calls its owner (`onPeerState`, `onPeerStateChange`, `onPeerRequest`), and
the owner calls the application, which may call back in from there. The tables and `peers_`
have a mutex; a Peer, the reconnection state and `listening_` have none, and no text of the
repository says which thread may call what.

What is hard in this code, and what the modules are built to exhibit:

- *handlers queued before a close or a cancel run after it*: cancelling a timer or closing a
  socket is too late for a handler already queued;
- *callbacks run inside setState*: the rest of the caller runs after what the application did;
- *other threads come in wherever no lock is held*: between the steps of `send`, between the
  push of a Peer and its start, between a copy of `peers_` and its use, between the test of
  `Peer::state_` and its assignment;
- *both sides act at once*: crossed DPRs, a close that meets a capability exchange;
- *identifiers*: chosen by callers, wrapping, reseeded by each new Peer, rewritten by agents,
  counted by each Peer for itself and looked up in one table;
- *a byte stream under messages*: writes cut wherever the socket is full, several of them at once;
- *failures at every step* of a connection attempt, and what the retry logic makes of them.

What makes each component correct: a session opens on the server first and ends once on both
sides; a request gets at most one outcome, its own, and in the end gets one; a client keeps
trying, with one session at a time and longer and longer pauses, until it is told to stop; a
server tracks exactly its live Peers, loses no connection and keeps closed what it has closed.
The code keeps to most of this always, and to some of it only under conditions that sections 3
and 4 name.

## 2. The modules

| Module | Stands for |
|---|---|
| `Session` | abstract: what the owners of two Peers are promised about the session between them |
| `PeerSession` | one session, both ends: Peer over PeerConnection; implements `Session` |
| `Transactions` | abstract: what a node promises about the requests it sends |
| `ClientTransactions` | DiameterClient's table, index and timers; implements `Transactions` |
| `MC_ClientTransactions` | its instances: command codes |
| `ClientReconnect` | DiameterClient's Peers, one after the other, and the retry timer |
| `ServerPeers`, `MC_ServerPeers` | DiameterServer's accept loop and `peers_`, and its instance |
| `ServerTransactions`, `MC_ServerTransactions` | DiameterServer's table of requests to all its Peers, and its instance; implements `Transactions` |
| `Messages` | headers, AVPs, the messages of Peer and of the examples, and the walks that read them |
| `Framing`, `MC_Framing` | composed writes and reads of such messages on one connection, and its instance |
| `PeerSession_proofs`, `ClientTransactions_proofs`, `ServerTransactions_proofs`, `ServerPeers_proofs`, `ClientReconnect_proofs`, `Framing_proofs`, `Messages_proofs` | the theorems about the module each is named for |
| `DrawnIds_proofs` | identifiers drawn from a counter that wraps: lemmas that the proofs about both tables share |

Definitions whose name has a suffix (`HandleCER_NoAnswer`) are not used by the
specifications: each stands before the definition it varies, and is the bug, named in its
comment, that shows a property to be able to fail (`PROJECT.json`, `mutants`).

### PeerSession

State is indexed by side: `state` (`Peer::state_`), `socket`, `reading` (the
doReadHeader/doReadBody loop runs), `wire` (messages in flight towards a side), `ready` (the
message whose read handler is queued), `completion` (write handlers queued that will act: the
`close()` of a DPA's handler, or `onError_`), `watchdog` (off, armed, or *fired*: its handler
is queued), `inCallback` (handleCEA is inside the Open callback). `dialing` is the progress of
asyncConnect and `link` the transport connection.

A handler is one action, because one thread runs an io_context and a Peer is called from it.
An event is another: `MessageRead`, `WatchdogExpires`, `Established` only queue handlers.
`HandleMessage` is `onMessage` with everything the handler it dispatches to does. The
application's `Send`, `Disconnect` and `Close` may come between any two handlers of the
client or the server, and between `HandleCEA` and `FinishOpen`, that is, from inside the
callback. A write on an established connection arrives, in order; a write on a broken one may
report success or an error. The differences between transports that matter are kept: TCP's
range connect reports `operation_aborted` when it finds its socket closed, SCTP's member
connect and the TLS handshake report the success they were queued with.

Abstracted: the content of messages beyond their command and request flag; a message is read
and written whole; the reads a handler makes of the socket's address and of TLS errors.
Connecting is tried once: retries are `ClientReconnect`'s.

`Session` is the session without its messages: each side waits, opens, the server's first, may
begin to disconnect, and ends once. `KeepsSession` is that specification under the mapping
`Lives`: a side that has not been Open waits, whatever its state, and one that has is open,
closing or ended as its state says; a side in any other state would be revived. It is what
`ServerPeers` and `ClientReconnect` take a Peer that has opened to be: their Peers go from Open to Closing or
Closed, and from Closed nowhere, but for the torn Peers of `ServerPeers`: `PeerSession` has the calls of
one Peer on its io thread.

### Transactions and ClientTransactions

`call[t]` says how far the t-th call of `send` is: a call is one action up to each point
where another thread may come in (`Assign`, `Register` under the lock, `Arm`, then `PeerSend`
or `PeerRefuses`). `pending` and `byEnd` are the two maps, `ids` what a request was registered
with and `wireIds` what it was written with. A timer is armed, then *expired* (its handler is
queued), then done; `off` if cancelled in time or destroyed with its request. `Answer(t)` is
an answer to `t` arriving on this connection or, through `tryResolve`, on another, possibly
late, twice, or with a hop-by-hop rewritten to one of `Rewrites`. `TimeoutHandler` looks up its
hop-by-hop, as the code does, and ends whatever is there. `PeerBack` is the new Peer of a
reconnection, with a new seed and the old table. `Close` and `ClearPending` are the two halves
of `close`. Calls in `IoCalls` are made from a callback, and exclude handlers while they run.

`Transactions` is the promise: a request goes from new to pending to one of answered, timed
out or dropped, and a step completes one request at a time. `KeepsPromise` is that
specification under the mapping `Statuses`.

### ClientReconnect

`state[g]` is the state of the g-th Peer made, `peer` the one in `peer_`. Every change of
state goes through `SetState`, whose callback is `OnPeerState`: like the code it does not look
at which Peer calls. `timer` and `queued` are the armed timer and its expired handlers,
`dialing` says that asyncConnect is under way (it may still bring to WaitCEA a Peer that was
closed before it had a socket). Inside a session only opening and ending are kept:
`PeerSession` shows the rest. `waits` records the delays scheduled since the last Open. What the
timer handler makes of the delay (`Doubled`) is lost: the `connect` it calls sets the delay back
before anything reads it, so that `TimerHandler` need not mention it, and `Backoff`, which says that
each wait is `Doubled` of the one before, is what the code does not do.

### ServerPeers

Two threads run (`Thread`): `"io"`, which runs the handlers one at a time, and `"call"`, in which
`stopListening`, `shutdown` and `close` are called, one at a time. `stage[c]` is how far a
connection has got: in the backlog, accepted (handler queued), handshaking, secured (handshake
handler queued), starting (its Peer is pushed to `peers_`, in `start()`), started, heard (the CER is
read, its handler queued), met (the read loop goes on behind the CER), deaf (it has ended by an
error). Both a server with a TLS context and one without are initial states.

`Peer::state_` has no lock, and so nothing that reads and then sets it is one step. `job[t]` is what
thread `t` is at on the way to changing a Peer's state:

| Step | Code | What may come in behind it |
|---|---|---|
| `VisitPeer` | `shutdown` finds the Peer Open (DiameterServer.cpp:196) | anything on the io thread |
| `DisconnectPeer` | `disconnect` looks again (Peer.cpp:287), and setState tests | an error, a DPR or a DPA closes the Peer |
| `ClosePeer`, `PeerCloses` | `close` closes the socket (Peer.cpp:310) | the other thread closes it too |
| `CloseSets` | the test of `close`'s setState (Peer.cpp:546) | the same |
| `HandleCER`, `ReadFails`, `WriteFails`, `Track` | the check of the handler, and the test of its setState | `close` or `disconnect` on the call thread |
| `Assign` | `state_ = newState` (line 547) | the state is set again before this callback runs |
| `Callback` | `onPeerStateChange`, with the state that was set, whatever it is now | |

A check and the test of setState that follows it are one step where nobody else sets the state
tested for: only the io thread sets WaitCER and Open, only the call thread Closing. A Peer that was
set over a Closed that the test had not seen is `torn` (a history variable): two threads were at it at
the same time. `LiveIsTracked`, `OneClosedEvent` and `CloseHolds` name what a torn Peer may come to and
what no Peer comes to otherwise:

- an error between the check of `disconnect` and its assignment erases the Peer from `peers_`, and then
  it is Closing, on no list;
- `close` on one thread and an error or a DPA on the other both announce Closed;
- `close` while `handleCER` is past its check closes the Peer, which then is Open, but with a socket
  that is closed: its read ends by an error, which closes it again.

`peers_` is changed under its mutex: `Track` pushes, `OnPeerStateChange` erases, `CopyPeers` and
`TakePeers` are the blocks of `shutdown` and `close`; `todo` is their copy. The code pushes a Peer
before `start()` (DiameterServer.cpp:460-463), so Peers in WaitCER are in `peers_`; the header speaks of
adding them on Open (DiameterServer.hpp:27) or on the CER and CEA (:60). The properties follow the code,
and go further than these lines, as they cover the Peers in WaitCER too.

Taken as one step each: `stopListening`, and `doAccept`, though `listening_` and the acceptor have no
lock either. Calls of `listen`, `shutdown` and `close` do not overlap each other; the application does
not call a Peer itself (`PeerSession`). `listen` may be called several times, so `waiting` counts the
outstanding accepts. `Return` is the end of a call; `down` remembers it until the next `listen`.

### ServerTransactions

As `ClientTransactions`, action by action, with what the server's code does otherwise: a request
is for one of several Peers (`leg`), each with a counter of its own (`nextHop[p]`) next to the
node's `nextEnd`; its hop-by-hop is the caller's, one of `CallerHops[t]`, or the Peer's if that is 0;
nothing is checked before a request is registered, so a request to a Peer that
is not Open is registered, armed and withdrawn; a Peer that is lost does not come back; and nothing
clears the table. `Answer` does not look at the Peer an answer comes from, as `resolve` does not.

### Messages and Framing

`Messages` has no state. A message is a sequence of 32-bit words; a word that packs a byte of flags
with 24 bits keeps the one flag that is read (R, or V) and its low part. Strings keep their length in
bytes, so that padding is what it is in the code, and are filled with one word each. `HighBit` is
2^24 in the code and any number above the lengths here.

`Framing` puts such messages on a connection. `AsyncWrite` queues a write whether or not another is
under way. asio writes a part when its turn comes (`WritePart`: at most `PartWords`, and what the
connection has room for), and the handler of a part that was not the last queues the rest behind
whatever waits by then (`WriteResumes`). `ReadHeader` takes the first word, `ReadBody` what there is
up to the length it announced. `OnMessage` is what the handler does with a whole message: base requests
are answered as Peer answers them, others by an application, the client's through `sendAnswer` as in the
unit tests, the server's as `echo_server` does; answers are not answered. Both sides may send requests
once `Open`. Abstracted: a message and a part are whole words, sessions do not end (`PeerSession`), the
state an answer finds is not looked at, and all of a composed read's parts are one step per wake-up.

## 3. The runs

Passing runs:

| Run | States | What it shows |
|---|---|---|
| `PeerSession_tcp` | 1.3 million | TCP, any of well-formed and malformed application messages (2 per side), 2 watchdog expirations: types; the server opens first; the CEA comes first; only a DPA follows a DPR; a Peer with a DPR in the air is Closing or Closed; a socket closed by `close` stays with a Closed Peer; `Session` is implemented |
| `PeerSession_live` | 40,000 | TLS, fair handlers, well-formed messages: capability exchanges end, simultaneous disconnects complete, one side's end becomes the other's, and Closed means that no connection works |
| `ClientTransactions_auto` | 480,000 | three calls, two timed, one on the io thread, identifiers from counters, the end-to-end counter wrapping through zero, one reconnection with a new seed, rewritten answers: the index finds every pending request, answers and timeouts reach their own request |
| `ClientTransactions_collide` | 900,000 | three calls with identifiers chosen from {0, 1} modulo 3 and two command codes: the index is sound, one completion per request, nothing calls back once a refusal was returned, `Transactions` is implemented, and every timed request leaves the table, whatever collides with it |
| `ServerPeers_serve` | 480,000 | two connections, TLS or not, one failed accept, three calls of `listen`, `shutdown` or `close` and any of `stopListening`, from a second thread, between any two steps of a handler and of setState: who has a working session is in `peers_` or being closed, who has ended is not, each end is announced, every connection is taken, what `close` took ends; with the exceptions for a torn Peer that section 2 lists |
| `ClientReconnect_retry` | 209 | five Peers, one `connect`: one live Peer, nothing scheduled after a stop, retries as long as enabled |
| `ServerTransactions_legs` | 430,000 | three calls to two Peers whose counters are one apart, so that hop-by-hops meet, and one of them with a hop-by-hop of its caller's that meets both; one timed, one on the io thread, the end-to-end counter wrapping through zero, rewritten and late answers from anywhere, Peers opening and lost: the index is sound, `Transactions` is implemented, of requests left to the counters a wrong answer can only complete one to *another* Peer, and the timed request leaves the table although its Peer is gone |
| `Framing_stream` | 16,000 | thirteen conversations, of a CER and up to three requests, some with requests of both sides at once, strings of 0 to 4 bytes with and without a vendor, on a connection that holds 16 words and takes 12 at a time: messages arrive whole as long as writes are not in each other's way, identities and result codes are read as written, each request has its own answer and no answer has one, and what is sent is answered |

Runs that fail, each on what a comment of the repository says:

| Run | What it shows |
|---|---|
| `PeerSession_closing` | `close()` ("Force close", Peer.hpp:160) during name resolution is undone: there is no socket to close, and asyncConnect carries on and sets WaitCEA again |
| `ClientReconnect_backoff` | the delay between attempts never grows ("Exponential backoff", DiameterClient.hpp:28 and :69): the timer's handler doubles it, and the `connect` it calls sets it back (DiameterClient.cpp:482 and 157) |
| `ServerPeers_down` | a session opens after `shutdown()` ("send DPR to all peers", DiameterServer.hpp:110) returned: its Peer was still on its way to `peers_`, or in WaitCER |
| `Framing_concurrent` | "Write a complete Diameter message" (PeerConnection.hpp:161): two messages given to `asyncWrite` while the socket takes them in parts are cut into each other, and the other side reads what nobody wrote |

Two more disagreements have no run of their own. A header announcing fewer than 20 bytes
leaves a Peer Closed ("No connection or connection lost", Peer.hpp:77) over a connection that works:
`ClosedMeansNoConnection` fails if `AppMessages` of `PeerSession_live` has `"BAD"`. And `send()` can
return 0 ("On 0 no callback is invoked", DiameterClient.hpp:130-131) after onTimeout was called: called
from a thread other than io, the timer, armed before the write is tried, can fire before the write is
refused. `ZeroReturnIsSilent` of `ClientTransactions` says that; it fails with one timed request that no
caller makes on the io thread. `SilentOnceRefused`, which `ClientTransactions_collide` checks and a theorem
proves, is the half of it that always holds, and section 4 says when the whole does.

**The bounds and why they are enough.** A session has two sides and what can go wrong needs
few messages: two application messages a side give every order of one before, at and after
any base message, and two watchdog expirations a rescheduled one. `PeerSession_live` has one
of each, liveness being dearer; its behaviours are those of the first run otherwise, over the
transport whose handlers report most. Three requests are what a collision needs (one
replaced, one replacing, and a bystander of another command code); the modulus is small enough
for counters to meet callers' identifiers and, in `auto`, for the end-to-end to pass through
zero, a value that the index may hold and that `tryResolve` does not look up. `Rewrites` holds, in `auto`, an identifier nobody uses
(an agent that forgot to restore it), in `collide` one somebody does. One answer
per request is enough for late answers, as the request may have timed out or been replaced;
duplicates are answers after completion and reach the same branch. Two connections let one be
taken from `peers_` or waited for while another is pushed; three calls let an old accept
handler meet a new loop and a `shutdown` or `close` meet both, or two calls visit one Peer. Five Peers give four retries, by which the delay would have met its maximum.
Two Peers one apart are the smallest server whose requests meet although nobody chose identifiers.
In `Framing_stream`, with parts of 12 words, a CER and a CEA (24) are cut in parts and longer than the
connection, so that a writer waits for its reader; a DPR, a DWA and a DPA (14) and the server's longer answers
to applications (up to 15) are cut in two; a DWR (11), the applications' requests (up to 12) and the shorter
answers go in one part. In `Framing_concurrent`, with parts of 6 words, more is cut.
Every definition of a next-state relation is exercised by the passing runs. Symmetry is not
used: the sets are small and six of the eight passing runs check liveness.

**Fairness.** Weak, and only of what asio or the kernel does once it is possible: queued handlers
run, timers expire, operations complete or fail, outstanding accepts take what waits; a call that has begun goes on. Strong fairness is never assumed: none of these is disabled
again and again by others for ever, under the bounds. Nothing makes an application call anything,
a link fail, or an answer arrive. In `ServerPeers` the thread that calls goes on with its call, and the io
thread with what it has to run (`IoGoesOn`): a handler, a step of setState, an accept, and the read of a
socket that is closed, which is an error. It is not assumed that a handshake ends, that a CER comes, or
that a session ends whose socket is open. `PeerSession_live` does assume that a TLS handshake ends, between
hosts that answer. `ClientReconnect` assumes that an attempt ends, which `PeerSession_live` shows.
`CHECK_DEADLOCK FALSE` is said where the system may really stop: a server with no client, a client told to
disconnect, a table with no request left, a conversation that is over.

**What the properties assume.** The properties of `Framing_stream` are for histories in which no
message was in parts while another waited (`contended`); `Framing_concurrent` shows the others.
`SameLegGoesHome` is for pairs of requests whose callers leave the hop-by-hop at 0: a caller that chooses
one may hit on a pending request to the same Peer, whose answer then is the newest's. The comment at
DiameterServer.cpp:288-289 says so of the registration. End-to-ends are left at 0 in that run. `NoneForgotten` is for requests with
a timeout: without one, a request whose Peer is gone stays in the server's table for ever.
`EstablishedOrClosed`, `DisconnectCompletes` and `TeardownReachesPeer` hold between two nodes that both run this code on hosts that answer: no
timer bounds the wait for a CEA, a DPA or a DWA. They and `ClosedMeansNoConnection` exclude
malformed messages, whose effect is said above. `AnswerGoesHome` and `OwnTimeout` are for
identifiers drawn from the counters and a reconnection whose seed does not meet what is pending:
with colliding identifiers of callers a queued timer handler ends the request that took its
identifier. `ZeroReturnIsSilent`, which no run checks, also fails when the hop-by-hop counter is at zero, without a
race. What is said of a server's Peers is said of two threads, and leaves out what a torn Peer may come
to (section 2); a server whose calls are all made on the io thread has none. `EveryConnectionTaken` excludes a failed accept, which ends the loop for good. `OneLivePeer`
and the bound `MaxConnects = 1` go together: an application that calls `connect` again has two
sessions. `StoppedIsQuiet` is about the timer: a handler already queued when `disconnect` cancels
it still connects.

## 4. The proofs

`PeerSession_proofs`, for every transport, message set and bound:

- `TypeCorrect`: `Spec => []TypeOK`. The types tell the sides apart (a client never meets a CER
  nor waits for one), which is why the handlers can be proved one by one.
- `Invariance`: `Spec => []IInv`. `ServerOpensFirst`, `CeaFirst` and `DisconnectPending` are not
  inductive. `IInv` adds: until asyncConnect has ended nothing has been said to the server, and
  sockets exist from the resolution or the accept on (`DialInv`); who is Open or Closing has been
  opened (`OpenedInv`); before the server opens, the CER is all there may be on any queue and the
  client has not opened (`FreshInv`); a client in WaitCEA whose server is open has the CEA next,
  or it was lost with the connection and nothing else can arrive (`AnswerInv`); a DPR in the air,
  or its answer, means that its sender has been opened and is Closing or Closed (`PendingInv`).
  `QuietAfterDPR` is a part of it: a message other than a DPA is only written in Open, when no DPR
  of the same side is on the wire.
- `ServerOpensFirstAlways`, `CeaFirstAlways`, `QuietAfterDPRAlways`, `DisconnectPendingAlways`
  follow from it.
- `PeersKeepSession`: `Spec => KeepsSession`. A Peer that has been opened enters WaitCEA or
  WaitCER never again (`WaitInv`), as `IInv` says that connect, onConnected and start only find
  Peers that have not; a step changes the state of one side, and a client's CEA means an opened
  server. So each step maps to a step or a stutter of `Session`.
- `ForceCloseAlwaysHolds`, assuming TCP: a closed socket stays with a Closed Peer, because every
  handler that may still run guards on a state that is gone, and the one that does not look at the
  state, the last of asyncConnect, looks at the socket. `CloseInvariance` is the invariant, which
  for a server's Peer holds of every transport. Over SCTP and TLS it fails for a client.
- `ClosedMeansNoConnectionAlways`, assuming that applications send no malformed message. What closes a
  Peer without closing its socket is an error: a dial that fails has no link, a read fails on a
  connection that is gone, and the error of a write is only reported to a side that has started and
  whose connection no longer carries (`Ended`), which no step undoes (`EndInv`). `NoneBad` excludes the
  one error that a working connection reports, the short length.

`ClientTransactions_proofs`, for every set of requests, modulus, choice of identifiers,
rewriting, and bound:

- `ClientTypeCorrect`: the table maps identifiers to requests and the counters wrap.
- `TableInvariance`: `IndexSound` and `OneCompletion` rest on the agreement of the table with
  the calls: an entry belongs to a registered request of that hop-by-hop without an outcome
  (`Tabled`), a registered request without an outcome has its entry (`Findable`), an
  unregistered one has no outcome (`Fresh`).
- `IndexSoundAlways`, `OneCompletionAlways`; `ClientKeepsPromise`: `Spec => KeepsPromise`,
  initial states map to initial states and each step to a step or a stutter of `Transactions`,
  step by step under `IInv`.
- `CorrelationInvariance`, and `IndexCompleteWhileApart`, `AnswerGoesHomeWhileApart` and
  `OwnTimeoutWhileApart`: the three properties about pairs of requests, which identifiers chosen by
  callers can break, hold at least *as long as the identifiers given so far are apart*
  (`EndsApart`, `HopsApart`): no two requests were registered with the same one, none was written with
  one that another was registered with, and no answer brings one that was given. This is a condition on
  the history of identifiers alone, and it is what a caller who chooses them has to ensure.
- `EndsFromCounterApart` and `HopsFromCounterApart` then show that the counters do ensure it: for a caller
  who leaves identifiers at 0, fewer requests than the counter has values, less one as a request given 0
  draws twice, and, for hop-by-hops, one connection and no rewriting into what will be drawn
  (`EndsFromCounter`, `HopsFromCounter`). `IndexCompleteFromCounter`, `AnswerGoesHomeFromCounters` and
  `OwnTimeoutFromCounter` are the properties as the runs state them, under these hypotheses. The wrap is
  part of the proof: `DrawnIds_proofs` counts how far a counter has moved from its seed (`Offset`),
  which equals the number of identifiers drawn (`Drawn`), so that none comes twice.
  The instance of `ClientTransactions_auto` satisfies `EndsFromCounter`; it has one reconnection,
  which the second hypothesis excludes, and TLC finds `EndsApart` and `HopsApart` invariant there.
- `SilentOnceRefusedAlways`: a request that was refused has left the table, or has been replaced in it,
  before its call returns 0, and so no queued timer handler and no answer finds it any more.
- `IoSilentAlways` and `ZeroReturnIsSilentOnIo` say when the whole promise about 0 holds, that no
  callback is invoked. A call on the io thread keeps out the handlers that would call
  back for its request, so that one that is refused has had no callback, whatever calls other threads
  make. If all calls are made there (`IoCalls = Txn`) and no accepted request has the hop-by-hop 0
  (`NonzeroReturned`), 0 means that none was invoked.

`ServerTransactions_proofs`, for every set of requests and Peers, modulus and seeds: the same
four results for the server's table (`ServerTypeCorrect`, `ServerTableInvariance`,
`ServerIndexSoundAlways`, `ServerKeepsPromise`). The argument is the client's; the invariant adds
that a call that has begun is for a Peer (`Directed`), whose counter it draws from. It shows that
sharing a table between Peers breaks neither the index nor the promise about one request: what it
costs is in `SameLegGoesHome`, which is about pairs of requests. That too is proved:

- `ServerCorrelation` and `SameLegGoesHomeWhileApart`: while end-to-ends are apart and hop-by-hops are
  apart *on each Peer* (`LegsApart`), whoever chose them, an answer that completes another request than
  its own completes one to another Peer of the same hop-by-hop (`HomeOrOtherLeg`).
- `CountersApart` and `SameLegGoesHomeFromCounters`: one counter for the node and one for each Peer,
  whatever their seeds, keep them apart (`FromCounters`), and so the property holds. The instance of
  `ServerTransactions_legs` satisfies these hypotheses but for one hop-by-hop that a caller chose, which is
  there for the other properties.

`Framing_proofs`, for any plans and configurations, parts of any size and any room on the socket:

- `TypeInvariance` and `TypeCorrect`. `TypeInv` adds to `TypeOK` that writes and messages have their
  shapes, and that doReadBody's buffer begins with a length it has not reached.
- `StreamInvariance`, `WholeWhileFitting` and `WritesAreWholeWhileApart`. The messages given to asyncWrite are laid behind each other
  on a tape (`Laid`). What onMessage has been given is the first of them and the buffer a beginning of
  the next (`Got`); the words on the socket follow on the tape (`Follows`); behind these come the writes
  that wait, either all whole (`Whole`) or one alone that is cut (`InParts`). That only one is
  ever cut, and then alone, is what `contended` says; it is the reason why the queue behind a write in parts
  cannot be reordered into it. `WholeMessages` follows for histories in which every message is shorter than
  2^24 bytes (`Fits`), the limit of a header's length field that asyncWrite does not check. So does
  `WritesAreWhole`, which `Framing_concurrent` refutes, until a message is cut while another waits:
  there is no other way in which the messages of two threads are mixed up.
- `AnswersInvariance` and `AnswersCorrelateWhileFitting`, assuming that the client's plan begins with its
  CER (`StartsWithCER`), as Peer does. The CER is then the first message in one direction and the CEA in the
  other (`Opening`), so that no request is passed over for want of an Open state; requests never
  have an identifier of 0 (`Asking`), so that an answer keeps those it copies; and the n-th answer is
  the n-th request's (`Correlated`).
- `ToldInvariance` and `AvpsReadBackWhileFitting`, assuming also that no application puts a Result-Code
  into a request (`NoneResultCode`): `ping_server`'s answer has the AVPs of the request before its own
  result, and the walks stop at the first. The invariant (`Told`) is about what is sent. The
  first message of each direction names its node (`Names`); a request of an application consists of AVPs
  that the walks step over to its end (`Walkable`); an answer has its result where they come to it behind
  such AVPs, or is a header alone (`Readable`). Whole messages and the order of the capability exchange,
  from the invariants above, carry this over to what is read.
- These hypotheses hold of `Framing_stream`: TLC finds `Fits` invariant there, its plans begin with the CER
  and have no Result-Code.

`Messages_proofs` has the lemmas about messages that these rest on: sizes, headers and identifiers of what
the build functions return; that a sequence of AVPs is one of words, laid behind each other
(`FlattenLaid`); and what the walks find in it. The library's induction theorems cannot be instantiated,
so that a recursive definition is proved to have a value for each use: `SetInduction` is induction with a set
in place of a predicate, and `WalkExists` builds a walk with it, from the end of the message on.
`StringWalk`, `ResultWalk` and `PingWalk` then unfold the three walks one step at a time, and
`ChainFound` goes with a walk along AVPs it steps over (`Chain`) up to the one it looks for.

`ServerPeers_proofs`, for every set of connections and number of calls:

- `ServerPeersTypeCorrect`, and `PeersInvariance`: `IInv` is a statement about each Peer (`PeerInv`) that
  holds between the steps of setState, with both threads in it. `SeenInv` says what the test of a setState
  that is under way has seen; `JobInv` which assignments can be under way together, and that the call
  thread closes only sockets that it has closed first; `StageInv` how the state goes with the progress of
  the connection, so that only a Peer that has begun is torn, and never goes back to WaitCER; `EndInv` that
  the announcements of a Peer's end, made or under way, are as many as its ends: one, if it is not torn, and
  then some callback still has to erase it; `TrackInv` that a Peer that has a session, or may still get one,
  is in `peers_` or taken, and that one set to Open over a Closed has no socket.
- `LiveIsTrackedAlways`, `DeadIsForgottenAlways`, `OneClosedEventAlways` follow. The second has no exception
  for torn Peers: every assignment of Closed has a callback of its own, which gets Closed by value and erases.
- `NoSessionOnceSettled` says how much of the promise about shutdown holds, which `ServerPeers_down` refutes.
  If no call reads `peers_` while a connection is on its way to its Peer, and no shutdown while a Peer waits
  for its CER (`SettledCall`), then, once the call has returned and until the next listen, a Peer that is Open
  is torn and has a closed socket: the one that a handleCER past its check sets to Open over the Closed of
  `close`. The invariant (`Progress`) says how far a call has got: nothing is accepted any more, and a Peer that
  is not on the call's list, nor being visited, has no session and no way to one (`Over`).

`ClientReconnect_proofs`, for every pair of delays and number of Peers:

- `ReconnectTypeCorrect`; `StoppedIsQuietAlways`, as a stopped client has reconnection disabled
  before its Peer reports Closed.
- `OneLivePeerAlways`, assuming `MaxConnects <= 1`: at most one of an armed timer, a queued handler
  of it and a Peer that lives or dials exists at a time (`OneReason`).

The assumptions are those named in the modules (`IdAssumption`, `NoneAssumption`, ...): that
constants have the types their comments say, and that the markers for "no entry" are not
entries. TLC evaluates them in every run.

**Only model-checked.** Liveness (`EstablishedOrClosed`, `DisconnectCompletes`,
`TeardownReachesPeer`, `NoneForgotten`, `EveryConnectionTaken`, `CloseHolds`, `KeepsTrying`,
`EveryRequestAnswered`) and anything that rests on ENABLED are out of the prover's reach. RECURSIVE
operators, out of reach as well, are not used. Every invariant and every action property that the
passing runs check has a theorem. The properties that the failing runs refute are not theorems of the
specifications alone: `NoSessionOnceDown` and `WritesAreWhole` are proved of the behaviours described
above, and what remains of `CloseIsFinal`, that a Peer whose socket was closed stays Closed, is
`ForceCloseHolds`; nothing remains of `Backoff`. `ZeroReturnIsSilent` is proved for calls on the io thread,
and no run checks it. That the hypotheses of these theorems hold of an instance, or leave one room to act, is
checked by TLC and not proved.

## 5. Not modelled

- TLS contexts and source address selection (`makeServerContext`, `makeClientContext`,
  `deriveSourceAddress`): calls of OpenSSL and of the kernel that leave no state in the library.
- Metrics and logging: counters, gauges and histograms are written and never read.
- Flags of headers and AVPs other than R and V, and what an application makes of its own AVPs.
- An answer that is sent after a reconnection has replaced `peer_`: `Framing` has one connection.
- Lifetimes: handlers capture the server and the client by address; that the io_context is
  stopped before they are destroyed is the caller's duty.
- The unit tests, of which `Messages` and `Framing` take the messages and the answering callback;
  the main functions of the examples, which configure the library and print; the build files.

## 6. The plan

Done, in this order: `PeerSession`, being what everything else rests on; `Transactions` and
`ClientTransactions`; `ServerPeers` and `ClientReconnect`; `ServerTransactions`; `Messages` and
`Framing`; `Session`; and the proofs: types, inductive invariants and refinements of each module
first, then the properties about pairs of requests, the stream, force close, what Closed means, what
is read from AVPs, and when the promises hold that the failing runs refute.

Left:

1. The answer that misses its connection: a server's request, a reconnection, and `sendAnswer`.
