--------------------------- MODULE ClientReconnect ---------------------------
(***************************************************************************)
(* How a DiameterClient (src/src/DiameterClient.cpp) keeps its connection: *)
(* the Peers it makes one after the other, the callback by which each of   *)
(* them reports its state, and the timer that schedules the next attempt.  *)
(*                                                                         *)
(* A handler is one action, and so is a call: the client takes no lock for *)
(* any of this state and is called from the io thread.  A timer that       *)
(* expires only queues its handler, which runs later, cancelled or not.    *)
(* What goes on inside a session is module PeerSession's: here a Peer      *)
(* dials, opens and ends.  A Peer that is replaced lives on for as long as *)
(* its connection does, and still calls back.                              *)
(***************************************************************************)
EXTENDS Naturals, Sequences

CONSTANTS
  Initial, Max,  \* reconnectInitial_ and reconnectMax_, in some unit of time
  MaxPeers,      \* bound: Peers made
  MaxConnects    \* bound: calls of connect by the application

ASSUME DelayAssumption == Initial \in Nat \ {0} /\ Max \in Nat /\ Initial <= Max
ASSUME BoundsAssumption == MaxPeers \in Nat \ {0} /\ MaxConnects \in Nat

VARIABLES
  peer,       \* the Peer in peer_, 0 for none
  state,      \* state[g]: Peer::state_ of the g-th Peer
  dialing,    \* dialing[g]: asyncConnect of the g-th Peer is under way
  enabled,    \* reconnectEnabled_
  timer,      \* reconnectTimer_ is armed
  queued,     \* handlers of reconnectTimer_ that have expired and not yet run
  delay,      \* reconnectCurrent_
  waits,      \* the delays scheduled since a Peer was last Open (history)
  stopped,    \* disconnect or close was called after the last connect (history)
  connects    \* calls of connect so far (bounded)

retry == <<timer, queued, delay, waits>>
application == <<enabled, stopped, connects>>
vars == <<peer, state, dialing, enabled, timer, queued, delay, waits, stopped, connects>>

Peers == 1 .. MaxPeers
Live == {"WaitCEA", "Open", "Closing"}

TypeOK ==
  /\ peer \in 0 .. MaxPeers
  /\ state \in [Peers -> Live \cup {"Closed"}]
  /\ dialing \in [Peers -> BOOLEAN]
  /\ enabled \in BOOLEAN /\ timer \in BOOLEAN /\ stopped \in BOOLEAN
  /\ queued \in Nat /\ delay \in Initial .. Max
  /\ waits \in Seq(Initial .. Max)
  /\ connects \in Nat

Init ==
  /\ peer = 0
  /\ state = [g \in Peers |-> "Closed"]
  /\ dialing = [g \in Peers |-> FALSE]
  /\ enabled \in BOOLEAN
  /\ timer = FALSE /\ queued = 0
  /\ delay = Initial /\ waits = <<>>
  /\ stopped = FALSE /\ connects = 0

(***************************************************************************)
(* What a change of a Peer's state does to the client, from the delay d.   *)
(***************************************************************************)
\* Arming the timer cancels the wait it replaces.
ScheduleReconnect(d) ==
  /\ timer' = TRUE
  /\ waits' = Append(waits, d)
  /\ delay' = d

NoRetry(d) == delay' = d /\ UNCHANGED <<timer, waits>>

\* onPeerState that takes every state but Open for a lost connection.
OnPeerState_NotOpen(s, d) ==
  \/ s = "Open" /\ delay' = Initial /\ waits' = <<>> /\ UNCHANGED timer
  \/ s # "Open" /\ IF enabled THEN ScheduleReconnect(d) ELSE NoRetry(d)

\* onPeerState does not look at which Peer calls back.
OnPeerState(s, d) ==
  \/ s = "Open" /\ delay' = Initial /\ waits' = <<>> /\ UNCHANGED timer
  \/ s = "Closed" /\ IF enabled THEN ScheduleReconnect(d) ELSE NoRetry(d)
  \/ s \notin {"Open", "Closed"} /\ NoRetry(d)

\* Peer::setState: the callback is for a change only.
SetState(g, s, d) ==
  /\ state' = [state EXCEPT ![g] = s]
  /\ IF state[g] = s THEN NoRetry(d) ELSE OnPeerState(s, d)

(***************************************************************************)
(* Connecting.                                                             *)
(***************************************************************************)
\* The next Peer is made and dials, in state s, from the delay d.
Dial(s, d) ==
  /\ peer < MaxPeers
  /\ peer' = peer + 1
  /\ dialing' = [dialing EXCEPT ![peer + 1] = TRUE]
  /\ SetState(peer + 1, s, d)

\* Peer::connect that waits for the transport before it sets the state.
Attempt_StaysClosed == Dial("Closed", Initial)

\* DiameterClient::connect, which sets the delay back, and Peer::connect.
Attempt == Dial("WaitCEA", Initial)

\* What the handler of the timer makes of the delay d, before it connects.
Doubled(d) == IF 2 * d < Max THEN 2 * d ELSE Max

Connect ==
  /\ connects < MaxConnects
  /\ connects' = connects + 1
  /\ stopped' = FALSE
  /\ Attempt
  /\ UNCHANGED <<queued, enabled>>

TimerExpires ==
  /\ timer
  /\ timer' = FALSE
  /\ queued' = queued + 1
  /\ UNCHANGED <<peer, state, dialing, delay, waits, application>>

\* A handler that doubles the delay for good, and does not cap it.
TimerHandler_Uncapped ==
  /\ queued > 0
  /\ queued' = queued - 1
  /\ Dial("WaitCEA", 2 * delay)
  /\ UNCHANGED application

\* The handler of the timer: it doubles the delay, and connect, which it calls,
\* sets it back to the initial one.
TimerHandler ==
  /\ queued > 0
  /\ queued' = queued - 1
  /\ Attempt
  /\ UNCHANGED application

(***************************************************************************)
(* The Peers.                                                              *)
(***************************************************************************)
\* The transport is connected: the state is WaitCEA again, also if the Peer
\* was closed while it had no socket to close.
PeerConnected(g) ==
  /\ dialing[g]
  /\ dialing' = [dialing EXCEPT ![g] = FALSE]
  /\ SetState(g, "WaitCEA", delay)
  /\ UNCHANGED <<peer, queued, application>>

PeerOpens(g) ==
  /\ ~dialing[g]
  /\ state[g] = "WaitCEA"
  /\ SetState(g, "Open", delay)
  /\ UNCHANGED <<peer, dialing, queued, application>>

\* An error, or the end of a DPR/DPA exchange.
PeerEnds(g) ==
  /\ state[g] \in Live \/ dialing[g]
  /\ dialing' = [dialing EXCEPT ![g] = FALSE]
  /\ SetState(g, "Closed", delay)
  /\ UNCHANGED <<peer, queued, application>>

(***************************************************************************)
(* The application.                                                        *)
(***************************************************************************)
SetReconnectDisabled ==
  /\ enabled
  /\ enabled' = FALSE
  /\ UNCHANGED <<peer, state, dialing, retry, stopped, connects>>

\* disconnect and close that disable reconnection last: the Peer that closes
\* calls back while it is still enabled.
Stop_DisablesLast(s) ==
  /\ enabled' = FALSE
  /\ stopped' = TRUE
  /\ IF peer = 0 THEN UNCHANGED <<state, timer, delay, waits>> ELSE SetState(peer, s, delay)
  /\ UNCHANGED <<peer, dialing, queued, connects>>

\* disconnect and close: they disable reconnection before they close the Peer,
\* so that its callback schedules nothing.
Stop(s) ==
  /\ enabled' = FALSE
  /\ stopped' = TRUE
  /\ timer' = FALSE
  /\ state' = IF peer = 0 THEN state ELSE [state EXCEPT ![peer] = s]
  /\ UNCHANGED <<peer, dialing, queued, delay, waits, connects>>

Disconnect == Stop(IF peer # 0 /\ state[peer] = "Open" THEN "Closing" ELSE "Closed")
Close == Stop("Closed")

(***************************************************************************)
(* The specification.                                                      *)
(***************************************************************************)
Next ==
  \/ Connect \/ TimerExpires \/ TimerHandler
  \/ SetReconnectDisabled \/ Disconnect \/ Close
  \/ \E g \in Peers : PeerConnected(g) \/ PeerOpens(g) \/ PeerEnds(g)

Spec == Init /\ [][Next]_vars

\* asio expires the timer and runs its handler; a Peer that dials gets an
\* answer, an error or its capability exchange (module PeerSession).
Fairness ==
  /\ WF_vars(TimerExpires)
  /\ WF_vars(TimerHandler)
  /\ \A g \in Peers : WF_vars((PeerConnected(g) \/ PeerEnds(g)) /\ dialing[g])

FairSpec == Spec /\ Fairness

(***************************************************************************)
(* Properties.                                                             *)
(***************************************************************************)
\* A client that the application connects once has one session at a time: no
\* retry is made while a Peer lives, whatever timers and callbacks are queued.
OneLivePeer ==
  \A g, h \in Peers : state[g] \in Live /\ state[h] \in Live => g = h

\* After disconnect or close no attempt is scheduled any more, although the
\* Peer they close reports Closed as a lost one does.
StoppedIsQuiet == stopped => ~timer

\* A client that may reconnect goes on trying: an attempt that has failed, at
\* whatever point, is followed by another.
KeepsTrying ==
  \A g \in 1 .. (MaxPeers - 1) :
    peer = g /\ state[g] = "Closed" /\ enabled ~> peer # g \/ ~enabled

\* "Automatic reconnection with exponential backoff", says DiameterClient.hpp:69
\* (and :28, "on connection loss"): of the attempts made one after the other
\* without a session in between, each waits twice as long as the one before it,
\* up to the maximum.  What the timer's handler grows, DiameterClient::connect
\* sets back before the next failure reads it.
Backoff == \A i \in 1 .. (Len(waits) - 1) : waits[i + 1] = Doubled(waits[i])
=============================================================================
