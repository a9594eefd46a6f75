------------------------ MODULE ClientReconnect_proofs ------------------------
(***************************************************************************)
(* Theorems about ClientReconnect for every pair of delays and every       *)
(* number of Peers.                                                        *)
(*                                                                         *)
(* OneLivePeer holds of clients that the application connects once.  The   *)
(* argument is that a client has one reason at most to have a connection   *)
(* later on: a timer that is armed, a handler of it that is queued, or one *)
(* Peer that is live or still dials (OneReason).  A Peer that is closed    *)
(* while it dials is a reason too, as it may yet come to WaitCEA.          *)
(***************************************************************************)
EXTENDS ClientReconnect, TLAPS

Busy(g) == state[g] \in Live \/ dialing[g]

\* At most one timer, queued handler or busy Peer; none before connect.
OneReason ==
  /\ timer => queued = 0
  /\ queued \in {0, 1}
  /\ timer \/ queued # 0 => \A g \in Peers : ~Busy(g)
  /\ \A g, h \in Peers : Busy(g) /\ Busy(h) => g = h
  /\ \A g \in Peers : peer < g => ~Busy(g)
  /\ connects = 0 => peer = 0 /\ ~timer /\ queued = 0

\* A client that was stopped neither waits nor may wait again.
Quiet == stopped => ~enabled /\ ~timer

States == Live \cup {"Closed"}

(***************************************************************************)
(* Types.                                                                  *)
(***************************************************************************)
\* The initial delay is a delay.
LEMMA InitialType == Initial \in Initial .. Max /\ Initial \in Nat
  BY DelayAssumption

\* A callback leaves a delay, and delays that were scheduled.
LEMMA SetStateTypes ==
  ASSUME TypeOK, NEW g \in Peers, NEW s \in States, NEW d \in Initial .. Max,
         SetState(g, s, d)
  PROVE  /\ state' \in [Peers -> States] /\ timer' \in BOOLEAN
         /\ delay' \in Initial .. Max /\ waits' \in Seq(Initial .. Max)
<1>1. state' \in [Peers -> States]
  BY DEF SetState, TypeOK, States
<1>2. CASE ScheduleReconnect(d)
  <2>1. waits' \in Seq(Initial .. Max)
    BY <1>2 DEF ScheduleReconnect, TypeOK
  <2> QED
    BY <1>1, <1>2, <2>1 DEF ScheduleReconnect
<1>3. CASE NoRetry(d)
  BY <1>1, <1>3 DEF NoRetry, TypeOK
<1>4. CASE delay' = Initial /\ waits' = <<>> /\ UNCHANGED timer
  BY <1>1, <1>4, InitialType DEF TypeOK
<1> QED
  BY <1>2, <1>3, <1>4 DEF SetState, OnPeerState

\* Dialing makes a Peer of the range.
LEMMA AttemptTypes ==
  ASSUME TypeOK, Attempt
  PROVE  /\ peer' \in 0 .. MaxPeers /\ dialing' \in [Peers -> BOOLEAN]
         /\ state' \in [Peers -> States] /\ timer' \in BOOLEAN
         /\ delay' \in Initial .. Max /\ waits' \in Seq(Initial .. Max)
<1>1. peer + 1 \in Peers /\ peer' \in 0 .. MaxPeers
  BY BoundsAssumption DEF Attempt, Dial, TypeOK, Peers
<1>2. dialing' \in [Peers -> BOOLEAN]
  BY <1>1 DEF Attempt, Dial, TypeOK
<1>3. SetState(peer + 1, "WaitCEA", Initial) /\ "WaitCEA" \in States
  BY DEF Attempt, Dial, States, Live
<1> QED
  BY <1>1, <1>2, <1>3, InitialType, SetStateTypes

Flags == enabled \in BOOLEAN /\ timer \in BOOLEAN /\ stopped \in BOOLEAN
Numbers ==
  /\ peer \in 0 .. MaxPeers
  /\ state \in [Peers -> States]
  /\ dialing \in [Peers -> BOOLEAN]
  /\ queued \in Nat /\ delay \in Initial .. Max
  /\ waits \in Seq(Initial .. Max)
  /\ connects \in Nat

\* The type invariant, part by part, before a step and after it.
LEMMA TypeParts ==
  /\ TypeOK => Flags /\ Numbers
  /\ (Flags /\ Numbers)' => TypeOK'
  BY DEF TypeOK, Flags, Numbers, States

\* Every step keeps the types.
LEMMA TypesStep == TypeOK /\ [Next]_vars => TypeOK'
<1> SUFFICES ASSUME TypeOK, [Next]_vars PROVE TypeOK'
  OBVIOUS
<1>1. CASE UNCHANGED vars
  BY <1>1 DEF TypeOK, vars
<1>2. CASE Connect
  <2>1. connects' \in Nat
    BY <1>2 DEF Connect, TypeOK
  <2>2. Numbers'
    BY <1>2, <2>1, AttemptTypes DEF Connect, TypeOK, Numbers
  <2>3. Flags'
    <3>1. timer' \in BOOLEAN
      BY <1>2, AttemptTypes DEF Connect
    <3> QED
      BY Zenon, <1>2, <3>1 DEF Connect, TypeOK, Flags
  <2> QED
    BY <2>2, <2>3, TypeParts
<1>3. CASE TimerExpires
  <2>1. Numbers'
    BY <1>3 DEF TimerExpires, TypeOK, Numbers, States, application
  <2>2. Flags'
    BY Zenon, <1>3 DEF TimerExpires, TypeOK, Flags, application
  <2> QED
    BY <2>1, <2>2, TypeParts
<1>4. CASE TimerHandler
  <2>1. queued' \in Nat
    BY <1>4 DEF TimerHandler, TypeOK
  <2> QED
    BY <1>4, <2>1, AttemptTypes DEF TimerHandler, TypeOK, States, application
<1>5. CASE SetReconnectDisabled
  BY <1>5 DEF SetReconnectDisabled, TypeOK, retry
<1>6. ASSUME NEW s \in States, Stop(s) PROVE TypeOK'
  <2>1. state' \in [Peers -> States]
    BY <1>6 DEF Stop, TypeOK, States
  <2> QED
    BY <1>6, <2>1 DEF Stop, TypeOK, States
<1>7. ASSUME NEW g \in Peers, PeerConnected(g) \/ PeerOpens(g) \/ PeerEnds(g) PROVE TypeOK'
  <2>1. PICK s \in States : SetState(g, s, delay)
    BY <1>7 DEF PeerConnected, PeerOpens, PeerEnds, States, Live
  <2>2. /\ state' \in [Peers -> States] /\ timer' \in BOOLEAN
        /\ delay' \in Initial .. Max /\ waits' \in Seq(Initial .. Max)
    BY <2>1, SetStateTypes DEF TypeOK
  <2>3. dialing' \in [Peers -> BOOLEAN]
    BY <1>7 DEF PeerConnected, PeerOpens, PeerEnds, TypeOK
  <2>4. UNCHANGED <<peer, queued, enabled, stopped, connects>>
    BY <1>7 DEF PeerConnected, PeerOpens, PeerEnds, application
  <2> QED
    BY <2>2, <2>3, <2>4 DEF TypeOK, States
<1> QED
  BY <1>1, <1>2, <1>3, <1>4, <1>5, <1>6, <1>7 DEF Next, Disconnect, Close, States, Live

\* Initially every variable has its type.
LEMMA InitTypes == Init => TypeOK
<1>1. Init => Flags
  BY Zenon DEF Init, Flags
<1>2. Init => Numbers
  BY InitialType, BoundsAssumption DEF Init, Numbers, States
<1> QED
  BY <1>1, <1>2 DEF TypeOK, Flags, Numbers, States

\* TypeOK: the delay stays between its bounds, and Peers, timers and handlers
\* keep to what DiameterClient.cpp makes of them.
THEOREM ReconnectTypeCorrect == Spec => []TypeOK
  BY InitTypes, TypesStep, PTL DEF Spec

(***************************************************************************)
(* Stopping.                                                               *)
(***************************************************************************)
\* What a callback does to the timer.
LEMMA SetStateRetry ==
  ASSUME NEW g \in Peers, NEW s, NEW d, SetState(g, s, d)
  PROVE  timer' # timer => enabled /\ s = "Closed" /\ state[g] # "Closed"
BY DEF SetState, OnPeerState, ScheduleReconnect, NoRetry

\* Every step keeps a stopped client quiet.
LEMMA QuietStep ==
  ASSUME TypeOK, Quiet, [Next]_vars
  PROVE  Quiet'
<1>1. CASE Connect
  BY <1>1 DEF Connect, Quiet
<1>2. CASE TimerExpires \/ SetReconnectDisabled
  BY <1>2 DEF TimerExpires, SetReconnectDisabled, Quiet, application, retry
<1>3. CASE TimerHandler
  <2>1. peer + 1 \in Peers
    BY <1>3, BoundsAssumption DEF TimerHandler, Attempt, Dial, TypeOK, Peers
  <2>2. SetState(peer + 1, "WaitCEA", Initial)
    BY <1>3 DEF TimerHandler, Attempt, Dial
  <2>3. timer' = timer
    BY <2>1, <2>2, SetStateRetry
  <2> QED
    BY <1>3, <2>3 DEF TimerHandler, Quiet, application
<1>4. CASE Disconnect \/ Close
  BY <1>4 DEF Disconnect, Close, Stop, Quiet
<1>5. ASSUME NEW g \in Peers, PeerConnected(g) \/ PeerOpens(g) \/ PeerEnds(g) PROVE Quiet'
  <2>1. PICK s : SetState(g, s, delay)
    BY <1>5 DEF PeerConnected, PeerOpens, PeerEnds
  <2>2. timer' # timer => enabled
    BY <2>1, SetStateRetry
  <2> QED
    BY <1>5, <2>2 DEF PeerConnected, PeerOpens, PeerEnds, Quiet, application
<1>6. CASE UNCHANGED vars
  BY <1>6 DEF Quiet, vars
<1> QED
  BY <1>1, <1>2, <1>3, <1>4, <1>5, <1>6 DEF Next

\* StoppedIsQuiet: disconnect and close disable reconnection before the Peer
\* they end reports Closed, so no later callback arms the timer.
THEOREM StoppedIsQuietAlways == Spec => []StoppedIsQuiet
<1>1. Init => Quiet
  BY DEF Init, Quiet
<1>2. TypeOK /\ Quiet /\ [Next]_vars => Quiet'
  BY QuietStep
<1>3. Quiet => StoppedIsQuiet
  BY DEF Quiet, StoppedIsQuiet
<1> QED
  BY <1>1, <1>2, <1>3, ReconnectTypeCorrect, PTL DEF Spec

(***************************************************************************)
(* One session at a time.                                                  *)
(***************************************************************************)
\* Dialing, when there was no other reason for a connection.
LEMMA AttemptStep ==
  ASSUME TypeOK, OneReason, Attempt, \A g \in Peers : ~Busy(g), ~timer
  PROVE  /\ \A g, h \in Peers : Busy(g)' /\ Busy(h)' => g = h
         /\ \A g \in Peers : peer' < g => ~Busy(g)'
         /\ ~timer' /\ peer' # 0
<1>1. peer \in Nat /\ peer + 1 \in Peers /\ peer' = peer + 1
  BY BoundsAssumption DEF Attempt, Dial, TypeOK, Peers
<1>2. SetState(peer + 1, "WaitCEA", Initial)
  BY DEF Attempt, Dial
<1>3. \A g \in Peers : g # peer + 1 => state'[g] = state[g] /\ dialing'[g] = dialing[g]
  BY <1>1, <1>2 DEF SetState, Attempt, Dial, TypeOK
<1>4. \A g \in Peers : Busy(g)' => g = peer + 1
  BY <1>3 DEF Busy
<1>5. timer' = timer
  BY <1>1, <1>2, SetStateRetry
<1> QED
  BY <1>1, <1>4, <1>5 DEF Peers

\* A step that makes no Peer busy and leaves timer and handlers alone.
LEMMA CalmStep ==
  ASSUME TypeOK, OneReason, UNCHANGED <<peer, queued, connects>>,
         timer' => timer, \A g \in Peers : Busy(g)' => Busy(g)
  PROVE  OneReason'
BY DEF OneReason

\* Every step keeps the reasons one, if the application connects once.
LEMMA OneReasonStep ==
  ASSUME MaxConnects <= 1, TypeOK, OneReason, [Next]_vars
  PROVE  OneReason'
<1>1. CASE UNCHANGED vars
  BY <1>1, CalmStep DEF vars, Busy
<1>2. CASE Connect
  <2>1. connects = 0 /\ connects' = 1 /\ queued' = queued
    BY <1>2, BoundsAssumption DEF Connect, TypeOK
  <2>2. peer = 0 /\ ~timer /\ queued = 0 /\ \A g \in Peers : ~Busy(g)
    BY <2>1, BoundsAssumption DEF OneReason, Peers
  <2> QED
    BY <1>2, <2>1, <2>2, AttemptStep DEF Connect, OneReason
<1>3. CASE TimerExpires
  BY <1>3 DEF TimerExpires, OneReason, Busy, application
<1>4. CASE TimerHandler
  <2>1. queued = 1 /\ queued' = 0 /\ connects' = connects
    BY <1>4 DEF TimerHandler, OneReason, application
  <2>2. ~timer /\ connects # 0 /\ \A g \in Peers : ~Busy(g)
    BY <2>1 DEF OneReason
  <2> QED
    BY <1>4, <2>1, <2>2, AttemptStep DEF TimerHandler, OneReason
<1>5. CASE SetReconnectDisabled
  BY <1>5, CalmStep DEF SetReconnectDisabled, retry, Busy
<1>6. CASE Disconnect \/ Close
  <2>1. PICK s \in {"Closing", "Closed"} :
          Stop(s) /\ (s = "Closing" => peer # 0 /\ state[peer] = "Open")
    BY <1>6 DEF Disconnect, Close
  <2>2. \A g \in Peers : Busy(g)' => Busy(g)
    BY <2>1 DEF Stop, Busy, Live, TypeOK
  <2> QED
    BY <2>1, <2>2, CalmStep DEF Stop
<1>7. ASSUME NEW g \in Peers, PeerConnected(g) \/ PeerOpens(g) PROVE OneReason'
  <2>1. PICK s \in {"WaitCEA", "Open"} : SetState(g, s, delay)
    BY <1>7 DEF PeerConnected, PeerOpens
  <2>2. timer' = timer
    BY <2>1, SetStateRetry
  <2>3. \A h \in Peers : Busy(h)' => Busy(h)
    BY <1>7 DEF PeerConnected, PeerOpens, SetState, Busy, Live, TypeOK
  <2> QED
    BY <1>7, <2>2, <2>3, CalmStep DEF PeerConnected, PeerOpens, application
<1>8. ASSUME NEW g \in Peers, PeerEnds(g) PROVE OneReason'
  <2>1. Busy(g) /\ UNCHANGED <<peer, queued, connects>>
    BY <1>8 DEF PeerEnds, Busy, application
  <2>2. ~timer /\ queued = 0 /\ connects # 0
    <3>1. ~timer /\ queued = 0
      BY <2>1 DEF OneReason
    <3>2. connects # 0
      BY <2>1, BoundsAssumption DEF OneReason, Peers
    <3> QED
      BY <3>1, <3>2
  <2>3. \A h \in Peers : ~Busy(h)'
    <3>1. ~Busy(g)'
      BY <1>8 DEF PeerEnds, SetState, Busy, Live, TypeOK
    <3>2. \A h \in Peers : h # g => state'[h] = state[h] /\ dialing'[h] = dialing[h]
      BY <1>8 DEF PeerEnds, SetState, TypeOK
    <3> QED
      BY <2>1, <3>1, <3>2 DEF Busy, OneReason
  <2> QED
    BY <2>1, <2>2, <2>3 DEF OneReason
<1> QED
  BY <1>1, <1>2, <1>3, <1>4, <1>5, <1>6, <1>7, <1>8 DEF Next

\* OneLivePeer: a client that connects once never has two sessions, whichever
\* of its Peers calls back, and whenever a cancelled timer's handler runs.
THEOREM OneLivePeerAlways ==
  ASSUME MaxConnects <= 1
  PROVE  Spec => []OneLivePeer
<1>1. Init => OneReason
  BY DEF Init, OneReason, Busy, Live
<1>2. TypeOK /\ OneReason /\ [Next]_vars => OneReason'
  BY OneReasonStep
<1>3. OneReason => OneLivePeer
  BY DEF OneReason, OneLivePeer, Busy
<1> QED
  BY <1>1, <1>2, <1>3, ReconnectTypeCorrect, PTL DEF Spec
=============================================================================
