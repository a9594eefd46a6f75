-------------------------- MODULE ServerPeers_proofs --------------------------
(***************************************************************************)
(* Theorems about ServerPeers for every set of connections and any number  *)
(* of calls of listen, shutdown and close.                                 *)
(*                                                                         *)
(* The invariant is a statement about each connection (PeerInv), in five   *)
(* parts: what setState is about, and what its test has seen (SeenInv);    *)
(* which changes of the state may be under way together (JobInv); how the  *)
(* state goes with the progress of the Peer (StageInv); how often its end  *)
(* was announced, or is about to be (EndInv); and where the server finds   *)
(* it (TrackInv).  A step concerns one Peer, or none, and is nothing to    *)
(* the others (CalmStep).                                                  *)
(*                                                                         *)
(* What shutdown and close leave behind comes last.                        *)
(***************************************************************************)
EXTENDS ServerPeers, TLAPS

\* setState(WaitCER), the first, is behind the Peer of c.
Begun(c) == stage[c] \in Made /\ ~Sets("io", c, "WaitCER")
Ended(c) == Begun(c) /\ state[c] = "Closed"

\* Thread t is in the callback that announces the end of c.
Telling(t, c) == IsAt(t, c, "Closed", "callback")
Told(c) == closedEvents[c] + (IF Telling("io", c) THEN 1 ELSE 0)
                           + (IF Telling("call", c) THEN 1 ELSE 0)

\* What setState, called for c, may be about, and what its test has seen.
SeenInv(c) ==
  /\ \A t \in Thread, s, q \in State : job[t] = Setting(c, s, q) =>
       /\ stage[c] \in Made
       /\ s = "WaitCER" => t = "io" /\ q = "Closed"
       /\ s = "Open" => t = "io" /\ q = "WaitCER"
       /\ s = "Closing" => t = "call" /\ q = "Open"
       /\ s = "Closed" => q # "Closed"
  /\ \A t \in Thread, s \in State, p \in Step : IsAt(t, c, s, p) => stage[c] \in Made

JobInv(c) ==
  /\ Sets("io", c, "WaitCER") =>
       stage[c] = "starting" /\ state[c] = "Closed" /\ \A s \in State : ~Sets("call", c, s)
  /\ Sets("io", c, "Open") =>
       /\ stage[c] = "met"
       /\ state[c] = "WaitCER" \/ (state[c] = "Closed" /\ socket[c] = "closed")
  /\ Sets("call", c, "Closing") =>
       stage[c] \in {"met", "deaf"} /\ ~Sets("io", c, "Open") /\ state[c] # "WaitCER"
  /\ Sets("call", c, "Closed") \/ IsAt("call", c, "Closed", "close") \/ Telling("call", c) =>
       socket[c] = "closed"
  /\ Sets("io", c, "Closed") \/ IsAt("io", c, "Closed", "close") \/ Telling("io", c) =>
       stage[c] \in Running

StageInv(c) ==
  /\ stage[c] \notin Made => state[c] = "Closed" /\ closedEvents[c] = 0 /\ c \notin torn
  /\ state[c] \in {"Open", "Closing"} => stage[c] \in {"met", "deaf"}
  /\ c \in torn => state[c] # "WaitCER" /\ Begun(c)
  /\ c \in peers \/ c \in todo => stage[c] \in Made

EndInv(c) ==
  /\ c \notin torn => Told(c) = IF Ended(c) THEN 1 ELSE 0
  /\ Ended(c) \/ c \in torn => Told(c) > 0
  /\ c \in peers /\ Ended(c) => Telling("io", c) \/ Telling("call", c)

TrackInv(c) ==
  /\ \/ socket[c] = "open" /\ (stage[c] = "starting" \/ state[c] = "WaitCER")
     \/ state[c] = "WaitCER" /\ stage[c] \in {"heard", "met"}
     \/ state[c] \in {"Open", "Closing"} /\ c \notin torn
     => c \in peers \/ Taken(c)
  /\ state[c] = "Open" /\ c \in torn => socket[c] = "closed"

PeerInv(c) == SeenInv(c) /\ JobInv(c) /\ StageInv(c) /\ EndInv(c) /\ TrackInv(c)

IInv == TypeOK /\ \A c \in Conn : PeerInv(c)

(***************************************************************************)
(* What a thread is at.                                                    *)
(***************************************************************************)
\* No two of the things that a thread may be at are the same.
LEMMA JobsDiffer ==
  /\ \A c, s : \A p \in Step : Job(c, s, p) # Idle
  /\ \A c, s, q : Setting(c, s, q) # Idle
  /\ \A c, s, d, r, q : \A p \in Step : Job(c, s, p) # Setting(d, r, q)
  /\ \A c, s, p, d, r, o : Job(c, s, p) = Job(d, r, o) => c = d /\ s = r /\ p = o
  /\ \A c, s, q, d, r, o : Setting(c, s, q) = Setting(d, r, o) => c = d /\ s = r /\ q = o
<1>1. \A c, s, p : Job(c, s, p).peer = c /\ Job(c, s, p).to = s /\ Job(c, s, p).at = p
  BY DEF Job
<1>2. \A c, s, q : /\ Setting(c, s, q).peer = c /\ Setting(c, s, q).to = s
                   /\ Setting(c, s, q).at = "assign" /\ Setting(c, s, q).seen = q
  BY DEF Setting
<1>3. Idle.at = "idle"
  BY DEF Idle
<1>4. \A c, s : \A p \in Step : Job(c, s, p) # Idle
  BY <1>1, <1>3 DEF Step
<1>5. \A c, s, q : Setting(c, s, q) # Idle
  BY <1>2, <1>3
<1>6. \A c, s, d, r, q : \A p \in Step : Job(c, s, p) # Setting(d, r, q)
  BY <1>1, <1>2 DEF Step
<1>7. \A c, s, p, d, r, o : Job(c, s, p) = Job(d, r, o) => c = d /\ s = r /\ p = o
  BY <1>1
<1>8. \A c, s, q, d, r, o : Setting(c, s, q) = Setting(d, r, o) => c = d /\ s = r /\ q = o
  BY <1>2
<1> QED
  BY <1>4, <1>5, <1>6, <1>7, <1>8

\* A thread that is at nothing.
LEMMA WhenIdle ==
  ASSUME NEW t \in Thread, job[t] = Idle
  PROVE  \A d \in Conn, s \in State : ~Sets(t, d, s) /\ \A p \in Step : ~IsAt(t, d, s, p)
  BY JobsDiffer DEF Sets, IsAt

\* A thread that sets the state of c.
LEMMA WhenSetting ==
  ASSUME NEW t \in Thread, NEW c \in Conn, NEW s \in State, NEW q \in State,
         job[t] = Setting(c, s, q)
  PROVE  \A d \in Conn, r \in State :
           (Sets(t, d, r) <=> d = c /\ r = s) /\ \A p \in Step : ~IsAt(t, d, r, p)
  BY JobsDiffer DEF Sets, IsAt

\* A thread that is at a step on the way there.
LEMMA WhenAt ==
  ASSUME NEW t \in Thread, NEW c \in Conn, NEW s \in State, NEW p \in Step, IsAt(t, c, s, p)
  PROVE  \A d \in Conn, r \in State :
           ~Sets(t, d, r) /\ \A o \in Step : (IsAt(t, d, r, o) <=> d = c /\ r = s /\ o = p)
  BY JobsDiffer DEF Sets, IsAt

\* What a step of thread t makes of what the threads are at.
LEMMA GoesFacts ==
  ASSUME TypeOK, NEW t \in Thread, NEW x, Goes(t, x)
  PROVE  /\ job'[t] = x
         /\ \A u \in Thread : u # t =>
              /\ job'[u] = job[u]
              /\ \A d \in Conn, s \in State :
                   (Sets(u, d, s)' <=> Sets(u, d, s)) /\ \A p \in Step : IsAt(u, d, s, p)' <=> IsAt(u, d, s, p)
<1>1. job'[t] = x /\ \A u \in Thread : u # t => job'[u] = job[u]
  BY DEF TypeOK, Goes
<1> QED
  BY <1>1 DEF Sets, IsAt

\* A thread that goes to nothing, ...
LEMMA GoesIdle ==
  ASSUME TypeOK, NEW t \in Thread, Goes(t, Idle)
  PROVE  \A d \in Conn, s \in State : ~Sets(t, d, s)' /\ \A p \in Step : ~IsAt(t, d, s, p)'
<1>1. job'[t] = Idle
  BY GoesFacts
<1> QED
  BY <1>1, JobsDiffer DEF Sets, IsAt

\* ... into setState, past its test, ...
LEMMA GoesSetting ==
  ASSUME TypeOK, NEW t \in Thread, NEW c \in Conn, NEW s \in State, NEW q \in State,
         Goes(t, Setting(c, s, q))
  PROVE  \A d \in Conn, r \in State :
           (Sets(t, d, r)' <=> d = c /\ r = s) /\ \A p \in Step : ~IsAt(t, d, r, p)'
<1>1. job'[t] = Setting(c, s, q)
  BY GoesFacts
<1> QED
  BY <1>1, JobsDiffer DEF Sets, IsAt

\* ... or to a step on the way there.
LEMMA GoesAt ==
  ASSUME TypeOK, NEW t \in Thread, NEW c \in Conn, NEW s \in State, NEW p \in Step,
         Goes(t, Job(c, s, p))
  PROVE  \A d \in Conn, r \in State :
           ~Sets(t, d, r)' /\ \A o \in Step : (IsAt(t, d, r, o)' <=> d = c /\ r = s /\ o = p)
<1>1. job'[t] = Job(c, s, p)
  BY GoesFacts
<1> QED
  BY <1>1, JobsDiffer DEF Sets, IsAt

(***************************************************************************)
(* The Peers that a step does not concern.                                 *)
(***************************************************************************)
\* No thread begins or ends anything that is about d.
SameJobs(d) ==
  /\ \A t \in Thread, s, q \in State : job'[t] = Setting(d, s, q) <=> job[t] = Setting(d, s, q)
  /\ \A t \in Thread, s \in State :
       (Sets(t, d, s)' <=> Sets(t, d, s)) /\ \A p \in Step : IsAt(t, d, s, p)' <=> IsAt(t, d, s, p)

\* Nothing happens to d, but that it may be put on a list from peers_.
Calm(d) ==
  /\ stage'[d] = stage[d] /\ socket'[d] = socket[d] /\ state'[d] = state[d]
  /\ closedEvents'[d] = closedEvents[d] /\ (d \in torn' <=> d \in torn)
  /\ SameJobs(d)
  /\ d \in peers' => d \in peers
  /\ d \in todo' => d \in todo \/ d \in peers
  /\ d \in peers \/ Taken(d) => d \in peers' \/ Taken(d)'

\* Such a Peer keeps the invariant.
LEMMA CalmStep == ASSUME NEW d \in Conn, PeerInv(d), Calm(d) PROVE PeerInv(d)'
<1>1. /\ "io" \in Thread /\ "call" \in Thread /\ State = {"WaitCER", "Open", "Closing", "Closed"}
      /\ Step = {"disconnect", "close", "callback"}
  BY DEF Thread, State, Step
<1>2. Begun(d)' <=> Begun(d)
  BY <1>1 DEF Calm, SameJobs, Begun
<1>3. Ended(d)' <=> Ended(d)
  BY <1>2 DEF Calm, Ended
<1>4. \A t \in Thread : Telling(t, d)' <=> Telling(t, d)
  BY <1>1 DEF Calm, SameJobs, Telling
<1>5. Told(d)' = Told(d)
  BY <1>1, <1>4 DEF Calm, Told
<1>6. SeenInv(d)'
  BY DEF PeerInv, Calm, SameJobs, SeenInv
<1>7. JobInv(d)'
  BY <1>1, <1>4 DEF PeerInv, Calm, SameJobs, JobInv
<1>8. StageInv(d)'
  BY <1>2 DEF PeerInv, Calm, StageInv
<1>9. EndInv(d)'
  BY <1>1, <1>3, <1>4, <1>5 DEF PeerInv, Calm, EndInv
<1>10. TrackInv(d)'
  BY DEF PeerInv, Calm, TrackInv
<1> QED
  BY <1>6, <1>7, <1>8, <1>9, <1>10 DEF PeerInv

(***************************************************************************)
(* Types.                                                                  *)
(***************************************************************************)
Calls == {"none", "shutdown", "disconnecting", "close", "closing"}

\* The type invariant, part by part.
ListenTypes ==
  /\ serverCtx \in BOOLEAN
  /\ listening \in BOOLEAN /\ acceptor \in BOOLEAN /\ down \in BOOLEAN
CountTypes == waiting \in Nat /\ errors \in Nat /\ calls \in Nat
ConnTypes ==
  /\ stage \in [Conn -> Stage]
  /\ socket \in [Conn -> {"none", "open", "closed"}]
JobTypes == job \in [Thread -> Jobs]
PeerTypes ==
  /\ state \in [Conn -> State]
  /\ torn \in SUBSET Conn
  /\ closedEvents \in [Conn -> Nat]
PlaceTypes == peers \in SUBSET Conn /\ \A c \in peers : stage[c] \in Made
CallTypes == call \in Calls /\ todo \in SUBSET Conn

Typed == ListenTypes /\ CountTypes /\ ConnTypes /\ JobTypes /\ PeerTypes /\ PlaceTypes /\ CallTypes

\* The parts make up the type invariant, before a step and after it.
LEMMA TypeParts == (TypeOK <=> Typed) /\ (TypeOK' <=> Typed')
  BY DEF Typed, TypeOK, ListenTypes, CountTypes, ConnTypes, JobTypes, PeerTypes, PlaceTypes,
         CallTypes, Calls

\* A thread goes from one step to another.
LEMMA GoesTypes ==
  ASSUME JobTypes, NEW t \in Thread, NEW x \in Jobs, Goes(t, x)
  PROVE  JobTypes'
  BY DEF JobTypes, Goes

\* What the threads may be at.
LEMMA JobsAre ==
  /\ Idle \in Jobs
  /\ \A c \in Conn, s, q \in State : Setting(c, s, q) \in Jobs
  /\ \A c \in Conn, s \in State, p \in Step : Job(c, s, p) \in Jobs
<1>1. Idle \in Jobs
  BY DEF Jobs
<1>2. ASSUME NEW c \in Conn, NEW s \in State, NEW q \in State PROVE Setting(c, s, q) \in Jobs
  BY DEF Jobs
<1>3. ASSUME NEW c \in Conn, NEW s \in State, NEW p \in Step PROVE Job(c, s, p) \in Jobs
  BY DEF Jobs
<1> QED
  BY <1>1, <1>2, <1>3

\* setState's test keeps the types, ...
LEMMA TestTypes ==
  ASSUME Typed, NEW t \in Thread, NEW c \in Conn, NEW s \in State, Test(t, c, s)
  PROVE  JobTypes'
<1>1. state[c] \in State
  BY DEF Typed, PeerTypes
<1>2. PICK x \in Jobs : Goes(t, x)
  BY <1>1, JobsAre DEF Test
<1> QED
  BY <1>2, GoesTypes DEF Typed

\* ... and so does what close() does before it.
LEMMA ClosesTypes ==
  ASSUME Typed, NEW t \in Thread, NEW c \in Conn, Closes(t, c)
  PROVE  JobTypes' /\ (socket' \in [Conn -> {"none", "open", "closed"}])
<1>1. Job(c, "Closed", "close") \in Jobs
  BY JobsAre DEF State, Step
<1> QED
  BY <1>1, GoesTypes DEF Closes, Typed, ConnTypes

\* Initially every variable has its type.
LEMMA InitTypes == Init => TypeOK
<1>1. Init => ListenTypes
  BY Zenon DEF Init, ListenTypes
<1>2. Init => CountTypes /\ ConnTypes /\ PeerTypes /\ PlaceTypes /\ CallTypes
  BY DEF Init, CountTypes, ConnTypes, PeerTypes, PlaceTypes, CallTypes, Stage, State, Calls
<1>3. Init => JobTypes
  BY JobsAre DEF Init, JobTypes
<1> QED
  BY <1>1, <1>2, <1>3, TypeParts DEF Typed

\* Accepting keeps the types.
LEMMA AcceptTypes ==
  ASSUME Typed,
         \/ Listen \/ StopListening \/ Shutdown \/ Close \/ AcceptFails
         \/ \E c \in Conn : Arrives(c) \/ Accepted(c) \/ StartHandshake(c) \/ HandshakeEnds(c)
  PROVE  Typed'
<1>1. CASE Listen
  <2>1. ListenTypes'
    BY Zenon, <1>1 DEF Typed, Listen, ListenTypes
  <2> QED
    BY <1>1, <2>1 DEF Typed, Listen, peerVars, CountTypes, ConnTypes, JobTypes, PeerTypes,
                      PlaceTypes, CallTypes
<1>2. ASSUME Stop, UNCHANGED <<socket, peerVars, todo, down, errors>>, call' \in Calls, calls' \in Nat
      PROVE  Typed'
  <2>1. ListenTypes'
    BY Zenon, <1>2 DEF Typed, Stop, ListenTypes
  <2>2. (CountTypes /\ JobTypes /\ PeerTypes /\ CallTypes)'
    BY <1>2 DEF Typed, Stop, CountTypes, JobTypes, PeerTypes, CallTypes, peerVars
  <2>3. ConnTypes' /\ PlaceTypes'
    BY <1>2 DEF Typed, Stop, ConnTypes, PlaceTypes, Stage, Made, Running, peerVars
  <2> QED
    BY <2>1, <2>2, <2>3 DEF Typed
<1>3. CASE StopListening
  BY <1>2, <1>3 DEF StopListening, Typed, callVars, bounded, CallTypes, CountTypes
<1>4. CASE Shutdown \/ Close
  <2>1. PICK kind \in {"shutdown", "close"} : Begin(kind)
    BY <1>4 DEF Shutdown, Close
  <2>2. calls' \in Nat /\ call' \in Calls
    BY <2>1 DEF Begin, Typed, CountTypes, Calls
  <2> QED
    BY <1>2, <2>1, <2>2 DEF Begin
<1>5. CASE AcceptFails
  BY <1>5 DEF AcceptFails, Typed, ListenTypes, CountTypes, ConnTypes, JobTypes, PeerTypes, PlaceTypes,
              CallTypes, peerVars, callVars
<1>6. ASSUME NEW c \in Conn, Arrives(c) \/ Accepted(c) \/ StartHandshake(c) \/ HandshakeEnds(c)
      PROVE  Typed'
  <2>1. ListenTypes' /\ JobTypes' /\ PeerTypes' /\ CallTypes'
    BY <1>6 DEF Arrives, Accepted, StartHandshake, HandshakeEnds, DoAccept, Typed,
                ListenTypes, JobTypes, PeerTypes, CallTypes, acceptVars, peerVars, callVars
  <2>2. CountTypes'
    BY <1>6 DEF Arrives, Accepted, StartHandshake, HandshakeEnds, DoAccept, Typed,
                CountTypes, acceptVars, bounded
  <2>3. ConnTypes' /\ PlaceTypes'
    BY <1>6 DEF Arrives, Accepted, StartHandshake, HandshakeEnds, Move, Typed, ConnTypes, PlaceTypes,
                Stage, Made, Running, peerVars
  <2> QED
    BY <2>1, <2>2, <2>3 DEF Typed
<1> QED
  BY <1>1, <1>3, <1>4, <1>5, <1>6

\* The handlers of the io thread keep the types, ...
LEMMA HandlerTypes ==
  ASSUME Typed, NEW c \in Conn,
         \/ Track(c) \/ StartReading(c) \/ ReadCER(c) \/ HandleCER(c)
         \/ ReadFails(c) \/ WriteFails(c) \/ PeerCloses(c)
  PROVE  Typed'
<1>1. ListenTypes' /\ CallTypes'
  BY DEF Track, StartReading, ReadCER, HandleCER, ReadFails, WriteFails, PeerCloses, DoAccept,
         Typed, ListenTypes, CallTypes, acceptVars, callVars
<1>2. CountTypes'
  BY DEF Track, StartReading, ReadCER, HandleCER, ReadFails, WriteFails, PeerCloses, DoAccept,
         Typed, CountTypes, acceptVars, bounded
<1>3. PeerTypes'
  BY DEF Track, StartReading, ReadCER, HandleCER, ReadFails, WriteFails, PeerCloses,
         Typed, PeerTypes, peerVars
<1>4. JobTypes'
  <2>1. CASE job' = job
    BY <2>1 DEF Typed, JobTypes
  <2>2. CASE \E s \in State : Test("io", c, s)
    BY <2>2, TestTypes DEF Thread
  <2>3. CASE Closes("io", c)
    BY <2>3, ClosesTypes DEF Thread
  <2> QED
    BY <2>1, <2>2, <2>3
       DEF Track, StartReading, ReadCER, HandleCER, ReadFails, WriteFails, PeerCloses, peerVars, State
<1>5. ConnTypes' /\ PlaceTypes'
  <2>1. stage' \in [Conn -> Stage]
    BY DEF Track, StartReading, ReadCER, HandleCER, ReadFails, WriteFails, PeerCloses, Move, Typed,
           ConnTypes, Stage, Made, Running
  <2>2. socket' \in [Conn -> {"none", "open", "closed"}]
    <3>1. CASE socket' = socket
      BY <3>1 DEF Typed, ConnTypes
    <3>2. CASE Closes("io", c)
      BY <3>2, ClosesTypes DEF Thread
    <3> QED
      BY <3>1, <3>2 DEF Track, StartReading, ReadCER, HandleCER, ReadFails, WriteFails, PeerCloses
  <2>3. PlaceTypes'
    BY DEF Track, StartReading, ReadCER, HandleCER, ReadFails, WriteFails, PeerCloses, Move, Typed,
           ConnTypes, PlaceTypes, Made, Running, peerVars
  <2> QED
    BY <2>1, <2>2, <2>3 DEF ConnTypes
<1> QED
  BY <1>1, <1>2, <1>3, <1>4, <1>5 DEF Typed

\* ... and so do setState, ...
LEMMA SetStateTypes ==
  ASSUME Typed, NEW t \in Thread, SetState(t) \/ CloseSets(t)
  PROVE  Typed'
<1>1. ListenTypes' /\ CallTypes' /\ CountTypes' /\ ConnTypes'
  BY DEF SetState, CloseSets, Typed, ListenTypes, CallTypes, CountTypes, ConnTypes, acceptVars,
         callVars, bounded
<1>2. CASE CloseSets(t)
  <2>1. PICK c \in Conn : Test(t, c, "Closed")
    BY <1>2 DEF CloseSets
  <2>2. JobTypes'
    BY <2>1, TestTypes DEF State
  <2> QED
    BY <1>1, <1>2, <2>2 DEF CloseSets, Typed, PeerTypes, PlaceTypes
<1>3. CASE SetState(t)
  <2>1. PICK c \in Conn, s \in State : Assign(t, c, s) \/ Callback(t, c, s)
    BY <1>3 DEF SetState
  <2>2. stage' = stage
    BY <1>3 DEF SetState
  <2>3. CASE Assign(t, c, s)
    <3>1. Goes(t, Job(c, s, "callback")) /\ Job(c, s, "callback") \in Jobs
      BY <2>3, JobsAre DEF Assign, Step
    <3>2. JobTypes'
      BY <3>1, GoesTypes DEF Typed
    <3>3. PeerTypes' /\ PlaceTypes'
      BY <2>2, <2>3 DEF Assign, Typed, PeerTypes, PlaceTypes
    <3> QED
      BY <1>1, <3>2, <3>3 DEF Typed
  <2>4. CASE Callback(t, c, s)
    <3>1. JobTypes'
      BY <2>4, JobsAre, GoesTypes DEF Callback, Typed
    <3>2. PeerTypes' /\ PlaceTypes'
      BY <2>2, <2>4 DEF Callback, OnPeerStateChange, Typed, PeerTypes, PlaceTypes
    <3> QED
      BY <1>1, <3>1, <3>2 DEF Typed
  <2> QED
    BY <2>1, <2>3, <2>4
<1> QED
  BY <1>2, <1>3

\* ... and the calls.
LEMMA CallTypesStep ==
  ASSUME Typed,
         \/ CopyPeers \/ TakePeers \/ Return
         \/ \E c \in Conn : VisitPeer(c) \/ DisconnectPeer(c) \/ ClosePeer(c)
  PROVE  Typed'
<1>1. CASE CopyPeers \/ TakePeers \/ Return
  <2>1. ListenTypes'
    BY Zenon, <1>1 DEF Typed, CopyPeers, TakePeers, Return, ListenTypes, acceptVars
  <2> QED
    BY <1>1, <2>1 DEF Typed, CopyPeers, TakePeers, Return, CountTypes, ConnTypes, JobTypes, PeerTypes,
                      PlaceTypes, CallTypes, Calls, acceptVars, peerVars, bounded
<1>2. ASSUME NEW c \in Conn, VisitPeer(c) \/ DisconnectPeer(c) \/ ClosePeer(c)
      PROVE  Typed'
  <2>1. (ListenTypes /\ CountTypes /\ CallTypes /\ PeerTypes /\ PlaceTypes)'
    BY <1>2 DEF VisitPeer, DisconnectPeer, ClosePeer, Typed, ListenTypes, CountTypes, CallTypes,
                PeerTypes, PlaceTypes, acceptVars, callVars, bounded
  <2>2. JobTypes' /\ ConnTypes'
    <3>1. CASE job' = job /\ socket' = socket
      BY <1>2, <3>1 DEF VisitPeer, DisconnectPeer, ClosePeer, Typed, JobTypes, ConnTypes
    <3>2. CASE \E s \in State : Test("call", c, s) /\ socket' = socket
      BY <1>2, <3>2, TestTypes DEF VisitPeer, DisconnectPeer, ClosePeer, Typed, ConnTypes, Thread
    <3>3. CASE Closes("call", c)
      BY <1>2, <3>3, ClosesTypes DEF VisitPeer, DisconnectPeer, ClosePeer, Typed, ConnTypes, Thread
    <3>4. CASE Goes("call", Job(c, "Closing", "disconnect")) /\ socket' = socket
      <4>1. Job(c, "Closing", "disconnect") \in Jobs
        BY JobsAre DEF State, Step
      <4> QED
        BY <1>2, <3>4, <4>1, GoesTypes
           DEF VisitPeer, DisconnectPeer, ClosePeer, Typed, ConnTypes, Thread
    <3> QED
      BY <1>2, <3>1, <3>2, <3>3, <3>4 DEF VisitPeer, DisconnectPeer, ClosePeer, State
  <2> QED
    BY <2>1, <2>2 DEF Typed
<1> QED
  BY <1>1, <1>2

\* Every step keeps the types.
LEMMA TypesStep == TypeOK /\ [Next]_vars => TypeOK'
<1> SUFFICES ASSUME Typed, [Next]_vars PROVE Typed'
  BY TypeParts
<1>1. CASE UNCHANGED vars
  BY <1>1 DEF Typed, vars, ListenTypes, CountTypes, ConnTypes, JobTypes, PeerTypes, PlaceTypes,
              CallTypes
<1>2. "io" \in Thread /\ "call" \in Thread
  BY DEF Thread
<1> QED
  BY <1>1, <1>2, AcceptTypes, HandlerTypes, SetStateTypes, CallTypesStep DEF Next, Handler, CallStep

\* TypeOK: the connections, their Peers and the calls keep to the stages that
\* DiameterServer.cpp takes them through, and only a Peer that was made is in
\* peers_.
THEOREM ServerPeersTypeCorrect == Spec => []TypeOK
  BY InitTypes, TypesStep, PTL DEF Spec

(***************************************************************************)
(* The steps that concern one Peer.                                        *)
(***************************************************************************)
\* What a thread that is at x is about.
About(x, c) ==
  \/ x = Idle
  \/ \E s \in State, p \in Step : x = Job(c, s, p)
  \/ \E s, q \in State : x = Setting(c, s, q)

\* It is about no other connection.
LEMMA AboutOne ==
  ASSUME NEW x, NEW c \in Conn, About(x, c)
  PROVE  \A d \in Conn : d # c =>
           /\ \A s, q \in State : x # Setting(d, s, q)
           /\ \A s \in State, p \in Step : x # Job(d, s, p)
  BY JobsDiffer DEF About

\* A step of a thread at the Peer of c, or at nothing, is none at another's.
LEMMA OthersSameJobs ==
  ASSUME TypeOK, NEW t \in Thread, NEW x, NEW c \in Conn, Goes(t, x), About(x, c), About(job[t], c)
  PROVE  \A d \in Conn : d # c => SameJobs(d)
<1> SUFFICES ASSUME NEW d \in Conn, d # c PROVE SameJobs(d)
  OBVIOUS
<1>1. job'[t] = x /\ \A u \in Thread : u # t => job'[u] = job[u]
  BY GoesFacts
<1>2. /\ \A s, q \in State : x # Setting(d, s, q) /\ job[t] # Setting(d, s, q)
      /\ \A s \in State, p \in Step : x # Job(d, s, p) /\ job[t] # Job(d, s, p)
  BY AboutOne
<1> QED
  BY <1>1, <1>2 DEF SameJobs, Sets, IsAt

\* No thread moves.
LEMMA SameSets ==
  ASSUME job' = job PROVE \A d \in Conn : SameJobs(d)
  BY DEF SameJobs, Sets, IsAt

\* Nothing is taken from a list, or put on one, but c, and then the others are
\* where they were.
Alone(c) ==
  /\ call' = call
  /\ \A d \in Conn : d # c =>
       /\ stage'[d] = stage[d] /\ socket'[d] = socket[d] /\ state'[d] = state[d]
       /\ closedEvents'[d] = closedEvents[d] /\ (d \in torn' <=> d \in torn)
       /\ (d \in peers' <=> d \in peers) /\ (d \in todo' <=> d \in todo)

\* Then the step is nothing to the others.
LEMMA OthersCalm ==
  ASSUME NEW c \in Conn, Alone(c), \A d \in Conn : d # c => SameJobs(d)
  PROVE  \A d \in Conn : d # c => Calm(d)
<1>1. "call" \in Thread /\ "Closed" \in State /\ "close" \in Step
  BY DEF Thread, State, Step
<1>2. \A d \in Conn : d # c => (Taken(d) <=> Taken(d)')
  BY <1>1 DEF Alone, SameJobs, Taken
<1> QED
  BY <1>2 DEF Alone, Calm

\* The invariant of a step that concerns c, from that of c.
LEMMA OneStep ==
  ASSUME IInv, NEW c \in Conn, Alone(c), \A d \in Conn : d # c => SameJobs(d), PeerInv(c)'
  PROVE  \A d \in Conn : PeerInv(d)'
  BY OthersCalm, CalmStep DEF IInv

\* The test of setState is passed by a thread, ...
LEMMA SeenTest ==
  ASSUME TypeOK, NEW c \in Conn, SeenInv(c), NEW t \in Thread, NEW s \in State,
         Goes(t, Setting(c, s, state[c])), stage'[c] \in Made,
         s = "WaitCER" => t = "io" /\ state[c] = "Closed",
         s = "Open" => t = "io" /\ state[c] = "WaitCER",
         s = "Closing" => t = "call" /\ state[c] = "Open",
         s = "Closed" => state[c] # "Closed"
  PROVE  SeenInv(c)'
<1>1. state[c] \in State
  BY DEF TypeOK
<1>2. ASSUME NEW u \in Thread, NEW r \in State, NEW q \in State, job'[u] = Setting(c, r, q)
      PROVE  /\ stage'[c] \in Made
             /\ r = "WaitCER" => u = "io" /\ q = "Closed"
             /\ r = "Open" => u = "io" /\ q = "WaitCER"
             /\ r = "Closing" => u = "call" /\ q = "Open"
             /\ r = "Closed" => q # "Closed"
  <2>1. CASE u = t
    <3>1. Setting(c, r, q) = Setting(c, s, state[c])
      BY <1>2, <2>1, GoesFacts
    <3>2. r = s /\ q = state[c]
      BY <3>1, JobsDiffer
    <3> QED
      BY <2>1, <3>2
  <2>2. CASE u # t
    <3>1. job[u] = Setting(c, r, q)
      BY <1>2, <2>2, GoesFacts
    <3> QED
      BY <3>1 DEF SeenInv
  <2> QED
    BY <2>1, <2>2
<1> QED
  BY <1>2 DEF SeenInv

\* ... or a thread goes to or from a step that is none of setState.
LEMMA SeenGoes ==
  ASSUME TypeOK, NEW c \in Conn, SeenInv(c), NEW t \in Thread, NEW x, Goes(t, x),
         x = Idle \/ \E s \in State, p \in Step : x = Job(c, s, p),
         stage[c] \in Made => stage'[c] \in Made,
         x # Idle => stage'[c] \in Made
  PROVE  SeenInv(c)'
<1>1. ASSUME NEW u \in Thread, NEW r \in State, NEW q \in State, job'[u] = Setting(c, r, q)
      PROVE  job[u] = Setting(c, r, q)
  BY <1>1, GoesFacts, JobsDiffer
<1>2. ASSUME NEW u \in Thread, NEW r \in State, NEW p \in Step, IsAt(u, c, r, p)'
      PROVE  stage'[c] \in Made
  <2>1. CASE u = t
    BY <1>2, <2>1, GoesFacts, JobsDiffer DEF IsAt
  <2>2. CASE u # t
    BY <1>2, <2>2, GoesFacts DEF SeenInv
  <2> QED
    BY <2>1, <2>2
<1> QED
  BY <1>1, <1>2 DEF SeenInv

\* ... or no thread moves.
LEMMA SeenSame ==
  ASSUME NEW c \in Conn, SeenInv(c), SameJobs(c), stage[c] \in Made => stage'[c] \in Made
  PROVE  SeenInv(c)'
  BY DEF SeenInv, SameJobs

\* The names of the threads, the states and the steps.
LEMMA Names ==
  /\ \A t : t \in Thread <=> t = "io" \/ t = "call"
  /\ \A s : s \in State <=> s = "WaitCER" \/ s = "Open" \/ s = "Closing" \/ s = "Closed"
  /\ \A p : p \in Step <=> p = "disconnect" \/ p = "close" \/ p = "callback"
  BY DEF Thread, State, Step

\* Thread t goes from one step at c to another, which view describes.
Moves(t, c) ==
  /\ \A d \in Conn : d # c => SameJobs(d)
  /\ \A u \in Thread : u # t => \A s \in State :
       (Sets(u, c, s)' <=> Sets(u, c, s)) /\ \A p \in Step : IsAt(u, c, s, p)' <=> IsAt(u, c, s, p)

\* It does so if it stays with c.
LEMMA MovesTo ==
  ASSUME TypeOK, NEW t \in Thread, NEW x, NEW c \in Conn, Goes(t, x), About(x, c), About(job[t], c)
  PROVE  Moves(t, c)
  BY OthersSameJobs, GoesFacts DEF Moves

\* Where a thread is after a step to nothing, ...
LEMMA ToIdle ==
  ASSUME TypeOK, NEW t \in Thread, NEW c \in Conn, Goes(t, Idle), About(job[t], c)
  PROVE  /\ Moves(t, c)
         /\ \A s \in State : ~Sets(t, c, s)' /\ \A p \in Step : ~IsAt(t, c, s, p)'
  BY MovesTo, GoesIdle DEF About

\* ... to a step on the way to setState, ...
LEMMA ToStep ==
  ASSUME TypeOK, NEW t \in Thread, NEW c \in Conn, NEW s \in State, NEW p \in Step,
         Goes(t, Job(c, s, p)), About(job[t], c)
  PROVE  /\ Moves(t, c)
         /\ \A r \in State :
              ~Sets(t, c, r)' /\ \A o \in Step : (IsAt(t, c, r, o)' <=> r = s /\ o = p)
<1>1. About(Job(c, s, p), c)
  BY DEF About
<1> QED
  BY <1>1, MovesTo, GoesAt

\* ... and after the test of setState, passed or not.
LEMMA ToTest ==
  ASSUME TypeOK, NEW t \in Thread, NEW c \in Conn, NEW s \in State, Test(t, c, s), About(job[t], c)
  PROVE  /\ Moves(t, c)
         /\ \A r \in State :
              /\ Sets(t, c, r)' <=> r = s /\ state[c] # s
              /\ \A o \in Step : ~IsAt(t, c, r, o)'
<1>1. CASE state[c] = s
  BY <1>1, ToIdle DEF Test
<1>2. CASE state[c] # s
  <2>1. Goes(t, Setting(c, s, state[c])) /\ state[c] \in State
    BY <1>2 DEF Test, TypeOK
  <2>2. About(Setting(c, s, state[c]), c)
    BY <2>1 DEF About
  <2>3. Moves(t, c)
    BY <2>1, <2>2, MovesTo
  <2> QED
    BY <1>2, <2>1, <2>3, GoesSetting
<1> QED
  BY <1>1, <1>2

\* What setState's test leaves of SeenInv.
LEMMA SeenTested ==
  ASSUME TypeOK, NEW c \in Conn, SeenInv(c), NEW t \in Thread, NEW s \in State, Test(t, c, s),
         stage'[c] \in Made,
         s = "WaitCER" => t = "io" /\ state[c] = "Closed",
         s = "Open" => t = "io" /\ state[c] = "WaitCER",
         s = "Closing" => t = "call" /\ state[c] = "Open"
  PROVE  SeenInv(c)'
<1>1. CASE state[c] = s
  BY <1>1, SeenGoes DEF Test
<1>2. CASE state[c] # s
  BY <1>2, SeenTest DEF Test
<1> QED
  BY <1>1, <1>2

\* A thread that is at nothing, or at c.
LEMMA AboutNow ==
  ASSUME NEW t \in Thread, NEW c \in Conn,
         \/ job[t] = Idle
         \/ \E s \in State, p \in Step : IsAt(t, c, s, p)
         \/ \E s \in State : Sets(t, c, s)
  PROVE  About(job[t], c)
  BY DEF About, IsAt, Sets

(***************************************************************************)
(* The handlers of the io thread.                                          *)
(***************************************************************************)
\* A Peer is made, tracked, and started.
LEMMA TrackStep == ASSUME IInv, NEW c \in Conn, Track(c) PROVE \A d \in Conn : PeerInv(d)'
<1>1. TypeOK /\ PeerInv(c)
  BY DEF IInv
<1>2. /\ job["io"] = Idle /\ Test("io", c, "WaitCER") /\ stage[c] \in {"accepted", "secured"}
      /\ stage'[c] = "starting" /\ c \in peers'
      /\ UNCHANGED <<socket, state, torn, closedEvents, call, todo>>
  BY <1>1 DEF Track, IoFree, Move, TypeOK, callVars
<1>3. stage[c] \notin Made /\ stage'[c] \in Made /\ stage'[c] \notin Running
  BY <1>2 DEF Made, Running
<1>4. /\ state[c] = "Closed" /\ closedEvents[c] = 0 /\ c \notin torn /\ c \notin peers /\ c \notin todo
      /\ \A t \in Thread, s \in State : ~Sets(t, c, s) /\ \A p \in Step : ~IsAt(t, c, s, p)
  BY <1>1, <1>3 DEF PeerInv, StageInv, SeenInv, Sets
<1>5. /\ Moves("io", c) /\ Sets("io", c, "WaitCER")'
      /\ \A r \in State : /\ Sets("io", c, r)' <=> r = "WaitCER"
                          /\ \A o \in Step : ~IsAt("io", c, r, o)'
  BY <1>1, <1>2, <1>4, Names, ToTest, AboutNow
<1>6. \A s \in State : ~Sets("call", c, s)' /\ \A p \in Step : ~IsAt("call", c, s, p)'
  BY <1>4, <1>5, Names DEF Moves
<1>7. SeenInv(c)'
  BY <1>1, <1>2, <1>3, <1>4, Names, SeenTested DEF PeerInv
<1>8. JobInv(c)'
  BY <1>2, <1>4, <1>5, <1>6, Names DEF JobInv, Telling
<1>9. ~Begun(c)' /\ ~Ended(c)' /\ Told(c)' = 0
  BY <1>2, <1>4, <1>5, <1>6, Names DEF Begun, Ended, Told, Telling
<1>10. StageInv(c)' /\ EndInv(c)' /\ TrackInv(c)'
  BY <1>2, <1>3, <1>4, <1>9 DEF StageInv, EndInv, TrackInv
<1>11. Alone(c)
  BY <1>1, <1>2 DEF Alone, Track, Move, TypeOK
<1> QED
  BY <1>5, <1>7, <1>8, <1>10, <1>11, OneStep DEF PeerInv, Moves

\* start() ends, or the CER is read: the Peer goes on, and no thread moves.
LEMMA GoesOnStep ==
  ASSUME IInv, NEW c \in Conn, StartReading(c) \/ ReadCER(c)
  PROVE  \A d \in Conn : PeerInv(d)'
<1>1. TypeOK /\ PeerInv(c)
  BY DEF IInv
<1>2. UNCHANGED <<socket, state, torn, closedEvents, job, peers, call, todo>>
  BY DEF StartReading, ReadCER, callVars, peerVars
<1>3. \/ stage[c] = "starting" /\ stage'[c] = "started" /\ job["io"] = Idle
      \/ stage[c] = "started" /\ stage'[c] = "heard" /\ socket[c] = "open"
  BY <1>1 DEF StartReading, ReadCER, Move, TypeOK
<1>4. stage[c] \in Made /\ stage'[c] \in Running /\ stage'[c] \in Made
  BY <1>3 DEF Made, Running
<1>5. /\ \A d \in Conn : SameJobs(d)
      /\ \A t \in Thread, s \in State :
           (Sets(t, c, s)' <=> Sets(t, c, s)) /\ \A p \in Step : IsAt(t, c, s, p)' <=> IsAt(t, c, s, p)
  BY <1>2, SameSets DEF SameJobs
<1>6. /\ ~Sets("io", c, "WaitCER") /\ ~Sets("io", c, "Open") /\ ~Sets("call", c, "Closing")
      /\ state[c] \notin {"Open", "Closing"}
  BY <1>1, <1>3, Names, WhenIdle DEF PeerInv, JobInv, StageInv
<1>7. SeenInv(c)'
  BY <1>1, <1>4, <1>5, SeenSame DEF PeerInv
<1>8. JobInv(c)'
  BY <1>1, <1>2, <1>4, <1>5, <1>6, Names DEF PeerInv, JobInv, Telling
<1>9. (Begun(c)' <=> Begun(c)) /\ (Ended(c)' <=> Ended(c)) /\ Told(c)' = Told(c)
      /\ \A t \in Thread : Telling(t, c)' <=> Telling(t, c)
  BY <1>2, <1>4, <1>5, <1>6, Names DEF Begun, Ended, Told, Telling
<1>10. StageInv(c)' /\ EndInv(c)'
  BY <1>1, <1>2, <1>4, <1>6, <1>9, Names DEF PeerInv, StageInv, EndInv
<1>11. Taken(c)' <=> Taken(c)
  BY <1>2, <1>5, Names DEF Taken
<1>12. TrackInv(c)'
  BY <1>1, <1>2, <1>3, <1>11 DEF PeerInv, TrackInv
<1>13. Alone(c)
  BY <1>1, <1>2 DEF Alone, StartReading, ReadCER, Move, TypeOK
<1> QED
  BY <1>5, <1>7, <1>8, <1>10, <1>12, <1>13, OneStep DEF PeerInv

\* The io thread takes up a Peer: for its CER, for an error, or to close it.
LEMMA TakesUpStep ==
  ASSUME IInv, NEW c \in Conn, HandleCER(c) \/ ReadFails(c) \/ WriteFails(c) \/ PeerCloses(c)
  PROVE  \A d \in Conn : PeerInv(d)'
<1>1. TypeOK /\ PeerInv(c)
  BY DEF IInv
<1>2. /\ UNCHANGED <<state, torn, closedEvents, peers, call, todo>>
      /\ job["io"] = Idle
  BY DEF HandleCER, ReadFails, WriteFails, PeerCloses, IoFree, callVars
<1>3. /\ stage[c] \in Running /\ stage'[c] \in Running
      /\ stage[c] \in {"met", "deaf"} => stage'[c] \in {"met", "deaf"}
      /\ stage'[c] = "heard" => stage[c] = "heard"
      /\ stage'[c] = "met" => stage[c] \in {"met", "heard"}
      /\ socket'[c] # "closed" => socket'[c] = socket[c]
      /\ socket[c] = "closed" => socket'[c] = "closed"
  BY <1>1 DEF HandleCER, ReadFails, WriteFails, PeerCloses, Closes, Move, TypeOK, Running
<1>4. stage[c] \in Made /\ stage'[c] \in Made /\ stage[c] # "starting" /\ stage'[c] # "starting"
  BY <1>3 DEF Made, Running
<1>5. \A s \in State : ~Sets("io", c, s) /\ \A p \in Step : ~IsAt("io", c, s, p)
  BY <1>2, Names, WhenIdle
<1>6. /\ Moves("io", c)
      /\ \A s \in State : /\ Sets("io", c, s)' =>
                               \/ s = "Closed"
                               \/ s = "Open" /\ HandleCER(c) /\ state[c] = "WaitCER"
                          /\ \A p \in Step : IsAt("io", c, s, p)' => s = "Closed" /\ p = "close"
  <2>1. CASE HandleCER(c) /\ state[c] = "WaitCER"
    BY <1>1, <1>2, <2>1, Names, ToTest, AboutNow DEF HandleCER
  <2>2. CASE HandleCER(c) /\ state[c] # "WaitCER"
    <3>1. job' = job
      BY <2>2 DEF HandleCER
    <3> QED
      BY <1>5, <3>1, SameSets, Names DEF Moves, Sets, IsAt
  <2>3. CASE ReadFails(c) \/ WriteFails(c)
    BY <1>1, <1>2, <2>3, Names, ToTest, AboutNow DEF ReadFails, WriteFails
  <2>4. CASE PeerCloses(c)
    BY <1>1, <1>2, <2>4, Names, ToStep, AboutNow DEF PeerCloses, Closes
  <2> QED
    BY <2>1, <2>2, <2>3, <2>4
<1>7. \A s \in State : /\ Sets("call", c, s)' <=> Sets("call", c, s)
                       /\ \A p \in Step : IsAt("call", c, s, p)' <=> IsAt("call", c, s, p)
  BY <1>6, Names DEF Moves
<1>8. SeenInv(c)'
  <2>1. CASE HandleCER(c) \/ ReadFails(c) \/ WriteFails(c)
    <3>1. CASE job' = job
      BY <1>1, <1>4, <3>1, SameSets, SeenSame DEF PeerInv
    <3>2. CASE job' # job
      BY <1>1, <1>4, <2>1, <3>2, Names, SeenTested DEF PeerInv, HandleCER, ReadFails, WriteFails
    <3> QED
      BY <3>1, <3>2
  <2>2. CASE PeerCloses(c)
    BY <1>1, <1>4, <2>2, Names, SeenGoes DEF PeerInv, PeerCloses, Closes
  <2> QED
    BY <2>1, <2>2
<1>9. HandleCER(c) => stage[c] = "heard" /\ stage'[c] = "met"
  BY <1>1 DEF HandleCER, Move, TypeOK
<1>10. JobInv(c)'
  BY <1>1, <1>2, <1>3, <1>5, <1>6, <1>7, <1>9, Names DEF PeerInv, JobInv, Telling
<1>11. (Begun(c)' <=> Begun(c)) /\ (Ended(c)' <=> Ended(c)) /\ Told(c)' = Told(c)
      /\ \A t \in Thread : Telling(t, c)' <=> Telling(t, c)
  BY <1>2, <1>4, <1>5, <1>6, <1>7, Names DEF Begun, Ended, Told, Telling
<1>12. StageInv(c)' /\ EndInv(c)'
  BY <1>1, <1>2, <1>3, <1>4, <1>11, Names DEF PeerInv, StageInv, EndInv
<1>13. Taken(c)' <=> Taken(c)
  BY <1>2, <1>7, Names DEF Taken
<1>14. TrackInv(c)'
  BY <1>1, <1>2, <1>3, <1>4, <1>9, <1>13 DEF PeerInv, TrackInv, HandleCER, ReadFails, WriteFails, PeerCloses
<1>15. Alone(c)
  BY <1>1, <1>2 DEF Alone, HandleCER, ReadFails, WriteFails, PeerCloses, Closes, Move, TypeOK
<1> QED
  BY <1>6, <1>8, <1>10, <1>12, <1>14, <1>15, OneStep DEF PeerInv, Moves

(***************************************************************************)
(* Peer::setState, by either thread.                                       *)
(***************************************************************************)
\* close() comes to the test of setState.
LEMMA CloseSetsStep ==
  ASSUME IInv, NEW t \in Thread, CloseSets(t) PROVE \A d \in Conn : PeerInv(d)'
<1>1. PICK c \in Conn : IsAt(t, c, "Closed", "close") /\ Test(t, c, "Closed")
  BY DEF CloseSets
<1>2. TypeOK /\ PeerInv(c)
  BY DEF IInv
<1>3. UNCHANGED <<stage, socket, state, torn, closedEvents, peers, call, todo>>
  BY DEF CloseSets, callVars
<1>4. stage[c] \in Made
  BY <1>1, <1>2, Names DEF PeerInv, SeenInv
<1>5. /\ Moves(t, c)
      /\ \A r \in State : /\ ~Sets(t, c, r)
                          /\ Sets(t, c, r)' <=> r = "Closed" /\ state[c] # "Closed"
                          /\ \A o \in Step : /\ ~IsAt(t, c, r, o)'
                                             /\ IsAt(t, c, r, o) <=> r = "Closed" /\ o = "close"
  BY <1>1, <1>2, Names, ToTest, AboutNow, WhenAt
<1>6. SeenInv(c)'
  BY <1>1, <1>2, <1>3, <1>4, Names, SeenTested DEF PeerInv
<1>7. JobInv(c)'
  BY <1>2, <1>3, <1>5, Names DEF PeerInv, JobInv, Moves, Telling
<1>8. (Begun(c)' <=> Begun(c)) /\ (Ended(c)' <=> Ended(c)) /\ Told(c)' = Told(c)
      /\ \A u \in Thread : Telling(u, c)' <=> Telling(u, c)
  BY <1>3, <1>5, Names DEF Begun, Ended, Told, Telling, Moves
<1>9. StageInv(c)' /\ EndInv(c)'
  BY <1>2, <1>3, <1>8, Names DEF PeerInv, StageInv, EndInv
<1>10. TrackInv(c)'
  <2>1. CASE t = "call" /\ state[c] = "Closed"
    BY <1>2, <1>3, <1>5, <2>1, Names DEF PeerInv, JobInv, TrackInv
  <2>2. CASE t = "io" \/ state[c] # "Closed"
    <3>1. Taken(c)' <=> Taken(c)
      BY <1>3, <1>5, <2>2, Names DEF Taken, Moves
    <3> QED
      BY <1>2, <1>3, <3>1 DEF PeerInv, TrackInv
  <2> QED
    BY <2>1, <2>2, Names
<1>11. Alone(c)
  BY <1>3 DEF Alone
<1> QED
  BY <1>5, <1>6, <1>7, <1>9, <1>10, <1>11, OneStep DEF PeerInv, Moves

\* What setState assigns, whatever happened since its test.
LEMMA AssignStep ==
  ASSUME IInv, NEW t \in Thread, NEW c \in Conn, NEW s \in State, Assign(t, c, s), SetState(t)
  PROVE  \A d \in Conn : PeerInv(d)'
<1>1. PICK q \in State :
        /\ job[t] = Setting(c, s, q)
        /\ state' = [state EXCEPT ![c] = s]
        /\ torn' = IF state[c] = "Closed" /\ q # "Closed" THEN torn \cup {c} ELSE torn
        /\ Goes(t, Job(c, s, "callback"))
        /\ UNCHANGED <<peers, closedEvents>>
  BY DEF Assign
<1>2. TypeOK /\ PeerInv(c)
  BY DEF IInv
<1>3. UNCHANGED <<stage, socket, closedEvents, peers, call, todo>>
  BY <1>1 DEF SetState, callVars
<1>4. state'[c] = s /\ (c \in torn' <=> c \in torn \/ (state[c] = "Closed" /\ q # "Closed"))
  BY <1>1, <1>2 DEF TypeOK
<1>5. /\ stage[c] \in Made
      /\ s = "WaitCER" => t = "io" /\ q = "Closed"
      /\ s = "Open" => t = "io" /\ q = "WaitCER"
      /\ s = "Closing" => t = "call" /\ q = "Open"
      /\ s = "Closed" => q # "Closed"
  BY <1>1, <1>2 DEF PeerInv, SeenInv
<1>6. Sets(t, c, s)
  BY <1>1 DEF Sets
<1>7. /\ Moves(t, c)
      /\ \A r \in State : /\ ~Sets(t, c, r)'
                          /\ Sets(t, c, r) <=> r = s
                          /\ \A o \in Step : /\ ~IsAt(t, c, r, o)
                                             /\ IsAt(t, c, r, o)' <=> r = s /\ o = "callback"
  BY <1>1, <1>2, <1>6, Names, ToStep, AboutNow, WhenSetting
<1>8. SeenInv(c)'
  BY <1>1, <1>2, <1>3, <1>5, Names, SeenGoes DEF PeerInv
<1>9. closedEvents[c] \in Nat
  BY <1>2 DEF TypeOK
<1>10. JobInv(c)' /\ StageInv(c)' /\ EndInv(c)' /\ TrackInv(c)'
  <2>1. CASE s = "WaitCER"
    <3>1. /\ t = "io" /\ stage[c] = "starting" /\ state[c] = "Closed" /\ c \notin torn /\ c \notin torn'
          /\ \A r \in State : ~Sets("call", c, r)
      BY <1>2, <1>4, <1>5, <1>6, <1>7, <2>1, Names DEF PeerInv, JobInv, StageInv, Begun
    <3>2. Told(c) = 0 /\ ~Telling("call", c) /\ ~Telling("io", c)
      BY <1>2, <1>7, <1>9, <2>1, <3>1, Names DEF PeerInv, EndInv, Ended, Begun, Told, Telling
    <3>3. Told(c)' = 0 /\ Begun(c)' /\ ~Ended(c)' /\ ~Telling("call", c)' /\ ~Telling("io", c)'
      BY <1>3, <1>4, <1>5, <1>7, <1>9, <2>1, <3>1, <3>2, Names DEF Told, Telling, Begun, Ended, Moves
    <3>4. JobInv(c)'
      BY <1>2, <1>3, <1>7, <3>1, <3>3, Names DEF PeerInv, JobInv, Moves
    <3>5. StageInv(c)' /\ EndInv(c)'
      BY <1>2, <1>3, <1>4, <1>5, <2>1, <3>1, <3>3 DEF PeerInv, StageInv, EndInv
    <3>6. Taken(c)' <=> Taken(c)
      BY <1>3, <1>7, <3>1, Names DEF Taken, Moves
    <3> QED
      BY <1>2, <1>3, <1>4, <2>1, <3>1, <3>4, <3>5, <3>6 DEF PeerInv, TrackInv
  <2>2. CASE s = "Open"
    <3>1. /\ t = "io" /\ stage[c] = "met" /\ ~Sets("call", c, "Closing")
          /\ \/ state[c] = "WaitCER" /\ c \notin torn /\ c \notin torn'
             \/ state[c] = "Closed" /\ socket[c] = "closed" /\ c \in torn'
      BY <1>2, <1>4, <1>5, <1>6, <2>2, Names DEF PeerInv, JobInv, StageInv
    <3>2. /\ \A u \in Thread : Telling(u, c)' <=> Telling(u, c)
          /\ Told(c)' = Told(c) /\ Begun(c) /\ Begun(c)' /\ ~Ended(c)'
      BY <1>3, <1>4, <1>5, <1>7, <2>2, <3>1, Names DEF Told, Telling, Begun, Ended, Moves
    <3>3. JobInv(c)'
      BY <1>2, <1>3, <1>7, <3>1, <3>2, Names DEF PeerInv, JobInv, Moves
    <3>4. StageInv(c)'
      BY <1>2, <1>3, <1>4, <1>5, <2>2, <3>1, <3>2 DEF PeerInv, StageInv
    <3>5. EndInv(c)'
      BY <1>2, <1>3, <1>4, <1>9, <2>2, <3>1, <3>2 DEF PeerInv, EndInv, Ended
    <3>6. Taken(c)' <=> Taken(c)
      BY <1>3, <1>7, <3>1, Names DEF Taken, Moves
    <3> QED
      BY <1>2, <1>3, <1>4, <2>2, <3>1, <3>3, <3>4, <3>5, <3>6 DEF PeerInv, TrackInv
  <2>3. CASE s = "Closing"
    <3>1. /\ t = "call" /\ stage[c] \in {"met", "deaf"} /\ ~Sets("io", c, "Open")
          /\ ~Sets("io", c, "WaitCER") /\ state[c] # "WaitCER" /\ q = "Open"
      BY <1>2, <1>5, <1>6, <2>3, Names DEF PeerInv, JobInv
    <3>2. /\ \A u \in Thread : Telling(u, c)' <=> Telling(u, c)
          /\ Told(c)' = Told(c) /\ Begun(c) /\ Begun(c)' /\ ~Ended(c)'
      BY <1>3, <1>4, <1>5, <1>7, <2>3, <3>1, Names DEF Told, Telling, Begun, Ended, Moves
    <3>3. JobInv(c)'
      BY <1>2, <1>3, <1>7, <3>1, <3>2, Names DEF PeerInv, JobInv, Moves
    <3>4. StageInv(c)'
      BY <1>2, <1>3, <1>4, <1>5, <2>3, <3>1, <3>2 DEF PeerInv, StageInv
    <3>5. EndInv(c)'
      BY <1>2, <1>3, <1>4, <1>9, <2>3, <3>1, <3>2 DEF PeerInv, EndInv, Ended
    <3>6. Taken(c)' <=> Taken(c)
      BY <1>3, <1>7, <2>3, <3>1, Names DEF Taken
    <3>7. state[c] = "Closed" => c \in torn'
      BY <1>4, <3>1
    <3>8. state[c] \in {"Open", "Closing", "Closed"}
      BY <1>2, <3>1, Names DEF TypeOK
    <3> QED
      BY <1>2, <1>3, <1>4, <2>3, <3>1, <3>3, <3>4, <3>5, <3>6, <3>7, <3>8 DEF PeerInv, TrackInv
  <2>4. CASE s = "Closed"
    <3>1. /\ ~Sets("io", c, "WaitCER") /\ q # "Closed"
          /\ t = "call" => socket[c] = "closed"
          /\ t = "io" => stage[c] \in Running /\ stage[c] # "starting"
      BY <1>2, <1>5, <1>6, <1>7, <2>4, Names DEF PeerInv, JobInv, Running
    <3>2. /\ \A u \in Thread : Telling(u, c)' <=> u = t \/ Telling(u, c)
          /\ ~Telling(t, c) /\ Begun(c) /\ Begun(c)' /\ Ended(c)'
          /\ Ended(c) <=> state[c] = "Closed"
      BY <1>3, <1>4, <1>5, <1>7, <2>4, <3>1, Names DEF Telling, Begun, Ended, Moves
    <3>3. Told(c)' = Told(c) + 1 /\ Told(c) \in Nat
      BY <1>3, <1>9, <3>2, Names DEF Told
    <3>4. JobInv(c)'
      BY <1>2, <1>3, <1>4, <1>7, <2>4, <3>1, <3>2, Names DEF PeerInv, JobInv, Moves
    <3>5. StageInv(c)'
      BY <1>2, <1>3, <1>4, <1>5, <2>4, <3>2 DEF PeerInv, StageInv
    <3>6. EndInv(c)'
      BY <1>2, <1>3, <1>4, <3>1, <3>2, <3>3, Names DEF PeerInv, EndInv
    <3> QED
      BY <1>2, <1>3, <1>4, <2>4, <3>1, <3>4, <3>5, <3>6, Names DEF PeerInv, TrackInv
  <2> QED
    BY <2>1, <2>2, <2>3, <2>4, Names
<1>11. Alone(c)
  BY <1>1, <1>2, <1>3 DEF Alone, TypeOK
<1> QED
  BY <1>7, <1>8, <1>10, <1>11, OneStep DEF PeerInv, Moves

\* The callback: onPeerStateChange.
LEMMA CallbackStep ==
  ASSUME IInv, NEW t \in Thread, NEW c \in Conn, NEW s \in State, Callback(t, c, s), SetState(t)
  PROVE  \A d \in Conn : PeerInv(d)'
<1>1. IsAt(t, c, s, "callback") /\ OnPeerStateChange(c, s) /\ Goes(t, Idle)
  BY DEF Callback
<1>2. TypeOK /\ PeerInv(c)
  BY DEF IInv
<1>3. UNCHANGED <<stage, socket, state, torn, call, todo>>
  BY DEF Callback, SetState, callVars
<1>4. /\ closedEvents'[c] = IF s = "Closed" THEN closedEvents[c] + 1 ELSE closedEvents[c]
      /\ c \in peers' <=> c \in peers /\ s # "Closed"
      /\ closedEvents[c] \in Nat
  BY <1>1, <1>2 DEF OnPeerStateChange, TypeOK
<1>5. /\ Moves(t, c)
      /\ \A r \in State : /\ ~Sets(t, c, r)' /\ ~Sets(t, c, r)
                          /\ \A o \in Step : /\ ~IsAt(t, c, r, o)'
                                             /\ IsAt(t, c, r, o) <=> r = s /\ o = "callback"
  BY <1>1, <1>2, Names, ToIdle, AboutNow, WhenAt
<1>6. stage[c] \in Made
  BY <1>1, <1>2, Names DEF PeerInv, SeenInv
<1>7. SeenInv(c)'
  BY <1>1, <1>2, <1>3, SeenGoes DEF PeerInv
<1>8. JobInv(c)'
  BY <1>2, <1>3, <1>5, Names DEF PeerInv, JobInv, Moves, Telling
<1>9. /\ (Begun(c)' <=> Begun(c)) /\ (Ended(c)' <=> Ended(c))
      /\ \A u \in Thread : Telling(u, c)' <=> Telling(u, c) /\ u # t
      /\ Telling(t, c) <=> s = "Closed"
  BY <1>3, <1>5, Names DEF Begun, Ended, Telling, Moves
<1>10. Told(c)' = Told(c) /\ (s = "Closed" => Told(c) > 0)
  BY <1>4, <1>9, Names DEF Told
<1>11. StageInv(c)' /\ EndInv(c)'
  BY <1>2, <1>3, <1>4, <1>6, <1>9, <1>10, Names DEF PeerInv, StageInv, EndInv
<1>12. Taken(c)' <=> Taken(c)
  BY <1>3, <1>5, Names DEF Taken, Moves
<1>13. TrackInv(c)'
  <2>1. CASE s # "Closed"
    BY <1>2, <1>3, <1>4, <1>12, <2>1 DEF PeerInv, TrackInv
  <2>2. CASE s = "Closed"
    <3>1. c \notin torn => state[c] = "Closed"
      BY <1>2, <1>10, <2>2 DEF PeerInv, EndInv, Ended
    <3>2. c \in torn => state[c] # "WaitCER"
      BY <1>2 DEF PeerInv, StageInv
    <3>3. socket[c] = "closed" \/ stage[c] # "starting"
      BY <1>2, <1>9, <2>2, Names DEF PeerInv, JobInv, Running
    <3>4. socket[c] # "open" \/ stage[c] # "starting"
      BY <3>3
    <3> QED
      BY <1>2, <1>3, <3>1, <3>2, <3>4 DEF PeerInv, TrackInv
  <2> QED
    BY <2>1, <2>2
<1>14. Alone(c)
  BY <1>1, <1>2, <1>3 DEF Alone, OnPeerStateChange, TypeOK
<1> QED
  BY <1>5, <1>7, <1>8, <1>11, <1>13, <1>14, OneStep DEF PeerInv, Moves

(***************************************************************************)
(* The calls, and the accept loop.                                         *)
(***************************************************************************)
\* shutdown comes to a Peer, and disconnect ends it or closes it.
LEMMA DisconnectStep ==
  ASSUME IInv, NEW c \in Conn, VisitPeer(c) \/ DisconnectPeer(c)
  PROVE  \A d \in Conn : PeerInv(d)'
<1>1. TypeOK /\ PeerInv(c)
  BY DEF IInv
<1>2. /\ UNCHANGED <<stage, state, torn, closedEvents, peers, call>>
      /\ c \in todo' => c \in todo
      /\ socket'[c] = socket[c] \/ socket'[c] = "closed"
  BY <1>1 DEF VisitPeer, DisconnectPeer, Closes, callVars, TypeOK
<1>3. stage[c] \in Made
  BY <1>1, Names DEF VisitPeer, DisconnectPeer, PeerInv, StageInv, SeenInv
<1>4. /\ \A s \in State : /\ ~Sets("call", c, s)
                         /\ ~IsAt("call", c, s, "close") /\ ~IsAt("call", c, s, "callback")
      /\ About(job["call"], c)
  BY Names, WhenIdle, WhenAt, AboutNow DEF VisitPeer, DisconnectPeer
<1>5. /\ Moves("call", c)
      /\ \A s \in State : /\ Sets("call", c, s)' => s = "Closing" /\ state[c] = "Open"
                          /\ IsAt("call", c, s, "close")' => socket'[c] = "closed"
                          /\ ~IsAt("call", c, s, "callback")'
  <2>1. CASE job' = job
    BY <1>4, <2>1, SameSets, Names DEF Moves, SameJobs
  <2>2. CASE Goes("call", Job(c, "Closing", "disconnect"))
    BY <1>1, <1>4, <2>2, Names, ToStep
  <2>3. CASE state[c] = "Open" /\ Test("call", c, "Closing")
    BY <1>1, <1>4, <2>3, Names, ToTest
  <2>4. CASE Closes("call", c)
    <3>1. socket'[c] = "closed"
      BY <1>1, <2>4 DEF Closes, TypeOK
    <3> QED
      BY <1>1, <1>4, <2>4, <3>1, Names, ToStep DEF Closes
  <2> QED
    BY <2>1, <2>2, <2>3, <2>4 DEF VisitPeer, DisconnectPeer
<1>6. SeenInv(c)'
  <2>1. CASE job' = job
    BY <1>1, <1>2, <2>1, SameSets, SeenSame DEF PeerInv
  <2>2. CASE Goes("call", Job(c, "Closing", "disconnect")) \/ Closes("call", c)
    BY <1>1, <1>2, <1>3, <2>2, Names, SeenGoes DEF PeerInv, Closes
  <2>3. CASE state[c] = "Open" /\ Test("call", c, "Closing")
    BY <1>1, <1>2, <1>3, <2>3, Names, SeenTested DEF PeerInv
  <2> QED
    BY <2>1, <2>2, <2>3 DEF VisitPeer, DisconnectPeer
<1>7. JobInv(c)'
  BY <1>1, <1>2, <1>4, <1>5, Names DEF PeerInv, JobInv, StageInv, Moves, Telling
<1>8. (Begun(c)' <=> Begun(c)) /\ (Ended(c)' <=> Ended(c)) /\ Told(c)' = Told(c)
      /\ \A u \in Thread : Telling(u, c)' <=> Telling(u, c)
  BY <1>2, <1>4, <1>5, Names DEF Begun, Ended, Told, Telling, Moves
<1>9. StageInv(c)' /\ EndInv(c)'
  BY <1>1, <1>2, <1>8, Names DEF PeerInv, StageInv, EndInv
<1>10. Taken(c) => Taken(c)'
  BY <1>2, <1>4, Names DEF VisitPeer, DisconnectPeer, Taken, callVars
<1>11. TrackInv(c)'
  BY <1>1, <1>2, <1>10 DEF PeerInv, TrackInv
<1>12. Alone(c)
  BY <1>1, <1>2 DEF Alone, VisitPeer, DisconnectPeer, Closes, callVars, TypeOK
<1> QED
  BY <1>5, <1>6, <1>7, <1>9, <1>11, <1>12, OneStep DEF PeerInv, Moves

\* close() comes to a Peer, and begins to close it.
LEMMA ClosePeerStep ==
  ASSUME IInv, NEW c \in Conn, ClosePeer(c)
  PROVE  \A d \in Conn : PeerInv(d)'
<1>1. TypeOK /\ PeerInv(c)
  BY DEF IInv
<1>2. /\ UNCHANGED <<stage, state, torn, closedEvents, peers, call>>
      /\ c \in todo /\ c \notin todo' /\ call = "closing"
      /\ socket'[c] = "closed" /\ Closes("call", c) /\ job["call"] = Idle
  BY <1>1 DEF ClosePeer, Closes, TypeOK
<1>3. stage[c] \in Made
  BY <1>1, <1>2 DEF PeerInv, StageInv
<1>4. /\ Moves("call", c)
      /\ \A s \in State :
           /\ ~Sets("call", c, s) /\ ~Sets("call", c, s)'
           /\ \A p \in Step : /\ ~IsAt("call", c, s, p)
                              /\ IsAt("call", c, s, p)' <=> s = "Closed" /\ p = "close"
  BY <1>1, <1>2, Names, ToStep, AboutNow, WhenIdle DEF Closes
<1>5. SeenInv(c)'
  BY <1>1, <1>2, <1>3, Names, SeenGoes DEF PeerInv, Closes
<1>6. JobInv(c)'
  BY <1>1, <1>2, <1>4, Names DEF PeerInv, JobInv, Moves, Telling
<1>7. (Begun(c)' <=> Begun(c)) /\ (Ended(c)' <=> Ended(c)) /\ Told(c)' = Told(c)
      /\ \A u \in Thread : Telling(u, c)' <=> Telling(u, c)
  BY <1>2, <1>4, Names DEF Begun, Ended, Told, Telling, Moves
<1>8. StageInv(c)' /\ EndInv(c)'
  BY <1>1, <1>2, <1>3, <1>7, Names DEF PeerInv, StageInv, EndInv
<1>9. TrackInv(c)'
  BY <1>2, <1>4, Names DEF TrackInv, Taken
<1>10. Alone(c)
  BY <1>1, <1>2 DEF Alone, ClosePeer, Closes, TypeOK
<1> QED
  BY <1>4, <1>5, <1>6, <1>8, <1>9, <1>10, OneStep DEF PeerInv, Moves

\* A call reads peers_, or returns.
LEMMA ReadsStep ==
  ASSUME IInv, CopyPeers \/ TakePeers \/ Return
  PROVE  \A d \in Conn : PeerInv(d)'
<1> SUFFICES ASSUME NEW d \in Conn PROVE Calm(d)
  BY CalmStep DEF IInv
<1>1. UNCHANGED <<stage, socket, state, torn, closedEvents, job>>
  BY DEF CopyPeers, TakePeers, Return, peerVars
<1>2. SameJobs(d)
  BY <1>1, SameSets
<1>3. /\ d \in peers' => d \in peers
      /\ d \in todo' => d \in todo \/ d \in peers
  BY DEF CopyPeers, TakePeers, Return, peerVars
<1>4. d \in peers \/ Taken(d) => d \in peers' \/ Taken(d)'
  <2>1. CASE CopyPeers
    BY <2>1 DEF CopyPeers, peerVars, Taken
  <2>2. CASE TakePeers
    BY <2>2 DEF TakePeers, Taken
  <2>3. CASE Return
    BY <2>3, Names, WhenIdle DEF Return, peerVars, Taken
  <2> QED
    BY <2>1, <2>2, <2>3
<1> QED
  BY <1>1, <1>2, <1>3, <1>4 DEF Calm

\* A connection that has no Peer yet, and gets none.
LEMMA EarlyStep ==
  ASSUME NEW d \in Conn, PeerInv(d), stage[d] \notin Made, stage'[d] \notin Made,
         UNCHANGED <<state, torn, closedEvents, job, peers, todo>>
  PROVE  PeerInv(d)'
<1>1. /\ state[d] = "Closed" /\ closedEvents[d] = 0 /\ d \notin torn /\ d \notin peers /\ d \notin todo
      /\ \A t \in Thread, s \in State : ~Sets(t, d, s) /\ \A p \in Step : ~IsAt(t, d, s, p)
  BY DEF PeerInv, StageInv, SeenInv, Sets
<1>2. \A t \in Thread, s \in State : ~Sets(t, d, s)' /\ \A p \in Step : ~IsAt(t, d, s, p)'
  BY <1>1 DEF Sets, IsAt
<1>3. SeenInv(d)'
  BY SameSets, SeenSame DEF PeerInv
<1>4. JobInv(d)'
  BY <1>2, Names DEF JobInv, Telling
<1>5. ~Begun(d)' /\ ~Ended(d)' /\ Told(d)' = 0
  BY <1>1, <1>2, Names DEF Begun, Ended, Told, Telling
<1>6. StageInv(d)' /\ EndInv(d)' /\ TrackInv(d)'
  BY <1>1, <1>5 DEF StageInv, EndInv, TrackInv, Made
<1> QED
  BY <1>3, <1>4, <1>6 DEF PeerInv

\* Accepting concerns no Peer, and no call is in progress when one begins.
LEMMA AcceptStep ==
  ASSUME IInv,
         \/ Listen \/ StopListening \/ Shutdown \/ Close \/ AcceptFails
         \/ \E c \in Conn : Arrives(c) \/ Accepted(c) \/ StartHandshake(c) \/ HandshakeEnds(c)
  PROVE  \A d \in Conn : PeerInv(d)'
<1> SUFFICES ASSUME NEW d \in Conn PROVE PeerInv(d)'
  OBVIOUS
<1>1. TypeOK /\ PeerInv(d)
  BY DEF IInv
<1>2. UNCHANGED <<state, torn, closedEvents, job, peers, todo>>
  BY DEF Listen, StopListening, Shutdown, Close, Begin, AcceptFails, Arrives, Accepted, StartHandshake,
         HandshakeEnds, peerVars, callVars
<1>3. \/ stage'[d] = stage[d] /\ socket'[d] = socket[d]
      \/ stage[d] \notin Made /\ stage'[d] \notin Made
  <2>1. CASE Listen \/ AcceptFails
    BY <2>1 DEF Listen, AcceptFails
  <2>2. CASE StopListening \/ Shutdown \/ Close
    <3>1. socket' = socket /\ stage'[d] = IF stage[d] = "backlog" THEN "gone" ELSE stage[d]
      BY <2>2 DEF StopListening, Shutdown, Close, Begin, Stop
    <3> QED
      BY <3>1 DEF Made, Running
  <2>3. ASSUME NEW c \in Conn, Arrives(c) \/ Accepted(c) \/ StartHandshake(c) \/ HandshakeEnds(c)
        PROVE  \/ stage'[d] = stage[d] /\ socket'[d] = socket[d]
               \/ stage[d] \notin Made /\ stage'[d] \notin Made
    BY <1>1, <2>3 DEF Arrives, Accepted, StartHandshake, HandshakeEnds, Move, TypeOK, Made, Running
  <2> QED
    BY <2>1, <2>2, <2>3
<1>4. Taken(d) => Taken(d)'
  <2>1. CASE call = "none"
    BY <2>1 DEF Taken
  <2>2. CASE call # "none"
    <3>1. call' = call
      BY <2>2 DEF Listen, StopListening, Shutdown, Close, Begin, AcceptFails, Arrives, Accepted,
                  StartHandshake, HandshakeEnds, callVars
    <3> QED
      BY <1>2, <3>1 DEF Taken, IsAt, Sets
  <2> QED
    BY <2>1, <2>2
<1>5. CASE stage'[d] = stage[d] /\ socket'[d] = socket[d]
  <2>1. SameJobs(d)
    BY <1>2, SameSets
  <2>2. Calm(d)
    BY <1>2, <1>4, <1>5, <2>1 DEF Calm
  <2> QED
    BY <1>1, <2>2, CalmStep
<1>6. CASE stage[d] \notin Made /\ stage'[d] \notin Made
  BY <1>1, <1>2, <1>6, EarlyStep
<1> QED
  BY <1>3, <1>5, <1>6

(***************************************************************************)
(* The invariant.                                                          *)
(***************************************************************************)
\* Every step keeps it.
LEMMA InvStep == IInv /\ [Next]_vars => IInv'
<1> SUFFICES ASSUME IInv, [Next]_vars PROVE IInv'
  OBVIOUS
<1>0. TypeOK'
  BY TypesStep DEF IInv
<1>1. ASSUME UNCHANGED vars, NEW d \in Conn PROVE PeerInv(d)'
  <2>1. SameJobs(d)
    BY <1>1, SameSets DEF vars
  <2>2. Calm(d)
    BY <1>1, <2>1 DEF vars, Calm, Taken, IsAt, Sets
  <2> QED
    BY <2>2, CalmStep DEF IInv
<1>2. ASSUME NEW t \in Thread, SetState(t), NEW d \in Conn PROVE PeerInv(d)'
  <2>1. PICK c \in Conn, s \in State : Assign(t, c, s) \/ Callback(t, c, s)
    BY <1>2 DEF SetState
  <2> QED
    BY <1>2, <2>1, AssignStep, CallbackStep
<1>3. "io" \in Thread /\ "call" \in Thread
  BY Names
<1>4. \A d \in Conn : PeerInv(d)'
  BY <1>1, <1>2, <1>3, AcceptStep, TrackStep, GoesOnStep, TakesUpStep, CloseSetsStep, DisconnectStep,
     ClosePeerStep, ReadsStep DEF Next, Handler, CallStep
<1> QED
  BY <1>0, <1>4 DEF IInv

\* Initially there is no connection, no Peer, and no thread is at anything.
LEMMA InitInv == Init => IInv
<1> SUFFICES ASSUME Init PROVE IInv
  OBVIOUS
<1>1. TypeOK
  BY InitTypes
<1> SUFFICES ASSUME NEW c \in Conn PROVE PeerInv(c)
  BY <1>1 DEF IInv
<1>2. \A t \in Thread, s \in State : ~Sets(t, c, s) /\ \A p \in Step : ~IsAt(t, c, s, p)
  BY WhenIdle DEF Init
<1>3. SeenInv(c)
  BY <1>2 DEF SeenInv, Sets
<1>4. JobInv(c)
  BY <1>2, Names DEF JobInv, Telling
<1>5. stage[c] \notin Made /\ ~Begun(c) /\ ~Ended(c) /\ Told(c) = 0
  BY <1>2, Names DEF Init, Made, Running, Begun, Ended, Told, Telling
<1>6. StageInv(c) /\ EndInv(c) /\ TrackInv(c)
  BY <1>5 DEF Init, StageInv, EndInv, TrackInv
<1> QED
  BY <1>3, <1>4, <1>6 DEF PeerInv

\* The strengthened invariant holds throughout: of what setState's test has
\* seen, of the stages of a Peer, of the announcements of its end that were
\* made or are under way, and of the lists that it is on.
THEOREM PeersInvariance == Spec => []IInv
  BY InitInv, InvStep, PTL DEF Spec

\* LiveIsTracked: a Peer that has a session, or is still to get one, is in
\* peers_ or taken by the close() that has emptied it; only a Peer that was torn
\* while disconnect() set it to Closing escapes.
THEOREM LiveIsTrackedAlways == Spec => []LiveIsTracked
<1>1. IInv => LiveIsTracked
  BY DEF IInv, PeerInv, TrackInv, LiveIsTracked
<1> QED
  BY <1>1, PeersInvariance, PTL

\* DeadIsForgotten: onPeerStateChange takes each Peer that ends out of peers_,
\* whichever threads end it, and also when both do.
THEOREM DeadIsForgottenAlways == Spec => []DeadIsForgotten
<1>1. ASSUME IInv, NEW c \in peers, state[c] = "Closed", stage[c] # "starting"
      PROVE  \E t \in Thread : IsAt(t, c, "Closed", "callback")
  <2>1. c \in Conn /\ stage[c] \in Made
    BY <1>1 DEF IInv, TypeOK
  <2>2. Ended(c)
    BY <1>1, <2>1, Names DEF IInv, PeerInv, JobInv, Begun, Ended
  <2> QED
    BY <1>1, <2>1, <2>2, Names DEF IInv, PeerInv, EndInv, Telling
<1>2. IInv => DeadIsForgotten
  BY <1>1 DEF DeadIsForgotten
<1> QED
  BY <1>2, PeersInvariance, PTL

\* OneClosedEvent: the end of every Peer that was started is announced, and of
\* a Peer that is not torn once, although close(), shutdown(), an error and a
\* DPA may all end it, on two threads.
THEOREM OneClosedEventAlways == Spec => []OneClosedEvent
<1>1. ASSUME IInv, NEW c \in Conn
      PROVE  /\ closedEvents[c] > 1 => c \in torn
             /\ stage[c] \in Running /\ state[c] = "Closed" =>
                  closedEvents[c] > 0 \/ \E t \in Thread : IsAt(t, c, "Closed", "callback")
  <2>1. PeerInv(c) /\ closedEvents[c] \in Nat
    BY <1>1 DEF IInv, TypeOK
  <2>2. closedEvents[c] > 1 => c \in torn
    BY <2>1, Names DEF PeerInv, EndInv, Told
  <2>3. ASSUME stage[c] \in Running, state[c] = "Closed", closedEvents[c] = 0
        PROVE  \E t \in Thread : IsAt(t, c, "Closed", "callback")
    <3>1. Ended(c)
      BY <2>1, <2>3, Names DEF PeerInv, JobInv, Begun, Ended, Made, Running
    <3> QED
      BY <2>1, <2>3, <3>1, Names DEF PeerInv, EndInv, Told, Telling
  <2> QED
    BY <2>1, <2>2, <2>3
<1>2. IInv => OneClosedEvent
  BY Zenon, <1>1 DEF OneClosedEvent
<1> QED
  BY <1>2, PeersInvariance, PTL

(***************************************************************************)
(* What shutdown and close leave behind.  NoSessionOnceDown does not hold  *)
(* of every call: a connection that is on its way to its Peer, or a Peer   *)
(* that shutdown finds in WaitCER, opens after the call has returned.  If  *)
(* the calls find none of them one way is left: handleCER, past its check  *)
(* for WaitCER when close() ends the Peer, assigns Open after it.  Such a  *)
(* Peer is torn, and has no socket.                                        *)
(***************************************************************************)
Coming == {"accepted", "handshaking", "secured"}

\* A connection that may still have a session, and not by tearing its Peer.
MayOpen(c) ==
  \/ stage[c] \in Coming
  \/ socket[c] = "open" /\ (stage[c] = "starting" \/ state[c] = "WaitCER")
  \/ state[c] = "WaitCER" /\ stage[c] \in {"heard", "met"}

\* What a call finds when it reads peers_.  close ends the Peers that may
\* still open with the others; shutdown passes them over.
SettledCall ==
  /\ CopyPeers => \A c \in Conn : ~MayOpen(c)
  /\ TakePeers => \A c \in Conn : stage[c] \notin Coming

\* Nothing is accepted any more.
Shut ==
  /\ ~acceptor /\ ~listening /\ waiting = 0
  /\ \A c \in Conn : stage[c] # "backlog"

Over(c) == ~MayOpen(c) /\ (state[c] = "Open" => c \in torn)

\* The call is at the Peer of c, and will set its state.
Visited(c) ==
  \/ IsAt("call", c, "Closing", "disconnect") \/ Sets("call", c, "Closing")
  \/ IsAt("call", c, "Closed", "close") \/ Sets("call", c, "Closed")

\* How far a call has got, and what it has left behind.
Progress ==
  /\ call # "none" => Shut
  /\ call \notin {"disconnecting", "closing"} => job["call"] = Idle
  /\ call = "disconnecting" => \A c \in Conn : ~MayOpen(c) /\ (c \in todo \/ Visited(c) \/ Over(c))
  /\ call = "closing" => \A c \in Conn : stage[c] \notin Coming /\ (c \in todo \/ Visited(c) \/ Over(c))
  /\ down => Shut /\ \A c \in Conn : Over(c)

\* A step opens no way to a session for connection c.
Keeps(c) ==
  /\ stage[c] \notin Coming => stage'[c] \notin Coming
  /\ ~MayOpen(c) => ~MayOpen(c)'
  /\ Over(c) => Over(c)'

\* Nothing changes for c that matters here.
LEMMA SameKeeps ==
  ASSUME NEW c \in Conn, stage'[c] = stage[c], state'[c] = state[c], c \in torn' <=> c \in torn,
         socket'[c] = "open" => socket[c] = "open"
  PROVE  Keeps(c)
  BY DEF Keeps, Over, MayOpen

\* setState opens a Peer that could not open but by tearing it, and the one
\* that a call ends is over.
LEMMA AssignKeeps ==
  ASSUME IInv, NEW t \in Thread, NEW c \in Conn, NEW s \in State, Assign(t, c, s), SetState(t)
  PROVE  (\A d \in Conn : Keeps(d)) /\ (t = "call" => Over(c)')
<1>1. PICK q \in State :
        /\ job[t] = Setting(c, s, q)
        /\ state' = [state EXCEPT ![c] = s]
        /\ torn' = IF state[c] = "Closed" /\ q # "Closed" THEN torn \cup {c} ELSE torn
  BY DEF Assign
<1>2. TypeOK /\ PeerInv(c)
  BY DEF IInv
<1>3. stage' = stage /\ socket' = socket
  BY DEF SetState
<1>4. state'[c] = s /\ (c \in torn' <=> c \in torn \/ (state[c] = "Closed" /\ q # "Closed"))
  BY <1>1, <1>2 DEF TypeOK
<1>5. ASSUME NEW d \in Conn, d # c PROVE Keeps(d)
  <2>1. state'[d] = state[d] /\ (d \in torn' <=> d \in torn)
    BY <1>1, <1>2, <1>5 DEF TypeOK
  <2> QED
    BY <1>3, <2>1, SameKeeps
<1>6. /\ Sets(t, c, s) /\ stage[c] \in Made
      /\ s = "WaitCER" => t = "io"
      /\ s = "Open" => t = "io" /\ q = "WaitCER"
      /\ s = "Closing" => t = "call"
  BY <1>1, <1>2 DEF Sets, PeerInv, SeenInv
<1>7. CASE s = "WaitCER"
  <2>1. t = "io" /\ stage[c] = "starting"
    BY <1>2, <1>6, <1>7, Names DEF PeerInv, JobInv
  <2>2. ~MayOpen(c) => ~MayOpen(c)'
    BY <1>3, <2>1 DEF MayOpen, Coming
  <2> QED
    BY <1>3, <1>4, <1>5, <1>7, <2>1, <2>2 DEF Keeps, Over
<1>8. CASE s = "Open"
  <2>1. t = "io" /\ stage[c] = "met" /\ state[c] \in {"WaitCER", "Closed"} /\ q = "WaitCER"
    BY <1>2, <1>6, <1>8, Names DEF PeerInv, JobInv
  <2>2. ~MayOpen(c)'
    BY <1>3, <1>4, <1>8, <2>1 DEF MayOpen, Coming
  <2>3. ~MayOpen(c) => c \in torn'
    BY <1>4, <2>1 DEF MayOpen
  <2> QED
    BY <1>3, <1>5, <2>1, <2>2, <2>3 DEF Keeps, Over
<1>9. CASE s = "Closing"
  <2>1. stage[c] \in {"met", "deaf"}
    BY <1>2, <1>6, <1>9, Names DEF PeerInv, JobInv
  <2>2. Over(c)'
    BY <1>3, <1>4, <1>9, <2>1 DEF Over, MayOpen, Coming
  <2> QED
    BY <1>3, <1>5, <2>2 DEF Keeps, Over
<1>10. CASE s = "Closed"
  <2>1. stage[c] \notin Coming
    BY <1>6 DEF Coming, Made, Running
  <2>2. t = "call" => socket[c] = "closed"
    BY <1>2, <1>6, <1>10, Names DEF PeerInv, JobInv
  <2>3. ~MayOpen(c) \/ t = "call" => ~MayOpen(c)'
    BY <1>3, <1>4, <1>10, <2>1, <2>2 DEF MayOpen
  <2> QED
    BY <1>3, <1>4, <1>5, <1>10, <2>1, <2>3 DEF Keeps, Over
<1> QED
  BY <1>7, <1>8, <1>9, <1>10, Names

\* The steps of the io thread and of the peers, and those of no call.
IoStep ==
  \/ AcceptFails \/ CloseSets("io") \/ SetState("io")
  \/ \E c \in Conn : \/ Arrives(c) \/ Accepted(c) \/ Handler(c) \/ HandshakeEnds(c)
                     \/ ReadCER(c) \/ ReadFails(c) \/ WriteFails(c) \/ PeerCloses(c)

\* They are no part of a call.
LEMMA IoAlone ==
  ASSUME IInv, IoStep
  PROVE  UNCHANGED callVars /\ job'["call"] = job["call"]
<1>1. TypeOK
  BY DEF IInv
<1>2. UNCHANGED callVars
  BY DEF IoStep, AcceptFails, CloseSets, SetState, Arrives, Accepted, Handler, Track, StartReading,
         StartHandshake, HandleCER, HandshakeEnds, ReadCER, ReadFails, WriteFails, PeerCloses
<1>3. job' = job \/ \E x : Goes("io", x)
  <2>1. ASSUME NEW c \in Conn, NEW s, Test("io", c, s) PROVE \E x : Goes("io", x)
    BY <2>1 DEF Test
  <2>2. ASSUME NEW c \in Conn, Closes("io", c) PROVE \E x : Goes("io", x)
    BY <2>2 DEF Closes
  <2>3. CASE CloseSets("io")
    BY <2>1, <2>3 DEF CloseSets
  <2>4. CASE SetState("io")
    BY <2>4 DEF SetState, Assign, Callback
  <2>5. CASE AcceptFails
    BY <2>5 DEF AcceptFails, peerVars
  <2>6. ASSUME NEW c \in Conn,
               \/ Arrives(c) \/ Accepted(c) \/ Handler(c) \/ HandshakeEnds(c)
               \/ ReadCER(c) \/ ReadFails(c) \/ WriteFails(c) \/ PeerCloses(c)
        PROVE  job' = job \/ \E x : Goes("io", x)
    BY <2>1, <2>2, <2>6 DEF Arrives, Accepted, Handler, Track, StartReading,
       StartHandshake, HandleCER, HandshakeEnds, ReadCER, ReadFails, WriteFails, PeerCloses, peerVars
  <2> QED
    BY <2>3, <2>4, <2>5, <2>6 DEF IoStep
<1> QED
  BY <1>1, <1>2, <1>3, GoesFacts, Names

\* Once nothing is accepted any more, they bring no connection to a session.
LEMMA IoKeeps ==
  ASSUME IInv, Shut, IoStep
  PROVE  Shut' /\ \A d \in Conn : Keeps(d)
<1>1. TypeOK
  BY DEF IInv
<1>2. CASE AcceptFails
  BY <1>2 DEF AcceptFails, Shut
<1>3. CASE CloseSets("io")
  <2>1. UNCHANGED <<stage, socket, state, torn>> /\ UNCHANGED acceptVars
    BY <1>3 DEF CloseSets
  <2> QED
    BY <2>1, SameKeeps DEF Shut, acceptVars
<1>4. CASE SetState("io")
  <2>1. UNCHANGED <<stage, socket>> /\ UNCHANGED acceptVars
    BY <1>4 DEF SetState
  <2>2. PICK c \in Conn, s \in State : Assign("io", c, s) \/ Callback("io", c, s)
    BY <1>4 DEF SetState
  <2>3. \A d \in Conn : Keeps(d)
    <3>1. CASE Assign("io", c, s)
      BY <1>4, <3>1, AssignKeeps, Names
    <3>2. CASE Callback("io", c, s)
      BY <2>1, <3>2, SameKeeps DEF Callback
    <3> QED
      BY Zenon, <2>2, <3>1, <3>2
  <2>4. Shut'
    BY <2>1 DEF Shut, acceptVars
  <2> QED
    BY <2>3, <2>4
<1>5. ASSUME NEW c \in Conn,
             \/ Arrives(c) \/ Accepted(c) \/ Handler(c) \/ HandshakeEnds(c)
             \/ ReadCER(c) \/ ReadFails(c) \/ WriteFails(c) \/ PeerCloses(c)
      PROVE  Shut' /\ \A d \in Conn : Keeps(d)
  <2>1. ~Arrives(c) /\ ~Accepted(c)
    BY DEF Shut, Arrives, Accepted
  <2>2. acceptor' = acceptor /\ listening' = listening /\ waiting' = waiting
    BY <1>5, <2>1 DEF Shut, Handler, Track, StartReading, StartHandshake, HandleCER, HandshakeEnds,
       ReadCER, ReadFails, WriteFails, PeerCloses, acceptVars, DoAccept
  <2>3. UNCHANGED <<state, torn>>
    BY <1>5, <2>1 DEF Handler, Track, StartReading, StartHandshake, HandleCER, HandshakeEnds,
       ReadCER, ReadFails, WriteFails, PeerCloses, peerVars
  <2>4. \A d \in Conn : d # c => stage'[d] = stage[d] /\ socket'[d] = socket[d]
    BY <1>1, <1>5, <2>1 DEF Handler, Track, StartReading, StartHandshake, HandleCER, HandshakeEnds,
       ReadCER, ReadFails, WriteFails, PeerCloses, Closes, Move, TypeOK
  <2>5. stage'[c] # "backlog"
    BY <1>1, <1>5, <2>1 DEF Shut, Handler, Track, StartReading, StartHandshake, HandleCER,
       HandshakeEnds, ReadCER, ReadFails, WriteFails, PeerCloses, Move, TypeOK
  <2>6. Keeps(c)
    <3>1. stage[c] \notin Coming => stage'[c] \notin Coming
      BY <1>1, <1>5, <2>1 DEF Handler, Track, StartReading, StartHandshake, HandleCER,
         HandshakeEnds, ReadCER, ReadFails, WriteFails, PeerCloses, Move, TypeOK, Coming
    <3>2. socket'[c] = "open" => socket[c] = "open"
      BY <1>1, <1>5, <2>1 DEF Handler, Track, StartReading, StartHandshake, HandleCER,
         HandshakeEnds, ReadCER, ReadFails, WriteFails, PeerCloses, Closes, TypeOK
    <3>3. ~MayOpen(c) => /\ stage'[c] = "starting" => stage[c] = "starting"
                         /\ stage'[c] \in {"heard", "met"} =>
                              stage[c] \in {"heard", "met"} \/ (stage[c] = "started" /\ socket[c] = "open")
      BY <1>1, <1>5, <2>1 DEF Handler, Track, StartReading, StartHandshake, HandleCER,
         HandshakeEnds, ReadCER, ReadFails, WriteFails, PeerCloses, Move, TypeOK, MayOpen, Coming
    <3> QED
      BY <2>3, <3>1, <3>2, <3>3 DEF Keeps, Over, MayOpen
  <2>7. \A d \in Conn : d # c => Keeps(d)
    BY <2>3, <2>4, SameKeeps
  <2> QED
    BY <2>2, <2>4, <2>5, <2>6, <2>7 DEF Shut
<1> QED
  BY <1>2, <1>3, <1>4, <1>5 DEF IoStep

\* A call finds what it needs, whatever the io thread does meanwhile.
LEMMA IoProgress == ASSUME IInv, Progress, IoStep PROVE Progress'
<1>1. UNCHANGED <<call, todo, down>> /\ job'["call"] = job["call"]
  BY IoAlone DEF callVars
<1>2. \A d \in Conn : Visited(d)' <=> Visited(d)
  BY <1>1 DEF Visited, IsAt, Sets
<1>3. CASE Shut
  BY <1>1, <1>2, <1>3, IoKeeps DEF Progress, Keeps
<1>4. CASE ~Shut
  BY <1>1, <1>4 DEF Progress
<1> QED
  BY <1>3, <1>4

\* A stop of the accept loop: nothing waits to be taken, and no connection
\* comes nearer to a session.
LEMMA StopProgress ==
  ASSUME IInv, Progress, StopListening \/ Shutdown \/ Close
  PROVE  Progress'
<1>1. /\ call = "none" /\ Stop /\ call' \in {"none", "shutdown", "close"}
      /\ UNCHANGED <<socket, state, torn, job, down>>
  BY DEF StopListening, Shutdown, Close, Begin, callVars, peerVars
<1>2. \A c \in Conn : stage'[c] = IF stage[c] = "backlog" THEN "gone" ELSE stage[c]
  BY <1>1 DEF Stop
<1>3. Shut'
  BY <1>1, <1>2 DEF Stop, Shut
<1>4. \A c \in Conn : Keeps(c)
  BY <1>1, <1>2 DEF Keeps, Over, MayOpen, Coming
<1> QED
  BY <1>1, <1>3, <1>4 DEF Progress, Keeps

\* A call reads peers_: every Peer that is Open, or that close is to keep from
\* opening, is there.
LEMMA ReadProgress ==
  ASSUME IInv, Progress, SettledCall, CopyPeers \/ TakePeers
  PROVE  Progress'
<1>1. /\ call \in {"shutdown", "close"} /\ call' \in {"disconnecting", "closing"}
      /\ todo' = peers /\ UNCHANGED <<stage, socket, state, torn, down>>
      /\ UNCHANGED acceptVars
  BY DEF CopyPeers, TakePeers, peerVars
<1>2. Shut /\ Shut'
  <2>1. Shut
    BY <1>1 DEF Progress
  <2> QED
    BY <1>1, <2>1 DEF Shut, acceptVars
<1>3. \A c \in Conn : ~Taken(c)
  BY <1>1 DEF Taken
<1>4. ASSUME NEW c \in Conn
      PROVE  stage[c] \notin Coming /\ (MayOpen(c) \/ ~Over(c) => c \in peers)
  <2>1. stage[c] \notin Coming
    BY DEF SettledCall, MayOpen
  <2> QED
    BY <1>3, <2>1 DEF IInv, PeerInv, TrackInv, MayOpen, Over
<1>5. \A c \in Conn : (MayOpen(c)' <=> MayOpen(c)) /\ (Over(c)' <=> Over(c))
  BY <1>1 DEF MayOpen, Over
<1>6. call' = "disconnecting" => \A c \in Conn : ~MayOpen(c)'
  BY <1>5 DEF SettledCall, TakePeers
<1>7. down' => \A c \in Conn : Over(c)'
  BY <1>1, <1>5 DEF Progress
<1> QED
  BY <1>1, <1>2, <1>4, <1>5, <1>6, <1>7 DEF Progress

\* A call at no Peer.
LEMMA NotVisited ==
  ASSUME \/ job["call"] = Idle
         \/ \E c \in Conn, s \in State : IsAt("call", c, s, "callback")
  PROVE  \A d \in Conn : ~Visited(d)
  BY Names, WhenIdle, WhenAt DEF Visited

\* A call takes a step at the Peer of c, which is over if the call is done
\* with it.
LEMMA VisitProgress ==
  ASSUME IInv, Progress, NEW c \in Conn, UNCHANGED <<call, down, stage>>, UNCHANGED acceptVars,
         \A d \in Conn : Keeps(d),
         \A d \in Conn : d # c => (Visited(d) => Visited(d)') /\ (d \in todo => d \in todo'),
         c \in todo \/ Visited(c) => c \in todo' \/ Visited(c)' \/ Over(c)',
         call \in {"disconnecting", "closing"}
  PROVE  Progress'
<1>1. Shut
  BY DEF Progress
<1>2. Shut'
  BY <1>1 DEF Shut, acceptVars
<1> QED
  BY <1>2 DEF Progress, Keeps

\* A call goes on, and leaves each Peer over that it is done with.
LEMMA CallProgress ==
  ASSUME IInv, Progress,
         \/ CloseSets("call") \/ SetState("call")
         \/ \E c \in Conn : VisitPeer(c) \/ DisconnectPeer(c) \/ ClosePeer(c)
  PROVE  Progress'
<1>1. TypeOK
  BY DEF IInv
<1>2. job["call"] # Idle => call \in {"disconnecting", "closing"}
  BY DEF Progress
<1>3. CASE CloseSets("call")
  <2>1. PICK c \in Conn : IsAt("call", c, "Closed", "close") /\ Test("call", c, "Closed")
    BY <1>3 DEF CloseSets
  <2>2. UNCHANGED <<call, down, stage, todo, socket, state, torn>> /\ UNCHANGED acceptVars
    BY <1>3 DEF CloseSets, callVars
  <2>3. call \in {"disconnecting", "closing"} /\ socket[c] = "closed" /\ stage[c] \in Made
    BY <1>2, <2>1, Names, WhenIdle DEF IInv, PeerInv, JobInv, SeenInv
  <2>4. \A d \in Conn : d # c => ~Visited(d)
    BY <2>1, Names, WhenAt DEF Visited
  <2>5. Visited(c)' \/ Over(c)'
    <3>1. CASE state[c] = "Closed"
      BY <2>2, <2>3, <3>1 DEF Over, MayOpen, Coming, Made, Running
    <3>2. CASE state[c] # "Closed"
      BY <1>1, <2>1, <3>2, Names, ToTest, AboutNow DEF Visited
    <3> QED
      BY <3>1, <3>2
  <2>6. \A d \in Conn : Keeps(d)
    BY <2>2, SameKeeps
  <2> QED
    BY <2>2, <2>3, <2>4, <2>5, <2>6, VisitProgress
<1>4. CASE SetState("call")
  <2>1. PICK c \in Conn, s \in State : Assign("call", c, s) \/ Callback("call", c, s)
    BY <1>4 DEF SetState
  <2>2. UNCHANGED <<call, down, stage, todo, socket>> /\ UNCHANGED acceptVars
    BY <1>4 DEF SetState, callVars
  <2>3. CASE Assign("call", c, s)
    <3>1. Sets("call", c, s)
      BY <2>3 DEF Assign, Sets
    <3>2. call \in {"disconnecting", "closing"} /\ \A d \in Conn : d # c => ~Visited(d)
      BY <1>2, <3>1, Names, WhenIdle, WhenSetting DEF Visited, Sets
    <3>3. Over(c)' /\ \A d \in Conn : Keeps(d)
      BY <1>4, <2>3, AssignKeeps, Names
    <3> QED
      BY <2>2, <3>2, <3>3, VisitProgress
  <2>4. CASE Callback("call", c, s)
    <3>1. IsAt("call", c, s, "callback") /\ UNCHANGED <<state, torn>>
      BY <2>4 DEF Callback
    <3>2. call \in {"disconnecting", "closing"}
      BY <1>2, <3>1, Names, WhenIdle
    <3>3. \A d \in Conn : ~Visited(d)
      BY <3>1, NotVisited
    <3>4. \A d \in Conn : Keeps(d)
      BY <2>2, <3>1, SameKeeps
    <3> QED
      BY <2>2, <3>2, <3>3, <3>4, VisitProgress
  <2> QED
    BY <2>1, <2>3, <2>4
<1>5. ASSUME NEW c \in Conn, VisitPeer(c) \/ DisconnectPeer(c) \/ ClosePeer(c)
      PROVE  Progress'
  <2>1. UNCHANGED <<call, down, stage, state, torn>> /\ UNCHANGED acceptVars
    BY <1>5 DEF VisitPeer, DisconnectPeer, ClosePeer, callVars
  <2>2. /\ call \in {"disconnecting", "closing"}
        /\ VisitPeer(c) => call = "disconnecting"
    BY <1>2, <1>5, Names, WhenIdle DEF VisitPeer, DisconnectPeer, ClosePeer
  <2>3. \A d \in Conn : d # c => (d \in todo => d \in todo')
    BY <1>5 DEF VisitPeer, DisconnectPeer, ClosePeer, callVars
  <2>4. \A d \in Conn : socket'[d] = "open" => socket[d] = "open"
    BY <1>1, <1>5 DEF VisitPeer, DisconnectPeer, ClosePeer, Closes, TypeOK
  <2>5. \A d \in Conn : Keeps(d)
    BY <2>1, <2>4, SameKeeps
  <2>6. \A d \in Conn : d # c => ~Visited(d)
    BY <1>5, Names, WhenIdle, WhenAt DEF VisitPeer, DisconnectPeer, ClosePeer, Visited
  <2>7. About(job["call"], c)
    BY <1>5, Names, AboutNow DEF VisitPeer, DisconnectPeer, ClosePeer
  <2>8. Visited(c)' \/ Over(c)'
    <3>1. CASE VisitPeer(c) /\ state[c] = "Open"
      BY <1>1, <2>7, <3>1, Names, ToStep DEF VisitPeer, Visited
    <3>2. CASE VisitPeer(c) /\ state[c] # "Open"
      <4>1. ~MayOpen(c)
        BY <2>2, <3>2 DEF Progress
      <4>2. socket' = socket
        BY <3>2 DEF VisitPeer
      <4> QED
        BY <2>1, <3>2, <4>1, <4>2 DEF Over, MayOpen
    <3>3. CASE state[c] = "Open" /\ Test("call", c, "Closing")
      BY <1>1, <2>7, <3>3, Names, ToTest DEF Visited
    <3>4. CASE Closes("call", c)
      BY <1>1, <2>7, <3>4, Names, ToStep DEF Closes, Visited
    <3> QED
      BY <1>5, <3>1, <3>2, <3>3, <3>4 DEF DisconnectPeer, ClosePeer
  <2> QED
    BY <2>1, <2>2, <2>3, <2>5, <2>6, <2>8, VisitProgress
<1> QED
  BY <1>3, <1>4, <1>5

\* Every step keeps Progress, if the calls find what SettledCall says.
LEMMA ProgressStep == IInv /\ Progress /\ [Next]_vars /\ [SettledCall]_vars => Progress'
<1> SUFFICES ASSUME IInv, Progress, [Next]_vars, [SettledCall]_vars PROVE Progress'
  OBVIOUS
<1>1. CASE UNCHANGED vars
  BY <1>1 DEF vars, Progress, Shut, Over, MayOpen, Visited, IsAt, Sets
<1>2. CASE ~UNCHANGED vars
  <2>1. SettledCall
    BY <1>2
  <2>2. CASE Listen
    <3>1. ~down' /\ call = "none" /\ call' = "none" /\ job' = job
      BY <2>2 DEF Listen, peerVars
    <3> QED
      BY <3>1 DEF Progress
  <2>3. CASE Return
    <3>1. /\ todo = {} /\ job["call"] = Idle /\ job' = job /\ call' = "none"
          /\ call \in {"disconnecting", "closing"}
          /\ UNCHANGED <<stage, socket, state, torn>> /\ UNCHANGED acceptVars
      BY <2>3 DEF Return, peerVars
    <3>2. \A d \in Conn : Over(d)
      BY <3>1, NotVisited DEF Progress
    <3>3. \A d \in Conn : Over(d)'
      BY <3>1, <3>2 DEF Over, MayOpen
    <3>4. Shut
      BY <3>1 DEF Progress
    <3>5. Shut'
      BY <3>1, <3>4 DEF Shut, acceptVars
    <3> QED
      BY <3>1, <3>3, <3>5 DEF Progress
  <2> QED
    BY <1>2, <2>1, <2>2, <2>3, IoProgress, StopProgress, ReadProgress, CallProgress
       DEF Next, CallStep, IoStep
<1> QED
  BY <1>1, <1>2

\* NoSessionOnceDown, of calls that find no connection on its way and, if they
\* are shutdown, no Peer in WaitCER: from the return of shutdown or close to the
\* next listen no Peer has a session with a working connection.  One that is
\* Open even so was set to Open over a Closed, by handleCER.
THEOREM NoSessionOnceSettled ==
  Spec /\ [][SettledCall]_vars =>
    [](down => \A c \in Conn : state[c] = "Open" => c \in torn /\ socket[c] = "closed")
<1>1. Init => Progress
  <2> SUFFICES ASSUME Init PROVE Progress
    OBVIOUS
  <2>1. ~down /\ call = "none"
    BY DEF Init
  <2>2. job["call"] = Idle
    BY Names DEF Init
  <2> QED
    BY <2>1, <2>2 DEF Progress
<1>2. IInv /\ Progress => (down => \A c \in Conn : state[c] = "Open" => c \in torn /\ socket[c] = "closed")
  BY DEF IInv, PeerInv, TrackInv, Progress, Over
<1> QED
  BY <1>1, <1>2, ProgressStep, PeersInvariance, PTL DEF Spec
=============================================================================
