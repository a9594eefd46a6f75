---------------------- MODULE ServerTransactions_proofs ----------------------
(***************************************************************************)
(* Theorems about ServerTransactions for every set of requests, of Peers   *)
(* and of seeds, and whatever identifiers callers and answers bring.       *)
(*                                                                         *)
(* The argument is the client's (ClientTransactions_proofs): the table and *)
(* the calls agree on what is outstanding.  It does not rest on which Peer *)
(* a request went to: that one table serves several counters costs the     *)
(* server nothing but answers that complete the wrong request, which the   *)
(* promise about one request allows and SameLegGoesHome bounds.  That is   *)
(* proved last, of identifiers that are apart and so of the counters'.     *)
(***************************************************************************)
EXTENDS ServerTransactions, DrawnIds_proofs, TLAPS

Registered == {"registered", "armed", "returned"}

Tabled ==
  \A h \in Id : pending[h] # NoTxn =>
    /\ ids[pending[h]].hop = h
    /\ call[pending[h]] \in Registered
    /\ fate[pending[h]] = "none"

Findable ==
  \A t \in Txn : call[t] \in Registered /\ fate[t] = "none" =>
    pending[ids[t].hop] = t

Fresh == \A t \in Txn : call[t] \in {"idle", "assigned"} => fate[t] = "none"

Agreement == Tabled /\ Findable /\ Fresh

\* A call that has begun is for a Peer, and has the Peer's counter to draw from.
Directed == \A t \in Txn : call[t] # "idle" => leg[t] \in Peers

IInv == TypeOK /\ Directed /\ Agreement /\ IndexSound

(***************************************************************************)
(* Types.                                                                  *)
(***************************************************************************)
\* A counter of the node stays an identifier when it is drawn from.
LEMMA IncrementType == \A n \in Id : Increment(n) \in Id
<1>1. IdMod \in Nat /\ IdMod > 0
  BY IdAssumption
<1>2. \A m \in Nat : m % IdMod \in 0 .. (IdMod - 1)
  BY <1>1
<1> QED
  BY <1>1, <1>2 DEF Increment, Id

\* Zero is an identifier, and every identifier is a natural number.
LEMMA ZeroIsId == 0 \in Id /\ Id \subseteq Nat
  BY IdAssumption DEF Id

\* What assigning identifiers to a request for p produces is identifiers, and
\* the counters remain identifiers.
LEMMA AssignedTypes ==
  ASSUME TypeOK, NEW p \in Peers, NEW i \in Identifiers
  PROVE  /\ Assigned(p, i) \in Identifiers
         /\ Draw(p, i) => nextHop' \in [Peers -> Id] /\ nextEnd' \in Id
<1>1. /\ nextHop \in [Peers -> Id] /\ nextHop[p] \in Id /\ nextEnd \in Id
      /\ i.hop \in Id /\ i.end \in Id
  BY DEF TypeOK, Identifiers
<1>2. Increment(nextHop[p]) \in Id /\ Increment(nextEnd) \in Id
  BY <1>1, IncrementType
<1>3. Assigned(p, i) \in Identifiers
  BY <1>1 DEF Assigned, Identifiers
<1>4. Draw(p, i) => nextHop' \in [Peers -> Id] /\ nextEnd' \in Id
  BY <1>1, <1>2 DEF Draw
<1> QED
  BY <1>3, <1>4

TimerStates == {"none", "armed", "expired", "done", "off"}

\* Cancelling timers gives states of timers.
LEMMA CancelledType ==
  ASSUME TypeOK, NEW T
  PROVE  Cancelled(T) \in [Txn -> TimerStates]
  BY DEF TypeOK, Cancelled, TimerStates

\* The types of the table, of the histories and of the timers.
TableTypes == pending \in [Id -> Txn \cup {NoTxn}] /\ byEnd \in [Id -> Id \cup {NoId}]
OutcomeTypes ==
  /\ fate \in [Txn -> {"none", "answered", "expired", "withdrawn", "replaced"}]
  /\ answeredBy \in [Txn -> Txn \cup {NoTxn}]
TimerTypes == timer \in [Txn -> TimerStates]
CallTypes ==
  /\ call \in [Txn -> {"idle", "returned", "refused"} \cup Running]
  /\ leg \in [Txn -> Peers \cup {NoPeer}]
  /\ ids \in [Txn -> Identifiers]
  /\ wireIds \in [Txn -> Identifiers]
  /\ answers \in [Txn -> Nat]
SessionTypes ==
  /\ session \in [Peers -> {"waiting", "open", "over"}]
  /\ nextHop \in [Peers -> Id] /\ nextEnd \in Id

\* The type invariant, part by part, before a step and after it.
LEMMA TypeParts ==
  /\ TypeOK => TableTypes /\ OutcomeTypes /\ TimerTypes /\ CallTypes /\ SessionTypes
  /\ (TableTypes /\ OutcomeTypes /\ TimerTypes /\ CallTypes /\ SessionTypes)' => TypeOK'
  BY DEF TypeOK, TableTypes, OutcomeTypes, TimerTypes, CallTypes, SessionTypes, TimerStates

\* Taking an entry out of the table leaves a table.
LEMMA EraseTypes ==
  ASSUME TypeOK, NEW t \in Txn, Erase(t)
  PROVE  TableTypes'
<1>1. ids[t].hop \in Id /\ ids[t].end \in Id
  BY DEF TypeOK, Identifiers
<1> QED
  BY <1>1 DEF TypeOK, TableTypes, Erase

\* What an answer matches is an entry of the table.
LEMMA MatchIsPending ==
  ASSUME TypeOK, NEW h \in Id, NEW e \in Id, NEW c, Match(h, e, c) # NoTxn
  PROVE  Match(h, e, c) \in Txn /\ \E k \in Id : pending[k] = Match(h, e, c)
  BY DEF Match, TypeOK

\* Every step of a call of sendRequest() keeps the types.
LEMMA SendTypes ==
  ASSUME TypeOK, Directed, NEW t \in Txn, Assign(t) \/ SendStep(t)
  PROVE  TypeOK'
<1>0. TableTypes /\ OutcomeTypes /\ TimerTypes /\ CallTypes /\ SessionTypes
  BY TypeParts
<1>1. ids[t] \in Identifiers /\ ids[t].hop \in Id /\ ids[t].end \in Id
  BY DEF TypeOK, Identifiers
<1>3. CASE Assign(t)
  <2>1. PICK p \in Peers, h \in CallerHops[t], e \in CallerEnds :
          /\ ids' = [ids EXCEPT ![t] = Assigned(p, [hop |-> h, end |-> e])]
          /\ leg' = [leg EXCEPT ![t] = p]
          /\ Draw(p, [hop |-> h, end |-> e])
    BY <1>3 DEF Assign
  <2>2. [hop |-> h, end |-> e] \in Identifiers
    BY CallerAssumption, ZeroIsId DEF Identifiers
  <2>3. /\ Assigned(p, [hop |-> h, end |-> e]) \in Identifiers
        /\ nextHop' \in [Peers -> Id] /\ nextEnd' \in Id
    BY <2>1, <2>2, AssignedTypes
  <2>4. CallTypes'
    BY <1>0, <1>3, <2>1, <2>3 DEF Assign, CallTypes, Running
  <2>5. SessionTypes'
    BY <1>0, <1>3, <2>3 DEF Assign, SessionTypes
  <2>6. TableTypes' /\ OutcomeTypes' /\ TimerTypes'
    BY <1>0, <1>3 DEF Assign, TableTypes, OutcomeTypes, TimerTypes, table, histories
  <2> QED
    BY <2>4, <2>5, <2>6, TypeParts
<1>4. CASE Register(t)
  <2>1. CallTypes' /\ SessionTypes'
    BY <1>0, <1>4 DEF Register, CallTypes, SessionTypes, Running, counters
  <2>2. TableTypes'
    <3>1. pending[ids[t].hop] # NoTxn => ids[pending[ids[t].hop]].end \in Id
      BY <1>1 DEF TypeOK, Identifiers
    <3> QED
      BY <1>0, <1>1, <1>4, <3>1 DEF Register, TableTypes
  <2>3. OutcomeTypes'
    BY <1>0, <1>1, <1>4 DEF Register, OutcomeTypes, TableTypes, End
  <2>4. TimerTypes'
    BY <1>0, <1>4, CancelledType DEF Register, TimerTypes
  <2> QED
    BY <2>1, <2>2, <2>3, <2>4, TypeParts
<1>5. CASE Arm(t)
  BY <1>5 DEF Arm, TypeOK, Running, table, histories, counters
<1>6. CASE PeerSend(t)
  <2>1. /\ Assigned(leg[t], ids[t]) \in Identifiers
        /\ nextHop' \in [Peers -> Id] /\ nextEnd' \in Id
    <3>1. leg[t] \in Peers
      BY <1>6 DEF PeerSend, Directed
    <3> QED
      BY <1>1, <1>6, <3>1, AssignedTypes DEF PeerSend
  <2>2. CallTypes'
    BY <1>0, <1>6, <2>1 DEF PeerSend, CallTypes
  <2>3. SessionTypes'
    BY <1>0, <1>6, <2>1 DEF PeerSend, SessionTypes
  <2>4. TimerTypes'
    BY <1>6, CancelledType DEF PeerSend, TimerTypes
  <2>5. TableTypes' /\ OutcomeTypes'
    BY <1>0, <1>6 DEF PeerSend, TableTypes, OutcomeTypes, table, histories
  <2> QED
    BY <2>2, <2>3, <2>4, <2>5, TypeParts
<1>7. CASE PeerRefuses(t)
  <2>1. CallTypes' /\ SessionTypes'
    BY <1>0, <1>7 DEF PeerRefuses, CallTypes, SessionTypes, counters
  <2>2. TableTypes'
    BY <1>0, <1>7, EraseTypes DEF PeerRefuses, TableTypes, table
  <2>3. OutcomeTypes'
    BY <1>0, <1>7 DEF PeerRefuses, OutcomeTypes, End
  <2>4. TimerTypes'
    BY <1>7, CancelledType DEF PeerRefuses, TimerTypes
  <2> QED
    BY <2>1, <2>2, <2>3, <2>4, TypeParts
<1> QED
  BY <1>3, <1>4, <1>5, <1>6, <1>7 DEF SendStep

\* Every step of the io thread keeps the types.
LEMMA IoTypes ==
  ASSUME TypeOK, NEW t \in Txn, TimerExpires(t) \/ TimeoutHandler(t) \/ Answer(t)
  PROVE  TypeOK'
<1>0. TableTypes /\ OutcomeTypes /\ TimerTypes /\ CallTypes /\ SessionTypes
  BY TypeParts
<1>1. CASE TimerExpires(t)
  BY <1>1 DEF TimerExpires, TypeOK, table, histories, counters
<1>2. CASE TimeoutHandler(t)
  <2> DEFINE victim == pending[ids[t].hop]
  <2>0. victim \in Txn \cup {NoTxn}
    BY DEF TypeOK, Identifiers
  <2>1. CallTypes' /\ SessionTypes'
    BY <1>0, <1>2 DEF TimeoutHandler, CallTypes, SessionTypes, counters
  <2>2. TableTypes'
    BY <1>0, <1>2, <2>0, EraseTypes DEF TimeoutHandler, TableTypes, table
  <2>3. OutcomeTypes'
    BY <1>0, <1>2, <2>0 DEF TimeoutHandler, OutcomeTypes, End
  <2>4. TimerTypes'
    BY <1>2, CancelledType DEF TimeoutHandler, TimerTypes, TimerStates
  <2> QED
    BY <2>1, <2>2, <2>3, <2>4, TypeParts
<1>3. CASE Answer(t)
  <2>1. PICK h \in {wireIds[t].hop} \cup Rewrites :
          LET found == Match(h, wireIds[t].end, Command[t])
          IN  IF found = NoTxn
              THEN UNCHANGED <<table, timer, histories>>
              ELSE /\ Erase(found) /\ End(found, "answered")
                   /\ answeredBy' = [answeredBy EXCEPT ![found] = t]
                   /\ timer' = Cancelled({found})
    BY <1>3 DEF Answer
  <2> DEFINE found == Match(h, wireIds[t].end, Command[t])
  <2>2. h \in Id /\ wireIds[t].end \in Id
    BY CallerAssumption DEF TypeOK, Identifiers
  <2>3. CallTypes' /\ SessionTypes'
    BY <1>0, <1>3 DEF Answer, CallTypes, SessionTypes, counters
  <2>4. CASE found = NoTxn
    BY <1>0, <2>1, <2>3, <2>4, TypeParts
       DEF TableTypes, TimerTypes, OutcomeTypes, table, histories
  <2>5. CASE found # NoTxn
    <3>1. found \in Txn
      BY <2>2, <2>5, MatchIsPending
    <3>2. TableTypes'
      BY <2>1, <2>5, <3>1, EraseTypes
    <3>3. TimerTypes'
      BY <2>1, <2>5, CancelledType DEF TimerTypes
    <3>4. OutcomeTypes'
      <4> HIDE DEF found
      <4> QED
        BY <1>0, <2>1, <2>5, <3>1 DEF OutcomeTypes, End, found
    <3> QED
      BY <2>3, <3>2, <3>3, <3>4, TypeParts
  <2> QED
    BY <2>4, <2>5
<1> QED
  BY <1>1, <1>2, <1>3

\* A Peer that opens or is lost keeps the types.
LEMMA PeerTypes ==
  ASSUME TypeOK, NEW p \in Peers, PeerOpens(p) \/ PeerLost(p)
  PROVE  TypeOK'
BY DEF PeerOpens, PeerLost, TypeOK, table, histories, counters

\* A call keeps its Peer.
LEMMA DirectedStep ==
  ASSUME TypeOK, Directed, [Next]_vars
  PROVE  Directed'
<1>1. CASE UNCHANGED <<call, leg>>
  BY <1>1 DEF Directed
<1>2. ASSUME NEW t \in Txn, Assign(t) PROVE Directed'
  <2>1. PICK p \in Peers : leg' = [leg EXCEPT ![t] = p]
    BY <1>2 DEF Assign
  <2> QED
    BY <1>2, <2>1 DEF Assign, Directed, TypeOK
<1>3. ASSUME NEW t \in Txn, SendStep(t) PROVE Directed'
  <2>1. /\ leg' = leg /\ call[t] # "idle"
        /\ \A u \in Txn : u # t => call'[u] = call[u]
    BY <1>3 DEF SendStep, Register, Arm, PeerSend, PeerRefuses, TypeOK
  <2> QED
    BY <2>1 DEF Directed
<1>4. ASSUME NEW t \in Txn, TimerExpires(t) \/ TimeoutHandler(t) \/ Answer(t) PROVE Directed'
  BY <1>1, <1>4 DEF TimerExpires, TimeoutHandler, Answer
<1>5. ASSUME NEW p \in Peers, PeerOpens(p) \/ PeerLost(p) PROVE Directed'
  BY <1>1, <1>5 DEF PeerOpens, PeerLost
<1>6. CASE UNCHANGED vars
  BY <1>1, <1>6 DEF vars
<1> QED
  BY <1>2, <1>3, <1>4, <1>5, <1>6 DEF Next

\* Every step keeps the types, and the Peers of the calls.
LEMMA TypesStep == TypeOK /\ Directed /\ [Next]_vars => TypeOK' /\ Directed'
<1> SUFFICES ASSUME TypeOK, Directed, [Next]_vars PROVE TypeOK'
  BY DirectedStep
<1>1. CASE UNCHANGED vars
  BY <1>1 DEF TypeOK, vars
<1>2. CASE Next
  BY <1>2, SendTypes, IoTypes, PeerTypes DEF Next
<1> QED
  BY <1>1, <1>2

\* Initially every variable has its type, and no call has begun.
LEMMA InitTypes == Init => TypeOK /\ Directed
<1>1. [hop |-> 0, end |-> 0] \in Identifiers
  BY ZeroIsId DEF Identifiers
<1>2. Init => TableTypes /\ TimerTypes
  BY DEF Init, TableTypes, TimerTypes, TimerStates
<1>3. Init => OutcomeTypes
  BY DEF Init, OutcomeTypes
<1>4. Init => CallTypes
  BY <1>1 DEF Init, CallTypes
<1>5. Init => SessionTypes
  BY SeedAssumption DEF Init, SessionTypes
<1>6. Init => Directed
  BY DEF Init, Directed
<1> QED
  BY <1>2, <1>3, <1>4, <1>5, <1>6
     DEF TypeOK, TableTypes, TimerTypes, TimerStates, OutcomeTypes, CallTypes, SessionTypes

\* TypeOK: the counters of the node and of every Peer stay within their width,
\* and calls, timers and outcomes keep to the states sendRequest() and the
\* handlers of DiameterServer.cpp give them.
THEOREM ServerTypeCorrect == Spec => []TypeOK
  BY InitTypes, TypesStep, PTL DEF Spec

(***************************************************************************)
(* The table and the calls agree.                                          *)
(***************************************************************************)
\* The entry under a hop-by-hop identifier is that request's own: no request
\* is in the table twice.
LEMMA OneEntry ==
  ASSUME Tabled, NEW v, v # NoTxn, NEW h \in Id, pending[h] = v
  PROVE  /\ ids[v].hop = h /\ call[v] \in Registered /\ fate[v] = "none"
         /\ \A k \in Id : pending[k] = v => k = h
  BY DEF Tabled

\* Taking an entry out for good, with an outcome, keeps the table and the calls
\* in agreement and the index sound.
LEMMA RemovalStep ==
  ASSUME IInv, NEW v \in Txn, NEW how \in {"answered", "expired", "withdrawn"},
         pending[ids[v].hop] = v, Erase(v), End(v, how), UNCHANGED ids,
         call' \in [Txn -> {"idle", "returned", "refused"} \cup Running],
         \A t \in Txn : call'[t] = call[t] \/ (t = v /\ call'[t] = "refused")
  PROVE  Agreement' /\ IndexSound'
<1>0. /\ v # NoTxn /\ ids[v].hop \in Id /\ ids[v].end \in Id
      /\ call[v] \in Registered /\ fate[v] = "none"
  BY NoneAssumption DEF IInv, Agreement, Tabled, TypeOK, Identifiers
<1>1. /\ \A h \in Id : pending'[h] = IF h = ids[v].hop THEN NoTxn ELSE pending[h]
      /\ \A e \in Id : byEnd'[e] = IF e = ids[v].end THEN NoId ELSE byEnd[e]
      /\ \A t \in Txn : fate'[t] = IF t = v THEN how ELSE fate[t]
      /\ ids' = ids
  BY <1>0 DEF IInv, TypeOK, Erase, End
<1>2. \A h \in Id : pending[h] \in Txn \cup {NoTxn}
  BY DEF IInv, TypeOK
<1>3. Tabled'
  <2> SUFFICES ASSUME NEW h \in Id, pending'[h] # NoTxn
               PROVE  /\ ids[pending'[h]].hop = h
                      /\ call'[pending'[h]] \in Registered
                      /\ fate'[pending'[h]] = "none"
    BY <1>1 DEF Tabled
  <2>1. h # ids[v].hop /\ pending'[h] = pending[h] /\ pending[h] \in Txn
    BY <1>1, <1>2
  <2>2. pending[h] # v
    BY <2>1, <1>0 DEF IInv, Agreement, Tabled
  <2> QED
    BY <2>1, <2>2, <1>1 DEF IInv, Agreement, Tabled
<1>4. Findable'
  <2> SUFFICES ASSUME NEW t \in Txn, call'[t] \in Registered, fate'[t] = "none"
               PROVE  pending'[ids[t].hop] = t
    BY <1>1 DEF Findable
  <2>1. t # v /\ call[t] \in Registered /\ fate[t] = "none"
    BY <1>1 DEF Registered
  <2>2. pending[ids[t].hop] = t /\ ids[t].hop \in Id
    BY <2>1 DEF IInv, Agreement, Findable, TypeOK, Identifiers
  <2> QED
    BY <2>1, <2>2, <1>1
<1>5. Fresh'
  BY <1>0, <1>1 DEF IInv, Agreement, Fresh, Registered
<1>6. IndexSound'
  <2> SUFFICES ASSUME NEW e \in Id, byEnd'[e] # NoId
               PROVE  pending'[byEnd'[e]] # NoTxn /\ ids[pending'[byEnd'[e]]].end = e
    BY <1>1 DEF IndexSound
  <2>1. e # ids[v].end /\ byEnd'[e] = byEnd[e] /\ byEnd[e] \in Id
    BY <1>1 DEF IInv, TypeOK
  <2>2. pending[byEnd[e]] # NoTxn /\ ids[pending[byEnd[e]]].end = e
    BY <2>1 DEF IInv, IndexSound
  <2> QED
    BY <2>1, <2>2, <1>1
<1> QED
  BY <1>3, <1>4, <1>5, <1>6 DEF Agreement

\* The steps that touch neither the table nor an outcome, and register nothing.
LEMMA QuietStep ==
  ASSUME IInv, UNCHANGED <<table, fate>>,
         call' \in [Txn -> {"idle", "returned", "refused"} \cup Running],
         \A t \in Txn :
           \/ call'[t] = call[t] /\ ids'[t] = ids[t]
           \/ call[t] = "idle" /\ call'[t] \in {"assigned", "refused"}
           \/ call[t] \in Registered /\ call'[t] \in Registered /\ ids'[t] = ids[t]
           \/ call'[t] = "refused" /\ ids'[t] = ids[t] /\ pending[ids[t].hop] # t
  PROVE  Agreement' /\ IndexSound'
<1>0. pending' = pending /\ byEnd' = byEnd /\ fate' = fate
  BY DEF table
<1>1. \A h \in Id : pending[h] # NoTxn =>
        /\ pending[h] \in Txn /\ ids[pending[h]].hop = h
        /\ call[pending[h]] \in Registered /\ fate[pending[h]] = "none"
  BY DEF IInv, TypeOK, Agreement, Tabled
<1>2. \A h \in Id : pending[h] # NoTxn =>
        ids'[pending[h]] = ids[pending[h]] /\ call'[pending[h]] \in Registered
  BY <1>1 DEF Registered
<1>3. Tabled'
  BY <1>0, <1>1, <1>2 DEF Tabled
<1>4. Findable'
  BY <1>0 DEF IInv, Agreement, Findable, Registered
<1>5. Fresh'
  BY <1>0 DEF IInv, Agreement, Fresh, Registered
<1>6. IndexSound'
  BY <1>0, <1>2 DEF IInv, TypeOK, IndexSound
<1> QED
  BY <1>3, <1>4, <1>5, <1>6 DEF Agreement

\* Registering: the new entry takes the place of the one it replaces.
LEMMA RegisterStep ==
  ASSUME IInv, NEW t \in Txn, Register(t)
  PROVE  Agreement' /\ IndexSound'
<1> DEFINE h == ids[t].hop
           previous == pending[h]
<1>0. /\ h \in Id /\ ids[t].end \in Id /\ t # NoTxn /\ previous \in Txn \cup {NoTxn}
      /\ call[t] = "assigned" /\ fate[t] = "none" /\ ids' = ids
  BY NoneAssumption DEF Register, IInv, Agreement, Fresh, TypeOK, Identifiers
<1>1. previous # NoTxn =>
        /\ previous \in Txn /\ previous # t /\ ids[previous].hop = h
        /\ ids[previous].end \in Id /\ call[previous] \in Registered
        /\ fate[previous] = "none"
  BY <1>0 DEF IInv, Agreement, Tabled, Registered, TypeOK, Identifiers
<1>2. /\ \A k \in Id : pending'[k] = IF k = h THEN t ELSE pending[k]
      /\ \A u \in Txn : call'[u] = IF u = t THEN "registered" ELSE call[u]
      /\ \A u \in Txn : fate'[u] = IF u = previous THEN "replaced" ELSE fate[u]
  <2>1. previous = NoTxn => fate' = fate
    BY DEF Register
  <2>2. previous # NoTxn => fate' = [fate EXCEPT ![previous] = "replaced"]
    BY DEF Register, End
  <2>3. \A u \in Txn : fate'[u] = IF u = previous THEN "replaced" ELSE fate[u]
    BY <2>1, <2>2, <1>0, NoneAssumption DEF IInv, TypeOK
  <2> QED
    BY <1>0, <2>3 DEF Register, IInv, TypeOK
<1>3. \A e \in Id : byEnd'[e] = IF e = ids[t].end THEN h
                     ELSE IF previous # NoTxn /\ e = ids[previous].end THEN NoId
                     ELSE byEnd[e]
  BY <1>0, <1>1 DEF Register, IInv, TypeOK
<1> HIDE DEF h, previous
<1>4. \A k \in Id : k # h /\ pending[k] # NoTxn =>
        /\ pending[k] \in Txn /\ pending[k] # t /\ pending[k] # previous
        /\ ids[pending[k]].hop = k /\ call[pending[k]] \in Registered
        /\ fate[pending[k]] = "none"
  BY <1>0, <1>1 DEF IInv, Agreement, Tabled, TypeOK, Registered
<1>5. Tabled'
  BY <1>0, <1>1, <1>2, <1>4 DEF Tabled, Registered, h
<1>6. Findable'
  <2> SUFFICES ASSUME NEW u \in Txn, call'[u] \in Registered, fate'[u] = "none"
               PROVE  pending'[ids[u].hop] = u
    BY <1>0 DEF Findable
  <2>1. CASE u = t
    BY <2>1, <1>0, <1>2 DEF h
  <2>2. CASE u # t
    <3>1. call[u] \in Registered /\ fate[u] = "none" /\ u # previous
      BY <2>2, <1>2
    <3>2. pending[ids[u].hop] = u /\ ids[u].hop \in Id
      BY <3>1 DEF IInv, Agreement, Findable, TypeOK, Identifiers
    <3> QED
      BY <3>1, <3>2, <1>2 DEF previous
  <2> QED
    BY <2>1, <2>2
<1>7. Fresh'
  BY <1>0, <1>1, <1>2, NoneAssumption DEF IInv, Agreement, Fresh, Registered
<1>8. IndexSound'
  <2> SUFFICES ASSUME NEW e \in Id, byEnd'[e] # NoId
               PROVE  pending'[byEnd'[e]] # NoTxn /\ ids[pending'[byEnd'[e]]].end = e
    BY <1>0 DEF IndexSound
  <2>1. CASE e = ids[t].end
    BY <2>1, <1>0, <1>2, <1>3
  <2>2. CASE e # ids[t].end
    <3>1. byEnd'[e] = byEnd[e] /\ byEnd[e] \in Id /\ ~(previous # NoTxn /\ e = ids[previous].end)
      BY <2>2, <1>3 DEF IInv, TypeOK
    <3>2. pending[byEnd[e]] # NoTxn /\ ids[pending[byEnd[e]]].end = e
      BY <3>1 DEF IInv, IndexSound
    <3>3. byEnd[e] # h
      BY <3>1, <3>2 DEF previous
    <3> QED
      BY <3>1, <3>2, <3>3, <1>2
  <2> QED
    BY <2>1, <2>2
<1> QED
  BY <1>5, <1>6, <1>7, <1>8 DEF Agreement

\* A call of sendRequest() keeps the invariant.
LEMMA SendStepInv ==
  ASSUME IInv, TypeOK', NEW t \in Txn, Assign(t) \/ SendStep(t)
  PROVE  Agreement' /\ IndexSound'
<1>0. call' \in [Txn -> {"idle", "returned", "refused"} \cup Running] /\ TypeOK
  BY DEF TypeOK, IInv
<1>2. CASE Assign(t)
  <2>1. call[t] = "idle" /\ call'[t] = "assigned"
    BY <1>0, <1>2 DEF Assign, TypeOK
  <2>2. \A u \in Txn : u # t => call'[u] = call[u] /\ ids'[u] = ids[u]
    BY <1>0, <1>2 DEF Assign, TypeOK
  <2> QED
    BY <1>0, <1>2, <2>1, <2>2, QuietStep DEF Assign, table, histories
<1>3. CASE Register(t)
  BY <1>3, RegisterStep
<1>4. CASE Arm(t)
  BY <1>0, <1>4, QuietStep DEF Arm, TypeOK, table, histories, Registered
<1>5. CASE PeerSend(t)
  BY <1>0, <1>5, QuietStep DEF PeerSend, TypeOK, table, histories, Registered
<1>6. CASE PeerRefuses(t)
  <2>1. /\ ids' = ids
        /\ \A u \in Txn : call'[u] = IF u = t THEN "refused" ELSE call[u]
    BY <1>0, <1>6 DEF PeerRefuses, TypeOK
  <2>2. CASE pending[ids[t].hop] = t
    <3>1. Erase(t) /\ End(t, "withdrawn")
      BY <1>6, <2>2 DEF PeerRefuses
    <3> QED
      BY <1>0, <2>1, <2>2, <3>1, RemovalStep
  <2>3. CASE pending[ids[t].hop] # t
    <3>1. UNCHANGED <<table, fate>>
      BY <1>6, <2>3 DEF PeerRefuses
    <3> QED
      BY <1>0, <2>1, <2>3, <3>1, QuietStep
  <2> QED
    BY <2>2, <2>3
<1> QED
  BY <1>2, <1>3, <1>4, <1>5, <1>6 DEF SendStep

\* A step of the io thread keeps the invariant.
LEMMA IoStepInv ==
  ASSUME IInv, TypeOK', NEW t \in Txn, TimerExpires(t) \/ TimeoutHandler(t) \/ Answer(t)
  PROVE  Agreement' /\ IndexSound'
<1>0. /\ call' \in [Txn -> {"idle", "returned", "refused"} \cup Running] /\ TypeOK
      /\ call' = call /\ ids' = ids
  BY DEF TypeOK, IInv, TimerExpires, TimeoutHandler, Answer
<1>1. CASE TimerExpires(t)
  BY <1>0, <1>1, QuietStep DEF TimerExpires, table, histories
<1>2. CASE TimeoutHandler(t)
  <2> DEFINE victim == pending[ids[t].hop]
  <2>1. CASE victim = NoTxn
    BY <1>0, <1>2, <2>1, QuietStep DEF TimeoutHandler, table
  <2>2. CASE victim # NoTxn
    <3>1. Erase(victim) /\ End(victim, "expired")
      BY <1>2, <2>2 DEF TimeoutHandler
    <3>2. /\ victim \in Txn /\ ids[victim].hop = ids[t].hop
          /\ fate[victim] = "none"
      BY <1>0, <2>2 DEF TypeOK, Identifiers, IInv, Agreement, Tabled
    <3>3. pending[ids[victim].hop] = victim
      BY <3>2
    <3> HIDE DEF victim
    <3> QED
      BY <1>0, <3>1, <3>2, <3>3, RemovalStep
  <2> QED
    BY <2>1, <2>2
<1>3. CASE Answer(t)
  <2>1. PICK h \in {wireIds[t].hop} \cup Rewrites :
          LET found == Match(h, wireIds[t].end, Command[t])
          IN  IF found = NoTxn
              THEN UNCHANGED <<table, timer, histories>>
              ELSE /\ Erase(found) /\ End(found, "answered")
                   /\ answeredBy' = [answeredBy EXCEPT ![found] = t]
                   /\ timer' = Cancelled({found})
    BY <1>3 DEF Answer
  <2> DEFINE found == Match(h, wireIds[t].end, Command[t])
  <2>2. CASE found = NoTxn
    BY <1>0, <2>1, <2>2, QuietStep DEF table, histories
  <2>3. CASE found # NoTxn
    <3>1. Erase(found) /\ End(found, "answered")
      BY <2>1, <2>3
    <3>2. h \in Id /\ wireIds[t].end \in Id
      BY <1>0, CallerAssumption DEF TypeOK, Identifiers
    <3>3. found \in Txn /\ \E k \in Id : pending[k] = found
      BY <1>0, <2>3, <3>2, MatchIsPending
    <3> HIDE DEF found
    <3>4. pending[ids[found].hop] = found /\ fate[found] = "none"
      BY <2>3, <3>3, OneEntry DEF IInv, Agreement
    <3> QED
      BY <1>0, <3>1, <3>3, <3>4, RemovalStep
  <2> QED
    BY <2>2, <2>3
<1> QED
  BY <1>1, <1>2, <1>3

\* Initially the table is empty and no request has an outcome.
LEMMA InitInv == Init => IInv
<1>1. Init => Agreement /\ IndexSound
  BY DEF Init, Agreement, Tabled, Findable, Fresh, IndexSound, Registered
<1> QED
  BY <1>1, InitTypes DEF IInv

\* Every step keeps the invariant.
LEMMA InvStep == IInv /\ [Next]_vars => IInv'
<1> SUFFICES ASSUME IInv, [Next]_vars PROVE IInv'
  OBVIOUS
<1>0. TypeOK /\ TypeOK' /\ Directed'
  BY TypesStep DEF IInv
<1>1. CASE UNCHANGED vars
  BY <1>0, <1>1 DEF IInv, Agreement, Tabled, Findable, Fresh, IndexSound, vars
<1>2. ASSUME NEW t \in Txn, Assign(t) \/ SendStep(t) PROVE IInv'
  BY <1>0, <1>2, SendStepInv DEF IInv
<1>3. ASSUME NEW t \in Txn, TimerExpires(t) \/ TimeoutHandler(t) \/ Answer(t) PROVE IInv'
  BY <1>0, <1>3, IoStepInv DEF IInv
<1>4. ASSUME NEW p \in Peers, PeerOpens(p) \/ PeerLost(p) PROVE IInv'
  <2>1. UNCHANGED <<call, ids, table, fate>>
    BY <1>4 DEF PeerOpens, PeerLost, histories
  <2>2. call' \in [Txn -> {"idle", "returned", "refused"} \cup Running]
    BY <1>0 DEF TypeOK
  <2>3. Agreement' /\ IndexSound'
    BY <2>1, <2>2, QuietStep
  <2> QED
    BY <1>0, <2>3 DEF IInv
<1> QED
  BY <1>1, <1>2, <1>3, <1>4 DEF Next

\* The strengthened invariant holds throughout: the table of DiameterServer and
\* the calls of sendRequest() agree on which requests are outstanding.
THEOREM ServerTableInvariance == Spec => []IInv
  BY InitInv, InvStep, PTL DEF Spec

\* IndexSound: pendingByE2e_ never leads to a request that has left pending_,
\* or to one of another end-to-end, whichever Peers' requests replace each other.
THEOREM ServerIndexSoundAlways == Spec => []IndexSound
<1>1. IInv => IndexSound
  BY DEF IInv
<1> QED
  BY <1>1, ServerTableInvariance, PTL

(***************************************************************************)
(* The table keeps the promise of module Transactions.                     *)
(***************************************************************************)
\* What a request's status says of its call and its outcome.
LEMMA StatusCases ==
  ASSUME NEW t \in Txn
  PROVE  /\ call[t] \in Registered /\ fate[t] = "none" => StatusOf(t) = "pending"
         /\ call[t] \notin Registered /\ fate[t] = "none" => StatusOf(t) = "new"
  BY DEF StatusOf, Registered

\* A request with the same outcome has the same status, unless it registers
\* or withdraws while it has none.
LEMMA SameStatus ==
  ASSUME NEW t \in Txn, fate'[t] = fate[t],
         fate[t] = "none" => (call'[t] \in Registered <=> call[t] \in Registered)
  PROVE  StatusOf(t)' = StatusOf(t)
  BY DEF StatusOf, Registered

\* A step after which every request has its status is a stutter.
LEMMA Stutter ==
  ASSUME \A t \in Txn : StatusOf(t)' = StatusOf(t)
  PROVE  [Promise!Next]_Statuses
  BY DEF Statuses

\* A pending request that gets an outcome, while all others keep their status,
\* takes a step of the promise.
LEMMA OutcomeStep ==
  ASSUME IInv, NEW v \in Txn, NEW how \in {"answered", "expired", "withdrawn"},
         call[v] \in Registered, fate[v] = "none", End(v, how),
         \A t \in Txn : t # v => call'[t] = call[t]
  PROVE  [Promise!Next]_Statuses
<1>1. /\ fate'[v] = how
      /\ \A t \in Txn : t # v => fate'[t] = fate[t]
  BY DEF End, IInv, TypeOK
<1>2. \A t \in Txn : t # v => StatusOf(t)' = StatusOf(t)
  BY <1>1, SameStatus
<1>3. StatusOf(v) = "pending"
  BY StatusCases
<1>4. CASE how = "withdrawn"
  <2>1. StatusOf(v)' = "dropped"
    BY <1>1, <1>4 DEF StatusOf
  <2>2. {v} \in SUBSET Promise!Pending
    BY <1>3 DEF Promise!Pending, Statuses
  <2>3. Statuses' = Promise!Drop({v})
    BY <1>2, <2>1 DEF Promise!Drop, Statuses
  <2> QED
    BY <2>2, <2>3 DEF Promise!Next
<1>5. CASE how = "answered"
  <2>1. StatusOf(v)' = "answered"
    BY <1>1, <1>5 DEF StatusOf
  <2>2. Promise!Complete(v, "answered")
    BY <1>2, <1>3, <2>1 DEF Promise!Complete, Statuses
  <2> QED
    BY <2>2 DEF Promise!Next
<1>6. CASE how = "expired"
  <2>1. StatusOf(v)' = "timedOut"
    BY <1>1, <1>6 DEF StatusOf
  <2>2. Promise!Complete(v, "timedOut")
    BY <1>2, <1>3, <2>1 DEF Promise!Complete, Statuses
  <2> QED
    BY <2>2 DEF Promise!Next
<1> QED
  BY <1>4, <1>5, <1>6

\* Registering accepts a request, and drops the one it replaces.
LEMMA RegisterPromise ==
  ASSUME IInv, NEW t \in Txn, Register(t)
  PROVE  [Promise!Next]_Statuses
<1> DEFINE previous == pending[ids[t].hop]
           D == {previous} \ {NoTxn}
<1>1. /\ call[t] = "assigned" /\ fate[t] = "none"
      /\ \A u \in Txn : call'[u] = IF u = t THEN "registered" ELSE call[u]
  BY DEF Register, IInv, TypeOK, Agreement, Fresh
<1>2. \A u \in D : u \in Txn /\ u # t /\ call[u] \in Registered /\ fate[u] = "none"
  BY <1>1 DEF IInv, TypeOK, Identifiers, Agreement, Tabled, Registered
<1>3. \A u \in Txn : fate'[u] = IF u \in D THEN "replaced" ELSE fate[u]
  <2>1. previous = NoTxn => fate' = fate
    BY DEF Register
  <2>2. previous # NoTxn => fate' = [fate EXCEPT ![previous] = "replaced"]
    BY DEF Register, End
  <2> QED
    BY <2>1, <2>2, <1>2 DEF IInv, TypeOK
<1> HIDE DEF D
<1>4. StatusOf(t) = "new" /\ \A u \in D : StatusOf(u) = "pending"
  BY <1>1, <1>2, StatusCases DEF Registered
<1>5. StatusOf(t)' = "pending"
  BY <1>1, <1>2, <1>3 DEF StatusOf
<1>6. \A u \in D : StatusOf(u)' = "dropped"
  BY <1>2, <1>3 DEF StatusOf
<1>7. \A u \in Txn : u # t /\ u \notin D => StatusOf(u)' = StatusOf(u)
  BY <1>1, <1>3, SameStatus
<1>8. D \in SUBSET Promise!Pending
  BY <1>2, <1>4 DEF Promise!Pending, Statuses
<1>9. Statuses' = [Promise!Drop(D) EXCEPT ![t] = "pending"]
  BY <1>2, <1>5, <1>6, <1>7 DEF Promise!Drop, Statuses
<1>10. Promise!Accept(t)
  BY <1>4, <1>8, <1>9 DEF Promise!Accept, Statuses
<1> QED
  BY <1>10 DEF Promise!Next

\* Initially every request is new.
LEMMA InitPromise == Init => Promise!Init
  BY DEF Init, Promise!Init, Statuses, StatusOf

\* Every step of the table is a step of the promise, or none.
LEMMA StepPromise == IInv /\ [Next]_vars => [Promise!Next]_Statuses
<1> SUFFICES ASSUME IInv, [Next]_vars PROVE [Promise!Next]_Statuses
  OBVIOUS
<1>0. TypeOK
  BY DEF IInv
<1>1. CASE UNCHANGED <<fate, call>>
  BY <1>1, SameStatus, Stutter
<1>2. CASE UNCHANGED vars
  BY <1>1, <1>2 DEF vars
<1>3. ASSUME NEW t \in Txn, Assign(t) \/ Arm(t) \/ PeerSend(t)
      PROVE  [Promise!Next]_Statuses
  <2>1. /\ fate' = fate
        /\ \A u \in Txn : call'[u] \in Registered <=> call[u] \in Registered
    BY <1>0, <1>3 DEF Assign, Arm, PeerSend, TypeOK, histories, Registered
  <2> QED
    BY <2>1, SameStatus, Stutter
<1>4. ASSUME NEW t \in Txn, Register(t) PROVE [Promise!Next]_Statuses
  BY <1>4, RegisterPromise
<1>5. ASSUME NEW t \in Txn, PeerRefuses(t) PROVE [Promise!Next]_Statuses
  <2>1. /\ call[t] \in Registered
        /\ \A u \in Txn : u # t => call'[u] = call[u]
    BY <1>0, <1>5 DEF PeerRefuses, TypeOK, Registered
  <2>2. CASE pending[ids[t].hop] = t
    <3>1. End(t, "withdrawn")
      BY <1>5, <2>2 DEF PeerRefuses
    <3>2. fate[t] = "none"
      BY <1>0, <2>2, NoneAssumption DEF IInv, Agreement, Tabled, TypeOK, Identifiers
    <3> QED
      BY <2>1, <3>1, <3>2, OutcomeStep
  <2>3. CASE pending[ids[t].hop] # t
    <3>1. fate' = fate
      BY <1>5, <2>3 DEF PeerRefuses
    <3>2. fate[t] # "none"
      BY <2>1, <2>3 DEF IInv, Agreement, Findable
    <3> QED
      BY <2>1, <3>1, <3>2, SameStatus, Stutter
  <2> QED
    BY <2>2, <2>3
<1>6. ASSUME NEW t \in Txn, TimerExpires(t) PROVE [Promise!Next]_Statuses
  BY <1>1, <1>6 DEF TimerExpires, histories
<1>7. ASSUME NEW t \in Txn, TimeoutHandler(t) PROVE [Promise!Next]_Statuses
  <2> DEFINE victim == pending[ids[t].hop]
  <2>1. CASE victim = NoTxn
    BY <1>1, <1>7, <2>1 DEF TimeoutHandler
  <2>2. CASE victim # NoTxn
    <3>1. End(victim, "expired") /\ call' = call
      BY <1>7, <2>2 DEF TimeoutHandler
    <3>2. victim \in Txn /\ call[victim] \in Registered /\ fate[victim] = "none"
      BY <1>0, <2>2 DEF TypeOK, Identifiers, IInv, Agreement, Tabled
    <3> HIDE DEF victim
    <3> QED
      BY <3>1, <3>2, OutcomeStep
  <2> QED
    BY <2>1, <2>2
<1>8. ASSUME NEW t \in Txn, Answer(t) PROVE [Promise!Next]_Statuses
  <2>1. PICK h \in {wireIds[t].hop} \cup Rewrites :
          LET found == Match(h, wireIds[t].end, Command[t])
          IN  IF found = NoTxn
              THEN UNCHANGED <<table, timer, histories>>
              ELSE /\ Erase(found) /\ End(found, "answered")
                   /\ answeredBy' = [answeredBy EXCEPT ![found] = t]
                   /\ timer' = Cancelled({found})
    BY <1>8 DEF Answer
  <2>2. call' = call
    BY <1>8 DEF Answer
  <2> DEFINE found == Match(h, wireIds[t].end, Command[t])
  <2>3. CASE found = NoTxn
    BY <1>1, <2>1, <2>2, <2>3 DEF histories
  <2>4. CASE found # NoTxn
    <3>1. End(found, "answered")
      BY <2>1, <2>4
    <3>2. h \in Id /\ wireIds[t].end \in Id
      BY <1>0, CallerAssumption DEF TypeOK, Identifiers
    <3>3. found \in Txn /\ \E k \in Id : pending[k] = found
      BY <1>0, <2>4, <3>2, MatchIsPending
    <3> HIDE DEF found
    <3>4. call[found] \in Registered /\ fate[found] = "none"
      BY <2>4, <3>3, OneEntry DEF IInv, Agreement
    <3> QED
      BY <2>2, <3>1, <3>3, <3>4, OutcomeStep
  <2> QED
    BY <2>3, <2>4
<1>9. ASSUME NEW p \in Peers, PeerOpens(p) \/ PeerLost(p) PROVE [Promise!Next]_Statuses
  BY <1>1, <1>9 DEF PeerOpens, PeerLost, histories
<1> QED
  BY <1>2, <1>3, <1>4, <1>5, <1>6, <1>7, <1>8, <1>9 DEF Next, SendStep

\* KeepsPromise: whatever the table, its index and its timers do, a request
\* that sendRequest() has registered is answered, timed out or dropped, once, and by
\* a step that completes no other.
THEOREM ServerKeepsPromise == Spec => KeepsPromise
  BY InitPromise, StepPromise, ServerTableInvariance, PTL DEF Spec, KeepsPromise, Promise!Spec

(***************************************************************************)
(* Correlation, as the client's (ClientTransactions_proofs), with one      *)
(* counter of hop-by-hop identifiers per Peer: those of requests to one    *)
(* Peer are apart, those of requests to two Peers need not be.             *)
(***************************************************************************)
\* The requests that have been given identifiers, and those written with them.
Given == {t \in Txn : call[t] # "idle"}
Returned == {t \in Txn : call[t] = "returned"}
GivenOn(p) == {t \in Given : leg[t] = p}
ReturnedOn(p) == {t \in Returned : leg[t] = p}

HopOf == [t \in Txn |-> ids[t].hop]
EndOf == [t \in Txn |-> ids[t].end]
WireHop == [t \in Txn |-> wireIds[t].hop]
WireEnd == [t \in Txn |-> wireIds[t].end]

EndsApart == Apart(EndOf, WireEnd, Given, Returned)

\* An answer that comes back with another hop-by-hop does not hit on the one
\* of another request.
LegsApart ==
  /\ \A p \in Peers : Apart(HopOf, WireHop, GivenOn(p), ReturnedOn(p))
  /\ \A t \in Given : ids[t].hop \notin Rewrites

\* An answer is one to a request that was written, and completes one that was
\* given identifiers: these and the Peers they went to are settled.
Settled ==
  \A t \in Txn : answeredBy[t] # NoTxn => t \in Given /\ answeredBy[t] \in Returned

\* Whoever chose its hop-by-hop, a request is completed by its own answer or by
\* one to another Peer's request of that hop-by-hop.
HomeOrOtherLeg ==
  \A t \in Txn : answeredBy[t] \notin {NoTxn, t} =>
    leg[answeredBy[t]] # leg[t] /\ wireIds[answeredBy[t]].hop = ids[t].hop

Correlated == Settled /\ (EndsApart /\ LegsApart => HomeOrOtherLeg)

\* What a step does to the requests that have identifiers.
GivesTo(t) == Assign(t) /\ Given' = Given \cup {t} /\ Returned' = Returned
Writes(t) == PeerSend(t) /\ Given' = Given /\ Returned' = Returned \cup {t}
GivesNone == Given' = Given /\ Returned' = Returned /\ UNCHANGED <<nextHop, nextEnd>>

\* A step draws from the counters for one request at most, which it gives its
\* first identifiers or writes, and what has been given or written stays.
LEMMA GivenStep ==
  ASSUME IInv, [Next]_vars
  PROVE  /\ \/ GivesNone
            \/ \E t \in Txn \ Given : GivesTo(t)
            \/ \E t \in Given \ Returned : Writes(t)
         /\ \A u \in Given : ids'[u] = ids[u] /\ leg'[u] = leg[u]
         /\ \A u \in Returned : wireIds'[u] = wireIds[u]
<1>0. TypeOK
  BY DEF IInv
<1> USE DEF Given, Returned
<1>1. ASSUME NEW t \in Txn, Assign(t)
      PROVE  /\ t \notin Given /\ GivesTo(t) /\ wireIds' = wireIds
             /\ \A u \in Txn : u # t => ids'[u] = ids[u] /\ leg'[u] = leg[u]
  <2>1. /\ call[t] = "idle" /\ wireIds' = wireIds
        /\ \A u \in Txn : call'[u] = IF u = t THEN "assigned" ELSE call[u]
    BY <1>0, <1>1 DEF Assign, TypeOK
  <2>2. \A u \in Txn : u # t => ids'[u] = ids[u] /\ leg'[u] = leg[u]
    BY <1>0, <1>1 DEF Assign, TypeOK
  <2>3. Given' = Given \cup {t} /\ Returned' = Returned
    BY <2>1
  <2> QED
    BY <1>1, <2>1, <2>2, <2>3 DEF GivesTo
<1>2. ASSUME NEW t \in Txn, PeerSend(t)
      PROVE  /\ t \in Given \ Returned /\ Writes(t) /\ ids' = ids /\ leg' = leg
             /\ \A u \in Txn : u # t => wireIds'[u] = wireIds[u]
  <2>1. /\ call[t] = "armed" /\ ids' = ids /\ leg' = leg
        /\ \A u \in Txn : call'[u] = IF u = t THEN "returned" ELSE call[u]
    BY <1>0, <1>2 DEF PeerSend, TypeOK
  <2>2. \A u \in Txn : u # t => wireIds'[u] = wireIds[u]
    BY <1>0, <1>2 DEF PeerSend, TypeOK
  <2>3. Given' = Given /\ Returned' = Returned \cup {t}
    BY <2>1
  <2> QED
    BY <1>2, <2>1, <2>2, <2>3 DEF Writes
<1>3. ASSUME NEW t \in Txn, Register(t) \/ Arm(t) \/ PeerRefuses(t)
      PROVE  GivesNone /\ UNCHANGED <<ids, leg, wireIds>>
  <2>1. /\ call[t] \in Running /\ call'[t] \notin {"idle", "returned"}
        /\ \A u \in Txn : u # t => call'[u] = call[u]
        /\ UNCHANGED <<ids, leg, wireIds, nextHop, nextEnd>>
    BY <1>0, <1>3 DEF Register, Arm, PeerRefuses, TypeOK, Running, counters
  <2>2. Given' = Given /\ Returned' = Returned
    BY <2>1 DEF Running
  <2> QED
    BY <2>1, <2>2 DEF GivesNone
<1>4. ASSUME UNCHANGED <<call, leg, ids, wireIds, counters>>
      PROVE  GivesNone /\ UNCHANGED <<ids, leg, wireIds>>
  BY <1>4 DEF GivesNone, counters
<1>5. ASSUME NEW t \in Txn, TimerExpires(t) \/ TimeoutHandler(t) \/ Answer(t)
      PROVE  GivesNone /\ UNCHANGED <<ids, leg, wireIds>>
  BY <1>4, <1>5 DEF TimerExpires, TimeoutHandler, Answer
<1>6. ASSUME NEW p \in Peers, PeerOpens(p) \/ PeerLost(p)
      PROVE  GivesNone /\ UNCHANGED <<ids, leg, wireIds>>
  BY <1>4, <1>6 DEF PeerOpens, PeerLost
<1>7. CASE UNCHANGED vars
  BY <1>4, <1>7 DEF vars, counters
<1> QED
  BY <1>1, <1>2, <1>3, <1>5, <1>6, <1>7 DEF Next, SendStep

\* Identifiers that are apart after a step were apart before it.
LEMMA ApartBefore ==
  ASSUME IInv, [Next]_vars
  PROVE  (EndsApart' => EndsApart) /\ (LegsApart' => LegsApart)
<1>1. /\ Given \subseteq Given' /\ Returned \subseteq Returned'
      /\ Given \subseteq Txn /\ Returned \subseteq Given
  BY GivenStep DEF GivesNone, GivesTo, Writes, Given, Returned
<1>2. /\ \A u \in Given : EndOf'[u] = EndOf[u] /\ HopOf'[u] = HopOf[u] /\ leg'[u] = leg[u]
      /\ \A u \in Returned : WireEnd'[u] = WireEnd[u] /\ WireHop'[u] = WireHop[u]
  BY <1>1, GivenStep DEF EndOf, HopOf, WireEnd, WireHop
<1>3. ASSUME EndsApart' PROVE EndsApart
  BY <1>1, <1>2, <1>3 DEF EndsApart, Apart
<1>4. ASSUME LegsApart' PROVE LegsApart
  <2>1. ASSUME NEW p \in Peers
        PROVE  Apart(HopOf, WireHop, GivenOn(p), ReturnedOn(p))
    <3>1. Apart(HopOf', WireHop', GivenOn(p)', ReturnedOn(p)')
      BY <1>4 DEF LegsApart
    <3>2. GivenOn(p) \subseteq GivenOn(p)' /\ ReturnedOn(p) \subseteq ReturnedOn(p)'
      BY <1>1, <1>2 DEF GivenOn, ReturnedOn
    <3>3. GivenOn(p) \subseteq Given /\ ReturnedOn(p) \subseteq Returned
      BY DEF GivenOn, ReturnedOn
    <3> QED
      BY <1>2, <3>1, <3>2, <3>3 DEF Apart
  <2>2. \A t \in Given : ids[t].hop \notin Rewrites
    BY <1>1, <1>4, GivenStep DEF LegsApart
  <2> QED
    BY <2>1, <2>2 DEF LegsApart
<1> QED
  BY <1>3, <1>4

\* What an answer matches, while identifiers are apart: nothing, the request it
\* answers, or one to another Peer with its hop-by-hop.
LEMMA MatchOnLeg ==
  ASSUME IInv, EndsApart, LegsApart, NEW t \in Returned,
         NEW h \in {wireIds[t].hop} \cup Rewrites, NEW c, NEW found,
         found = Match(h, wireIds[t].end, c), found # NoTxn
  PROVE  /\ found \in Given
         /\ found # t => leg[t] # leg[found] /\ wireIds[t].hop = ids[found].hop
<1> DEFINE e == wireIds[t].end
<1>0. t \in Txn /\ t \in Given /\ h \in Id /\ e \in Id
  BY CallerAssumption DEF IInv, TypeOK, Identifiers, Given, Returned
<1>1. \A k \in Id : pending[k] # NoTxn =>
        pending[k] \in Given /\ ids[pending[k]].hop = k
  BY DEF IInv, TypeOK, Agreement, Tabled, Given, Registered
<1>2. CASE found = pending[h]
  <2>1. found \in Given /\ ids[found].hop = h
    BY <1>0, <1>1, <1>2
  <2>2. h = wireIds[t].hop
    BY <2>1 DEF LegsApart
  <2>3. ASSUME found # t, leg[t] = leg[found] PROVE FALSE
    <3>1. leg[t] \in Peers
      BY <1>0 DEF IInv, Directed, Given
    <3>2. t \in ReturnedOn(leg[t]) /\ t \in GivenOn(leg[t]) /\ found \in GivenOn(leg[t])
      BY <1>0, <2>1, <2>3 DEF ReturnedOn, GivenOn
    <3>3. WireHop[t] # HopOf[found]
      BY <2>3, <3>1, <3>2 DEF LegsApart, Apart
    <3> QED
      BY <1>0, <2>1, <2>2, <3>3 DEF WireHop, HopOf, Given
  <2> QED
    BY <2>1, <2>2, <2>3
<1>3. CASE found # pending[h]
  <2>1. byEnd[e] # NoId /\ found = pending[byEnd[e]]
    BY <1>3 DEF Match
  <2>2. byEnd[e] \in Id /\ pending[byEnd[e]] # NoTxn /\ ids[pending[byEnd[e]]].end = e
    BY <1>0, <2>1 DEF IInv, TypeOK, IndexSound
  <2>3. pending[byEnd[e]] \in Given
    BY <1>1, <2>2
  <2>4. \A u \in Given : u # t => ids[u].end # e
    BY <1>0 DEF EndsApart, Apart, EndOf, WireEnd, Given
  <2> QED
    BY <2>1, <2>2, <2>3, <2>4
<1> QED
  BY <1>2, <1>3

\* A step in which no answer completes a request.
LEMMA NotAnswered ==
  ASSUME [Next]_vars, \A t \in Txn : ~Answer(t)
  PROVE  answeredBy' = answeredBy
<1>1. ASSUME NEW t \in Txn, Assign(t) \/ SendStep(t) \/ TimerExpires(t) \/ TimeoutHandler(t)
      PROVE  answeredBy' = answeredBy
  BY <1>1 DEF Assign, SendStep, Register, Arm, PeerSend, PeerRefuses, TimerExpires,
              TimeoutHandler, histories
<1>2. ASSUME NEW p \in Peers, PeerOpens(p) \/ PeerLost(p)
      PROVE  answeredBy' = answeredBy
  BY <1>2 DEF PeerOpens, PeerLost, histories
<1>3. CASE UNCHANGED vars
  BY <1>3 DEF vars
<1> QED
  BY <1>1, <1>2, <1>3 DEF Next

\* Answers to requests that have been written complete requests that have been
\* given identifiers, the right one on each leg.
LEMMA CorrelatedStep ==
  ASSUME IInv, Correlated, [Next]_vars
  PROVE  Correlated'
<1>0. /\ TypeOK /\ Given \subseteq Given' /\ Returned \subseteq Returned'
      /\ Given \subseteq Txn /\ Returned \subseteq Given
  BY GivenStep DEF GivesNone, GivesTo, Writes, Given, Returned, IInv
<1>1. /\ \A u \in Given : ids'[u] = ids[u] /\ leg'[u] = leg[u]
      /\ \A u \in Returned : wireIds'[u] = wireIds[u] /\ leg'[u] = leg[u]
  BY <1>0, GivenStep
<1>2. (EndsApart /\ LegsApart)' => EndsApart /\ LegsApart /\ HomeOrOtherLeg
  BY ApartBefore DEF Correlated
<1>3. CASE answeredBy' = answeredBy
  <2>1. Settled'
    BY <1>0, <1>3 DEF Correlated, Settled
  <2>2. HomeOrOtherLeg => HomeOrOtherLeg'
    BY <1>1, <1>3 DEF Correlated, Settled, HomeOrOtherLeg
  <2> QED
    BY <1>2, <2>1, <2>2 DEF Correlated
<1>4. ASSUME NEW u \in Txn, Answer(u) PROVE Correlated'
  <2>1. PICK h \in {wireIds[u].hop} \cup Rewrites :
          LET found == Match(h, wireIds[u].end, Command[u])
          IN  IF found = NoTxn
              THEN UNCHANGED <<table, timer, histories>>
              ELSE /\ Erase(found) /\ End(found, "answered")
                   /\ answeredBy' = [answeredBy EXCEPT ![found] = u]
                   /\ timer' = Cancelled({found})
    BY <1>4 DEF Answer
  <2> DEFINE found == Match(h, wireIds[u].end, Command[u])
  <2>2. CASE found = NoTxn
    BY <1>3, <2>1, <2>2 DEF histories
  <2>3. CASE found # NoTxn
    <3>1. answeredBy' = [answeredBy EXCEPT ![found] = u]
      BY <2>1, <2>3
    <3>2. u \in Returned
      BY <1>4 DEF Answer, Returned
    <3>3. h \in Id /\ wireIds[u].end \in Id
      BY <1>0, CallerAssumption DEF TypeOK, Identifiers
    <3>4. found \in Txn /\ \E k \in Id : pending[k] = found
      BY <1>0, <2>3, <3>3, MatchIsPending
    <3>5. EndsApart /\ LegsApart =>
            (found # u => leg[u] # leg[found] /\ wireIds[u].hop = ids[found].hop)
      BY <2>3, <3>2, MatchOnLeg
    <3> HIDE DEF found
    <3>6. found \in Given
      BY <2>3, <3>4 DEF IInv, Agreement, Tabled, Registered, Given
    <3>7. \A t \in Txn : answeredBy'[t] = IF t = found THEN u ELSE answeredBy[t]
      BY <1>0, <3>1 DEF TypeOK
    <3>8. Settled'
      BY <1>0, <3>2, <3>6, <3>7 DEF Correlated, Settled
    <3>9. ASSUME (EndsApart /\ LegsApart)' PROVE HomeOrOtherLeg'
      <4>1. HomeOrOtherLeg /\ EndsApart /\ LegsApart
        BY <1>2, <3>9
      <4> SUFFICES ASSUME NEW t \in Txn, answeredBy'[t] \notin {NoTxn, t}
                   PROVE  /\ leg'[answeredBy'[t]] # leg'[t]
                          /\ wireIds'[answeredBy'[t]].hop = ids'[t].hop
        BY DEF HomeOrOtherLeg
      <4>2. CASE t = found
        BY <1>1, <3>2, <3>5, <3>6, <3>7, <4>1, <4>2
      <4>3. CASE t # found
        BY <1>1, <3>7, <4>1, <4>3 DEF HomeOrOtherLeg, Correlated, Settled
      <4> QED
        BY <4>2, <4>3
    <3> QED
      BY <3>8, <3>9 DEF Correlated
  <2> QED
    BY <2>2, <2>3
<1> QED
  BY <1>3, <1>4, NotAnswered

\* Correlated: whatever identifiers callers and seeds bring, while end-to-end
\* identifiers are apart, and hop-by-hop identifiers on each Peer, an answer
\* completes its own request or one to another Peer.
THEOREM ServerCorrelation == Spec => []Correlated
<1>1. Init => Correlated
  BY DEF Init, Correlated, Settled, HomeOrOtherLeg
<1>2. IInv /\ Correlated /\ [Next]_vars => Correlated'
  BY CorrelatedStep
<1> QED
  BY <1>1, <1>2, ServerTableInvariance, PTL DEF Spec

\* SameLegGoesHome: while identifiers are apart on each Peer, resolve matches
\* an answer to the request it answers, or to another Peer's of that hop-by-hop.
THEOREM SameLegGoesHomeWhileApart ==
  Spec => [](EndsApart /\ LegsApart => HomeOrOtherLeg /\ SameLegGoesHome)
<1>1. Correlated => (EndsApart /\ LegsApart => HomeOrOtherLeg)
  BY DEF Correlated
<1>2. HomeOrOtherLeg => SameLegGoesHome
  BY DEF HomeOrOtherLeg, SameLegGoesHome
<1> QED
  BY <1>1, <1>2, ServerCorrelation, PTL

(***************************************************************************)
(* Identifiers from the counters: the node's for end-to-ends, each Peer's  *)
(* for hop-by-hops.                                                        *)
(***************************************************************************)
\* Callers leave identifiers to the counters, no counter comes round, and no
\* answer comes back with a hop-by-hop that is going to be drawn.
FromCounters ==
  /\ CallerEnds = {0} /\ \A t \in Txn : CallerHops[t] = {0}
  /\ IsFiniteSet(Txn) /\ Cardinality(Txn) + 1 < IdMod
  /\ \A h \in Rewrites, p \in Peers : Offset(IdMod, FirstHop[p], h) > Cardinality(Txn)

DrawnEnds == Drawn(IdMod, FirstEnd, nextEnd, EndOf, WireEnd, Given, Returned)
DrawnHops ==
  \A p \in Peers :
    Drawn(IdMod, FirstHop[p], nextHop[p], HopOf, WireHop, GivenOn(p), ReturnedOn(p))

\* No more requests have identifiers than there are.
LEMMA GivenFinite ==
  ASSUME FromCounters, NEW S \in SUBSET Txn
  PROVE  /\ IsFiniteSet(S) /\ Cardinality(S) \in Nat /\ Cardinality(S) + 1 < IdMod
         /\ Cardinality(S) <= Cardinality(Txn) /\ Cardinality(Txn) \in Nat
<1>1. IsFiniteSet(S) /\ Cardinality(S) <= Cardinality(Txn)
  BY FS_Subset DEF FromCounters
<1> QED
  BY <1>1, FS_CardinalityType, IdAssumption DEF FromCounters

\* A call draws end-to-ends from the node's counter, and hop-by-hops from its
\* Peer's and from no other.
LEMMA StepDraws ==
  ASSUME FromCounters, IInv, [Next]_vars
  PROVE  /\ Draws(IdMod, nextEnd, nextEnd', EndOf, EndOf', WireEnd, WireEnd',
                  Given, Given', Returned, Returned')
         /\ \A p \in Peers :
              Draws(IdMod, nextHop[p], nextHop'[p], HopOf, HopOf', WireHop, WireHop',
                    GivenOn(p), GivenOn(p)', ReturnedOn(p), ReturnedOn(p)')
<1>1. /\ Returned \subseteq Given
      /\ \A u \in Given : EndOf'[u] = EndOf[u] /\ HopOf'[u] = HopOf[u] /\ leg'[u] = leg[u]
      /\ \A u \in Returned : /\ WireEnd'[u] = WireEnd[u] /\ WireHop'[u] = WireHop[u]
                             /\ leg'[u] = leg[u]
  BY GivenStep DEF EndOf, HopOf, WireEnd, WireHop, Given, Returned
<1>2. /\ \A u \in Txn : EndOf[u] = ids[u].end /\ HopOf[u] = ids[u].hop
      /\ \A u \in Txn : EndOf'[u] = ids'[u].end /\ HopOf'[u] = ids'[u].hop
      /\ \A u \in Txn : WireEnd'[u] = wireIds'[u].end /\ WireHop'[u] = wireIds'[u].hop
  BY DEF EndOf, HopOf, WireEnd, WireHop
<1>3. \A p \in Peers : /\ ReturnedOn(p) \subseteq GivenOn(p)
                       /\ GivenOn(p) \subseteq Given /\ ReturnedOn(p) \subseteq Returned
  BY <1>1 DEF GivenOn, ReturnedOn
<1>4. nextHop \in [Peers -> Id]
  BY DEF IInv, TypeOK
<1>5. CASE GivesNone
  <2>1. \A p \in Peers : GivenOn(p)' = GivenOn(p) /\ ReturnedOn(p)' = ReturnedOn(p)
    BY <1>1, <1>5 DEF GivenOn, ReturnedOn, GivesNone
  <2> QED
    BY <1>1, <1>3, <1>5, <2>1 DEF Draws, GivesNone
<1>6. ASSUME NEW t \in Txn \ Given, GivesTo(t)
      PROVE  /\ Draws(IdMod, nextEnd, nextEnd', EndOf, EndOf', WireEnd, WireEnd',
                      Given, Given', Returned, Returned')
             /\ \A p \in Peers :
                  Draws(IdMod, nextHop[p], nextHop'[p], HopOf, HopOf', WireHop, WireHop',
                        GivenOn(p), GivenOn(p)', ReturnedOn(p), ReturnedOn(p)')
  <2>1. PICK q \in Peers :
          /\ ids' = [ids EXCEPT ![t] = Assigned(q, [hop |-> 0, end |-> 0])]
          /\ leg' = [leg EXCEPT ![t] = q]
          /\ Draw(q, [hop |-> 0, end |-> 0])
    <3>1. CallerHops[t] = {0} /\ CallerEnds = {0}
      BY DEF FromCounters, Given
    <3> QED
      BY <1>6, <3>1 DEF GivesTo, Assign
  <2>2. /\ EndOf'[t] = nextEnd /\ nextEnd' = (nextEnd + 1) % IdMod
        /\ HopOf'[t] = nextHop[q] /\ leg'[t] = q
        /\ nextHop' = [nextHop EXCEPT ![q] = (@ + 1) % IdMod]
    BY <1>2, <2>1 DEF Assigned, Draw, Increment, IInv, TypeOK
  <2>3. Given' = Given \cup {t} /\ Returned' = Returned
    BY <1>6 DEF GivesTo
  <2>4. Draws(IdMod, nextEnd, nextEnd', EndOf, EndOf', WireEnd, WireEnd',
              Given, Given', Returned, Returned')
    BY <1>1, <2>2, <2>3 DEF Draws
  <2>5. ASSUME NEW p \in Peers
        PROVE  Draws(IdMod, nextHop[p], nextHop'[p], HopOf, HopOf', WireHop, WireHop',
                     GivenOn(p), GivenOn(p)', ReturnedOn(p), ReturnedOn(p)')
    <3>1. /\ GivenOn(p)' = IF p = q THEN GivenOn(p) \cup {t} ELSE GivenOn(p)
          /\ ReturnedOn(p)' = ReturnedOn(p)
      BY <1>1, <2>2, <2>3 DEF GivenOn, ReturnedOn
    <3>2. t \notin GivenOn(p)
      BY DEF GivenOn
    <3>3. nextHop'[p] = IF p = q THEN (nextHop[p] + 1) % IdMod ELSE nextHop[p]
      BY <1>4, <2>2
    <3> QED
      BY <1>1, <1>3, <2>2, <3>1, <3>2, <3>3 DEF Draws
  <2> QED
    BY <2>4, <2>5
<1>7. ASSUME NEW t \in Given \ Returned, Writes(t)
      PROVE  /\ Draws(IdMod, nextEnd, nextEnd', EndOf, EndOf', WireEnd, WireEnd',
                      Given, Given', Returned, Returned')
             /\ \A p \in Peers :
                  Draws(IdMod, nextHop[p], nextHop'[p], HopOf, HopOf', WireHop, WireHop',
                        GivenOn(p), GivenOn(p)', ReturnedOn(p), ReturnedOn(p)')
  <2> DEFINE q == leg[t]
  <2>0. t \in Txn /\ q \in Peers
    BY DEF Given, IInv, Directed
  <2>1. /\ wireIds'[t] = Assigned(q, ids[t]) /\ Draw(q, ids[t])
        /\ Given' = Given /\ Returned' = Returned \cup {t} /\ leg' = leg
    BY <1>7, <2>0 DEF Writes, PeerSend, IInv, TypeOK
  <2> HIDE DEF q
  <2>2. /\ WireEnd'[t] = IF EndOf[t] = 0 THEN nextEnd ELSE EndOf[t]
        /\ nextEnd' = IF EndOf[t] = 0 THEN (nextEnd + 1) % IdMod ELSE nextEnd
        /\ WireHop'[t] = IF HopOf[t] = 0 THEN nextHop[q] ELSE HopOf[t]
        /\ nextHop' = IF HopOf[t] = 0 THEN [nextHop EXCEPT ![q] = (@ + 1) % IdMod] ELSE nextHop
    BY <1>2, <2>0, <2>1 DEF Assigned, Draw, Increment
  <2>3. Draws(IdMod, nextEnd, nextEnd', EndOf, EndOf', WireEnd, WireEnd',
              Given, Given', Returned, Returned')
    BY <1>1, <2>1, <2>2 DEF Draws
  <2>4. ASSUME NEW p \in Peers
        PROVE  Draws(IdMod, nextHop[p], nextHop'[p], HopOf, HopOf', WireHop, WireHop',
                     GivenOn(p), GivenOn(p)', ReturnedOn(p), ReturnedOn(p)')
    <3>1. /\ GivenOn(p)' = GivenOn(p)
          /\ ReturnedOn(p)' = IF p = q THEN ReturnedOn(p) \cup {t} ELSE ReturnedOn(p)
      BY <2>1 DEF GivenOn, ReturnedOn, q
    <3>2. p = q => t \in GivenOn(p) \ ReturnedOn(p)
      BY DEF GivenOn, ReturnedOn, q
    <3>3. nextHop'[p] = IF p = q /\ HopOf[t] = 0 THEN (nextHop[p] + 1) % IdMod ELSE nextHop[p]
      BY <1>4, <2>2
    <3> QED
      BY <1>1, <1>3, <2>2, <3>1, <3>2, <3>3 DEF Draws
  <2> QED
    BY <2>3, <2>4
<1> QED
  BY <1>5, <1>6, <1>7, GivenStep

\* No counter has moved and no request has identifiers at the start.
LEMMA InitDrawn == Init => DrawnEnds /\ DrawnHops
<1> SUFFICES ASSUME Init PROVE DrawnEnds /\ DrawnHops
  OBVIOUS
<1>1. Given = {} /\ Returned = {} /\ nextEnd = FirstEnd /\ nextHop = FirstHop
  BY DEF Init, Given, Returned
<1>2. \A p \in Peers : GivenOn(p) = {} /\ ReturnedOn(p) = {}
  BY <1>1 DEF GivenOn, ReturnedOn
<1>3. /\ FirstEnd \in 0 .. (IdMod - 1)
      /\ \A p \in Peers : FirstHop[p] \in 0 .. (IdMod - 1)
  BY SeedAssumption DEF Id
<1> QED
  BY <1>1, <1>2, <1>3, NoneDrawn, IdAssumption DEF DrawnEnds, DrawnHops

\* Each counter stays ahead of what it has given.
LEMMA CountersStep ==
  ASSUME FromCounters, IInv, DrawnEnds, DrawnHops, [Next]_vars
  PROVE  DrawnEnds' /\ DrawnHops'
<1>1. /\ IdMod \in Nat \ {0, 1} /\ FirstEnd \in 0 .. (IdMod - 1)
      /\ \A p \in Peers : FirstHop[p] \in 0 .. (IdMod - 1)
  BY IdAssumption, SeedAssumption DEF Id
<1>2. Given' \in SUBSET Txn /\ \A p \in Peers : GivenOn(p)' \in SUBSET Txn
  BY DEF Given, GivenOn
<1>3. DrawnEnds'
  <2>1. Draws(IdMod, nextEnd, nextEnd', EndOf, EndOf', WireEnd, WireEnd',
              Given, Given', Returned, Returned')
    BY StepDraws
  <2>2. IsFiniteSet(Given') /\ Cardinality(Given') + 1 < IdMod
    BY <1>2, GivenFinite
  <2> QED
    BY <1>1, <2>1, <2>2, DrawnStep DEF DrawnEnds
<1>4. ASSUME NEW p \in Peers
      PROVE  Drawn(IdMod, FirstHop[p], nextHop'[p], HopOf', WireHop', GivenOn(p)', ReturnedOn(p)')
  <2>1. Draws(IdMod, nextHop[p], nextHop'[p], HopOf, HopOf', WireHop, WireHop',
              GivenOn(p), GivenOn(p)', ReturnedOn(p), ReturnedOn(p)')
    BY StepDraws
  <2>2. IsFiniteSet(GivenOn(p)') /\ Cardinality(GivenOn(p)') + 1 < IdMod
    BY <1>2, GivenFinite
  <2>3. Drawn(IdMod, FirstHop[p], nextHop[p], HopOf, WireHop, GivenOn(p), ReturnedOn(p))
    BY DEF DrawnHops
  <2> QED
    BY <1>1, <2>1, <2>2, <2>3, DrawnStep
<1> QED
  BY <1>3, <1>4 DEF DrawnHops

\* The identifiers of fewer requests than the counters have values are apart on
\* each Peer, through the counters' wrap, and no answer hits on them.
THEOREM CountersApart ==
  ASSUME FromCounters
  PROVE  Spec => [](EndsApart /\ LegsApart)
<1>1. Init => DrawnEnds /\ DrawnHops
  BY InitDrawn
<1>2. IInv /\ DrawnEnds /\ DrawnHops /\ [Next]_vars => DrawnEnds' /\ DrawnHops'
  BY CountersStep
<1>3. IInv /\ DrawnEnds /\ DrawnHops => EndsApart /\ LegsApart
  <2> SUFFICES ASSUME IInv, DrawnEnds, DrawnHops PROVE EndsApart /\ LegsApart
    OBVIOUS
  <2>1. EndsApart
    BY DEF DrawnEnds, Drawn, EndsApart
  <2>2. \A p \in Peers : Apart(HopOf, WireHop, GivenOn(p), ReturnedOn(p))
    BY DEF DrawnHops, Drawn
  <2>3. ASSUME NEW t \in Given
        PROVE  ids[t].hop \notin Rewrites
    <3> DEFINE p == leg[t]
    <3>1. t \in Txn /\ p \in Peers /\ t \in GivenOn(p) /\ HopOf[t] = ids[t].hop
      BY DEF IInv, Directed, Given, GivenOn, HopOf
    <3> HIDE DEF p
    <3>2. GivenOn(p) \in SUBSET Txn
      BY DEF GivenOn, Given
    <3>3. /\ IdMod \in Nat \ {0, 1} /\ FirstHop[p] \in 0 .. (IdMod - 1)
          /\ Drawn(IdMod, FirstHop[p], nextHop[p], HopOf, WireHop, GivenOn(p), ReturnedOn(p))
      BY <3>1, IdAssumption, SeedAssumption DEF DrawnHops, Id
    <3>4. /\ IsFiniteSet(GivenOn(p)) /\ Cardinality(GivenOn(p)) \in Nat
          /\ Cardinality(GivenOn(p)) <= Cardinality(Txn) /\ Cardinality(Txn) \in Nat
      BY <3>2, GivenFinite
    <3>5. Offset(IdMod, FirstHop[p], HopOf[t]) \in 0 .. Cardinality(GivenOn(p))
      BY <3>1, <3>3, <3>4, DrawnNear
    <3> QED
      BY <3>1, <3>4, <3>5 DEF FromCounters
  <2> QED
    BY <2>1, <2>2, <2>3 DEF LegsApart
<1> QED
  BY <1>1, <1>2, <1>3, ServerTableInvariance, PTL DEF Spec

\* SameLegGoesHome, with all identifiers from the counters.
THEOREM SameLegGoesHomeFromCounters ==
  ASSUME FromCounters
  PROVE  Spec => []SameLegGoesHome
  BY CountersApart, SameLegGoesHomeWhileApart, PTL
=============================================================================
