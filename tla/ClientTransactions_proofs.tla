---------------------- MODULE ClientTransactions_proofs ----------------------
(***************************************************************************)
(* Theorems about ClientTransactions for every set of requests, every      *)
(* modulus, and whatever identifiers callers and answers bring.            *)
(*                                                                         *)
(* IndexSound and OneCompletion are not inductive alone.  What they rest   *)
(* on is that the table and the calls agree: an entry belongs to a request *)
(* of that hop-by-hop that has registered and has had no outcome (Tabled), *)
(* a registered request without an outcome has its entry (Findable), and a *)
(* request that has not registered has no outcome (Fresh).                 *)
(*                                                                         *)
(* IndexComplete, AnswerGoesHome and OwnTimeout need identifiers that are  *)
(* apart, which is said of them first and then proved of the counters'.    *)
(***************************************************************************)
EXTENDS ClientTransactions, DrawnIds_proofs, TLAPS

Registered == {"registered", "armed", "returned"}

Tabled ==
  \A h \in Id : pending[h] # NoTxn =>
    /\ ids[pending[h]].hop = h
    /\ call[pending[h]] \in Registered
    /\ fate[pending[h]] = "none"

Findable ==
  \A t \in Txn : call[t] \in Registered /\ fate[t] = "none" =>
    pending[ids[t].hop] = t

Fresh == \A t \in Txn : call[t] \in {"idle", "assigned"} => fate[t] = "none"

Agreement == Tabled /\ Findable /\ Fresh

IInv == TypeOK /\ Agreement /\ IndexSound /\ OneCompletion

(***************************************************************************)
(* Types.                                                                  *)
(***************************************************************************)
\* A counter of the node stays an identifier when it is drawn from.
LEMMA IncrementType == \A n \in Id : Increment(n) \in Id
<1>1. IdMod \in Nat /\ IdMod > 0
  BY IdAssumption
<1>2. \A m \in Nat : m % IdMod \in 0 .. (IdMod - 1)
  BY <1>1
<1> QED
  BY <1>1, <1>2 DEF Increment, Id

\* Zero is an identifier, and every identifier is a natural number.
LEMMA ZeroIsId == 0 \in Id /\ Id \subseteq Nat
  BY IdAssumption DEF Id

\* What assigning identifiers to a request produces is identifiers, and the
\* counters remain identifiers.
LEMMA AssignedTypes ==
  ASSUME TypeOK, NEW i \in Identifiers
  PROVE  /\ Assigned(i) \in Identifiers
         /\ Draw(i) => nextHop' \in Id /\ nextEnd' \in Id
<1>1. nextHop \in Id /\ nextEnd \in Id /\ i.hop \in Id /\ i.end \in Id
  BY DEF TypeOK, Identifiers
<1>2. Increment(nextHop) \in Id /\ Increment(nextEnd) \in Id
  BY <1>1, IncrementType
<1>3. Assigned(i) \in Identifiers
  BY <1>1 DEF Assigned, Identifiers
<1>4. Draw(i) => nextHop' \in Id /\ nextEnd' \in Id
  BY <1>1, <1>2 DEF Draw
<1> QED
  BY <1>3, <1>4

TimerStates == {"none", "armed", "expired", "done", "off"}

\* Cancelling timers gives states of timers.
LEMMA CancelledType ==
  ASSUME TypeOK, NEW T
  PROVE  Cancelled(T) \in [Txn -> TimerStates]
  BY DEF TypeOK, Cancelled, TimerStates

\* The types of the table, of the histories and of the timers.
TableTypes == pending \in [Id -> Txn \cup {NoTxn}] /\ byEnd \in [Id -> Id \cup {NoId}]
OutcomeTypes ==
  /\ fate \in [Txn -> {"none", "answered", "expired", "withdrawn", "closed", "replaced"}]
  /\ callbacks \in [Txn -> Nat]
  /\ answeredBy \in [Txn -> Txn \cup {NoTxn}]
TimerTypes == timer \in [Txn -> TimerStates]
CallTypes ==
  /\ call \in [Txn -> {"idle", "returned", "refused"} \cup Running]
  /\ ids \in [Txn -> Identifiers]
  /\ wireIds \in [Txn -> Identifiers]
  /\ answers \in [Txn -> Nat]
SessionTypes ==
  /\ open \in BOOLEAN /\ closing \in BOOLEAN
  /\ nextHop \in Id /\ nextEnd \in Id
  /\ reconnects \in Nat

\* The type invariant, part by part, before a step and after it.
LEMMA TypeParts ==
  /\ TypeOK => TableTypes /\ OutcomeTypes /\ TimerTypes /\ CallTypes /\ SessionTypes
  /\ (TableTypes /\ OutcomeTypes /\ TimerTypes /\ CallTypes /\ SessionTypes)' => TypeOK'
  BY DEF TypeOK, TableTypes, OutcomeTypes, TimerTypes, CallTypes, SessionTypes, TimerStates

\* Taking an entry out of the table leaves a table.
LEMMA EraseTypes ==
  ASSUME TypeOK, NEW t \in Txn, Erase(t)
  PROVE  TableTypes'
<1>1. ids[t].hop \in Id /\ ids[t].end \in Id
  BY DEF TypeOK, Identifiers
<1> QED
  BY <1>1 DEF TypeOK, TableTypes, Erase

\* What an answer matches is an entry of the table.
LEMMA MatchIsPending ==
  ASSUME TypeOK, NEW h \in Id, NEW e \in Id, NEW c, Match(h, e, c) # NoTxn
  PROVE  Match(h, e, c) \in Txn /\ \E k \in Id : pending[k] = Match(h, e, c)
  BY DEF Match, TypeOK

\* Every step of a call of send() keeps the types.
LEMMA SendTypes ==
  ASSUME TypeOK, NEW t \in Txn, Refuse(t) \/ Assign(t) \/ SendStep(t)
  PROVE  TypeOK'
<1>0. TableTypes /\ OutcomeTypes /\ TimerTypes /\ CallTypes /\ SessionTypes
  BY TypeParts
<1>1. ids[t] \in Identifiers /\ ids[t].hop \in Id /\ ids[t].end \in Id
  BY DEF TypeOK, Identifiers
<1>2. CASE Refuse(t)
  BY <1>2 DEF Refuse, TypeOK, table, histories, session, counters
<1>3. CASE Assign(t)
  <2>1. PICK h \in CallerHops, e \in CallerEnds :
          /\ ids' = [ids EXCEPT ![t] = Assigned([hop |-> h, end |-> e])]
          /\ Draw([hop |-> h, end |-> e])
    BY <1>3 DEF Assign
  <2>2. [hop |-> h, end |-> e] \in Identifiers
    BY CallerAssumption DEF Identifiers
  <2>3. Assigned([hop |-> h, end |-> e]) \in Identifiers /\ nextHop' \in Id /\ nextEnd' \in Id
    BY <2>1, <2>2, AssignedTypes
  <2>4. CallTypes'
    BY <1>0, <1>3, <2>1, <2>3 DEF Assign, CallTypes, Running
  <2>5. SessionTypes'
    BY <1>0, <1>3, <2>3 DEF Assign, SessionTypes, session
  <2>6. TableTypes' /\ OutcomeTypes' /\ TimerTypes'
    BY <1>0, <1>3 DEF Assign, TableTypes, OutcomeTypes, TimerTypes, table, histories
  <2> QED
    BY <2>4, <2>5, <2>6, TypeParts
<1>4. CASE Register(t)
  <2>1. CallTypes' /\ SessionTypes'
    BY <1>0, <1>4 DEF Register, CallTypes, SessionTypes, Running, session, counters
  <2>2. TableTypes'
    <3>1. pending[ids[t].hop] # NoTxn => ids[pending[ids[t].hop]].end \in Id
      BY <1>1 DEF TypeOK, Identifiers
    <3> QED
      BY <1>0, <1>1, <1>4, <3>1 DEF Register, TableTypes
  <2>3. OutcomeTypes'
    BY <1>0, <1>1, <1>4 DEF Register, OutcomeTypes, TableTypes, End
  <2>4. TimerTypes'
    BY <1>0, <1>4, CancelledType DEF Register, TimerTypes
  <2> QED
    BY <2>1, <2>2, <2>3, <2>4, TypeParts
<1>5. CASE Arm(t)
  BY <1>5 DEF Arm, TypeOK, Running, table, histories, session, counters
<1>6. CASE PeerSend(t)
  <2>1. Assigned(ids[t]) \in Identifiers /\ nextHop' \in Id /\ nextEnd' \in Id
    BY <1>1, <1>6, AssignedTypes DEF PeerSend
  <2>2. CallTypes'
    BY <1>0, <1>6, <2>1 DEF PeerSend, CallTypes
  <2>3. SessionTypes'
    BY <1>0, <1>6, <2>1 DEF PeerSend, SessionTypes, session
  <2>4. TimerTypes'
    BY <1>6, CancelledType DEF PeerSend, TimerTypes
  <2>5. TableTypes' /\ OutcomeTypes'
    BY <1>0, <1>6 DEF PeerSend, TableTypes, OutcomeTypes, table, histories
  <2> QED
    BY <2>2, <2>3, <2>4, <2>5, TypeParts
<1>7. CASE PeerRefuses(t)
  <2>1. CallTypes' /\ SessionTypes'
    BY <1>0, <1>7 DEF PeerRefuses, CallTypes, SessionTypes, session, counters
  <2>2. TableTypes'
    BY <1>0, <1>7, EraseTypes DEF PeerRefuses, TableTypes, table
  <2>3. OutcomeTypes'
    BY <1>0, <1>7 DEF PeerRefuses, OutcomeTypes, End
  <2>4. TimerTypes'
    BY <1>7, CancelledType DEF PeerRefuses, TimerTypes
  <2> QED
    BY <2>1, <2>2, <2>3, <2>4, TypeParts
<1> QED
  BY <1>2, <1>3, <1>4, <1>5, <1>6, <1>7 DEF SendStep

\* Every step of the io thread keeps the types.
LEMMA IoTypes ==
  ASSUME TypeOK, NEW t \in Txn, TimerExpires(t) \/ TimeoutHandler(t) \/ Answer(t)
  PROVE  TypeOK'
<1>0. TableTypes /\ OutcomeTypes /\ TimerTypes /\ CallTypes /\ SessionTypes
  BY TypeParts
<1>1. CASE TimerExpires(t)
  BY <1>1 DEF TimerExpires, TypeOK, table, histories, session, counters
<1>2. CASE TimeoutHandler(t)
  <2> DEFINE victim == pending[ids[t].hop]
  <2>0. victim \in Txn \cup {NoTxn}
    BY DEF TypeOK, Identifiers
  <2>1. CallTypes' /\ SessionTypes'
    BY <1>0, <1>2 DEF TimeoutHandler, CallTypes, SessionTypes, session, counters
  <2>2. TableTypes'
    BY <1>0, <1>2, <2>0, EraseTypes DEF TimeoutHandler, TableTypes, table
  <2>3. OutcomeTypes'
    BY <1>0, <1>2, <2>0 DEF TimeoutHandler, OutcomeTypes, End, CallBack
  <2>4. TimerTypes'
    BY <1>2, CancelledType DEF TimeoutHandler, TimerTypes, TimerStates
  <2> QED
    BY <2>1, <2>2, <2>3, <2>4, TypeParts
<1>3. CASE Answer(t)
  <2>1. PICK h \in {wireIds[t].hop} \cup Rewrites :
          LET found == Match(h, wireIds[t].end, Command[t])
          IN  IF found = NoTxn
              THEN UNCHANGED <<table, timer, histories>>
              ELSE /\ Erase(found) /\ End(found, "answered") /\ CallBack(found)
                   /\ answeredBy' = [answeredBy EXCEPT ![found] = t]
                   /\ timer' = Cancelled({found})
    BY <1>3 DEF Answer
  <2> DEFINE found == Match(h, wireIds[t].end, Command[t])
  <2>2. h \in Id /\ wireIds[t].end \in Id
    BY CallerAssumption DEF TypeOK, Identifiers
  <2>3. CallTypes' /\ SessionTypes'
    BY <1>0, <1>3 DEF Answer, CallTypes, SessionTypes, session, counters
  <2>4. CASE found = NoTxn
    BY <1>0, <2>1, <2>3, <2>4, TypeParts
       DEF TableTypes, TimerTypes, OutcomeTypes, table, histories
  <2>5. CASE found # NoTxn
    <3>1. found \in Txn
      BY <2>2, <2>5, MatchIsPending
    <3>2. TableTypes'
      BY <2>1, <2>5, <3>1, EraseTypes
    <3>3. TimerTypes'
      BY <2>1, <2>5, CancelledType DEF TimerTypes
    <3>4. OutcomeTypes'
      <4> HIDE DEF found
      <4> QED
        BY <1>0, <2>1, <2>5, <3>1 DEF OutcomeTypes, End, CallBack, found
    <3> QED
      BY <2>3, <3>2, <3>3, <3>4, TypeParts
  <2> QED
    BY <2>4, <2>5
<1> QED
  BY <1>1, <1>2, <1>3

\* Every step of the connection keeps the types.
LEMMA ConnectionTypes ==
  ASSUME TypeOK, PeerLost \/ PeerBack \/ Close \/ ClearPending
  PROVE  TypeOK'
<1>1. CASE PeerLost
  BY <1>1 DEF PeerLost, TypeOK, table, histories, counters
<1>2. CASE PeerBack
  BY <1>2, SeedAssumption DEF PeerBack, TypeOK, table, histories
<1>3. CASE Close
  BY <1>3 DEF Close, TypeOK, table, histories, counters
<1>4. CASE ClearPending
  <2>1. TimerTypes'
    BY <1>4, CancelledType DEF ClearPending, TimerTypes
  <2>2. TableTypes' /\ OutcomeTypes' /\ CallTypes' /\ SessionTypes'
    BY <1>4, TypeParts
       DEF ClearPending, TableTypes, OutcomeTypes, CallTypes, SessionTypes, counters
  <2> QED
    BY <2>1, <2>2, TypeParts
<1> QED
  BY <1>1, <1>2, <1>3, <1>4

\* Every step keeps the types.
LEMMA TypesStep == TypeOK /\ [Next]_vars => TypeOK'
<1> SUFFICES ASSUME TypeOK, [Next]_vars PROVE TypeOK'
  OBVIOUS
<1>1. CASE UNCHANGED vars
  BY <1>1 DEF TypeOK, vars
<1>2. CASE Next
  BY <1>2, SendTypes, IoTypes, ConnectionTypes DEF Next
<1> QED
  BY <1>1, <1>2

\* Initially every variable has its type.
LEMMA InitTypes == Init => TypeOK
<1>1. NoIdentifiers \in Identifiers
  BY ZeroIsId DEF NoIdentifiers, Identifiers
<1>2. Init => TableTypes /\ TimerTypes
  BY DEF Init, TableTypes, TimerTypes, TimerStates
<1>3. Init => OutcomeTypes
  BY DEF Init, OutcomeTypes
<1>4. Init => CallTypes
  BY <1>1 DEF Init, CallTypes
<1>5. Init => SessionTypes
  <2>1. Init => open \in BOOLEAN /\ closing \in BOOLEAN
    BY Zenon DEF Init
  <2>2. Init => nextHop \in Id /\ nextEnd \in Id /\ reconnects \in Nat
    BY SeedAssumption DEF Init
  <2> QED
    BY <2>1, <2>2 DEF SessionTypes
<1> QED
  BY <1>2, <1>3, <1>4, <1>5
     DEF TypeOK, TableTypes, TimerTypes, TimerStates, OutcomeTypes, CallTypes, SessionTypes

\* TypeOK: identifiers, the counters included, stay within their width (a wrap
\* brings them back to zero), and calls, timers and outcomes keep to the states
\* send() and the handlers of DiameterClient.cpp give them.
THEOREM ClientTypeCorrect == Spec => []TypeOK
  BY InitTypes, TypesStep, PTL DEF Spec

(***************************************************************************)
(* The table and the calls agree.                                          *)
(***************************************************************************)
\* The entry under a hop-by-hop identifier is that request's own: no request
\* is in the table twice.
LEMMA OneEntry ==
  ASSUME Tabled, NEW v, v # NoTxn, NEW h \in Id, pending[h] = v
  PROVE  /\ ids[v].hop = h /\ call[v] \in Registered /\ fate[v] = "none"
         /\ \A k \in Id : pending[k] = v => k = h
  BY DEF Tabled

\* Taking an entry out for good, with an outcome, keeps the table and the calls
\* in agreement and the index sound.
LEMMA RemovalStep ==
  ASSUME IInv, NEW v \in Txn, NEW how \in {"answered", "expired", "withdrawn"},
         pending[ids[v].hop] = v, Erase(v), End(v, how), UNCHANGED ids,
         call' \in [Txn -> {"idle", "returned", "refused"} \cup Running],
         \A t \in Txn : call'[t] = call[t] \/ (t = v /\ call'[t] = "refused")
  PROVE  Agreement' /\ IndexSound'
<1>0. /\ v # NoTxn /\ ids[v].hop \in Id /\ ids[v].end \in Id
      /\ call[v] \in Registered /\ fate[v] = "none"
  BY NoneAssumption DEF IInv, Agreement, Tabled, TypeOK, Identifiers
<1>1. /\ \A h \in Id : pending'[h] = IF h = ids[v].hop THEN NoTxn ELSE pending[h]
      /\ \A e \in Id : byEnd'[e] = IF e = ids[v].end THEN NoId ELSE byEnd[e]
      /\ \A t \in Txn : fate'[t] = IF t = v THEN how ELSE fate[t]
      /\ ids' = ids
  BY <1>0 DEF IInv, TypeOK, Erase, End
<1>2. \A h \in Id : pending[h] \in Txn \cup {NoTxn}
  BY DEF IInv, TypeOK
<1>3. Tabled'
  <2> SUFFICES ASSUME NEW h \in Id, pending'[h] # NoTxn
               PROVE  /\ ids[pending'[h]].hop = h
                      /\ call'[pending'[h]] \in Registered
                      /\ fate'[pending'[h]] = "none"
    BY <1>1 DEF Tabled
  <2>1. h # ids[v].hop /\ pending'[h] = pending[h] /\ pending[h] \in Txn
    BY <1>1, <1>2
  <2>2. pending[h] # v
    BY <2>1, <1>0 DEF IInv, Agreement, Tabled
  <2> QED
    BY <2>1, <2>2, <1>1 DEF IInv, Agreement, Tabled
<1>4. Findable'
  <2> SUFFICES ASSUME NEW t \in Txn, call'[t] \in Registered, fate'[t] = "none"
               PROVE  pending'[ids[t].hop] = t
    BY <1>1 DEF Findable
  <2>1. t # v /\ call[t] \in Registered /\ fate[t] = "none"
    BY <1>1 DEF Registered
  <2>2. pending[ids[t].hop] = t /\ ids[t].hop \in Id
    BY <2>1 DEF IInv, Agreement, Findable, TypeOK, Identifiers
  <2> QED
    BY <2>1, <2>2, <1>1
<1>5. Fresh'
  BY <1>0, <1>1 DEF IInv, Agreement, Fresh, Registered
<1>6. IndexSound'
  <2> SUFFICES ASSUME NEW e \in Id, byEnd'[e] # NoId
               PROVE  pending'[byEnd'[e]] # NoTxn /\ ids[pending'[byEnd'[e]]].end = e
    BY <1>1 DEF IndexSound
  <2>1. e # ids[v].end /\ byEnd'[e] = byEnd[e] /\ byEnd[e] \in Id
    BY <1>1 DEF IInv, TypeOK
  <2>2. pending[byEnd[e]] # NoTxn /\ ids[pending[byEnd[e]]].end = e
    BY <2>1 DEF IInv, IndexSound
  <2> QED
    BY <2>1, <2>2, <1>1
<1> QED
  BY <1>3, <1>4, <1>5, <1>6 DEF Agreement

\* A completed request had no callback before and has its only one now.
LEMMA CompletionStep ==
  ASSUME IInv, NEW v \in Txn, NEW how \in {"answered", "expired"},
         fate[v] = "none", End(v, how), CallBack(v)
  PROVE  OneCompletion'
<1>1. \A t \in Txn : /\ fate'[t] = IF t = v THEN how ELSE fate[t]
                    /\ callbacks'[t] = IF t = v THEN callbacks[t] + 1 ELSE callbacks[t]
  BY DEF IInv, TypeOK, End, CallBack
<1>2. callbacks[v] = 0
  BY DEF IInv, OneCompletion
<1> QED
  BY <1>1, <1>2 DEF IInv, OneCompletion

\* The steps that touch neither the table nor an outcome, and register nothing.
LEMMA QuietStep ==
  ASSUME IInv, UNCHANGED <<table, fate, callbacks>>,
         call' \in [Txn -> {"idle", "returned", "refused"} \cup Running],
         \A t \in Txn :
           \/ call'[t] = call[t] /\ ids'[t] = ids[t]
           \/ call[t] = "idle" /\ call'[t] \in {"assigned", "refused"}
           \/ call[t] \in Registered /\ call'[t] \in Registered /\ ids'[t] = ids[t]
           \/ call'[t] = "refused" /\ ids'[t] = ids[t] /\ pending[ids[t].hop] # t
  PROVE  Agreement' /\ IndexSound' /\ OneCompletion'
<1>0. pending' = pending /\ byEnd' = byEnd /\ fate' = fate /\ callbacks' = callbacks
  BY DEF table
<1>1. \A h \in Id : pending[h] # NoTxn =>
        /\ pending[h] \in Txn /\ ids[pending[h]].hop = h
        /\ call[pending[h]] \in Registered /\ fate[pending[h]] = "none"
  BY DEF IInv, TypeOK, Agreement, Tabled
<1>2. \A h \in Id : pending[h] # NoTxn =>
        ids'[pending[h]] = ids[pending[h]] /\ call'[pending[h]] \in Registered
  BY <1>1 DEF Registered
<1>3. Tabled'
  BY <1>0, <1>1, <1>2 DEF Tabled
<1>4. Findable'
  BY <1>0 DEF IInv, Agreement, Findable, Registered
<1>5. Fresh'
  BY <1>0 DEF IInv, Agreement, Fresh, Registered
<1>6. IndexSound'
  BY <1>0, <1>2 DEF IInv, TypeOK, IndexSound
<1>7. OneCompletion'
  BY <1>0 DEF IInv, OneCompletion
<1> QED
  BY <1>3, <1>4, <1>5, <1>6, <1>7 DEF Agreement

\* Registering: the new entry takes the place of the one it replaces.
LEMMA RegisterStep ==
  ASSUME IInv, NEW t \in Txn, Register(t)
  PROVE  Agreement' /\ IndexSound' /\ OneCompletion'
<1> DEFINE h == ids[t].hop
           previous == pending[h]
<1>0. /\ h \in Id /\ ids[t].end \in Id /\ t # NoTxn /\ previous \in Txn \cup {NoTxn}
      /\ call[t] = "assigned" /\ fate[t] = "none" /\ ids' = ids /\ callbacks' = callbacks
  BY NoneAssumption DEF Register, IInv, Agreement, Fresh, TypeOK, Identifiers
<1>1. previous # NoTxn =>
        /\ previous \in Txn /\ previous # t /\ ids[previous].hop = h
        /\ ids[previous].end \in Id /\ call[previous] \in Registered
        /\ fate[previous] = "none"
  BY <1>0 DEF IInv, Agreement, Tabled, Registered, TypeOK, Identifiers
<1>2. /\ \A k \in Id : pending'[k] = IF k = h THEN t ELSE pending[k]
      /\ \A u \in Txn : call'[u] = IF u = t THEN "registered" ELSE call[u]
      /\ \A u \in Txn : fate'[u] = IF u = previous THEN "replaced" ELSE fate[u]
  <2>1. previous = NoTxn => fate' = fate
    BY DEF Register
  <2>2. previous # NoTxn => fate' = [fate EXCEPT ![previous] = "replaced"]
    BY DEF Register, End
  <2>3. \A u \in Txn : fate'[u] = IF u = previous THEN "replaced" ELSE fate[u]
    BY <2>1, <2>2, <1>0, NoneAssumption DEF IInv, TypeOK
  <2> QED
    BY <1>0, <2>3 DEF Register, IInv, TypeOK
<1>3. \A e \in Id : byEnd'[e] = IF e = ids[t].end THEN h
                     ELSE IF previous # NoTxn /\ e = ids[previous].end THEN NoId
                     ELSE byEnd[e]
  BY <1>0, <1>1 DEF Register, IInv, TypeOK
<1> HIDE DEF h, previous
<1>4. \A k \in Id : k # h /\ pending[k] # NoTxn =>
        /\ pending[k] \in Txn /\ pending[k] # t /\ pending[k] # previous
        /\ ids[pending[k]].hop = k /\ call[pending[k]] \in Registered
        /\ fate[pending[k]] = "none"
  BY <1>0, <1>1 DEF IInv, Agreement, Tabled, TypeOK, Registered
<1>5. Tabled'
  BY <1>0, <1>1, <1>2, <1>4 DEF Tabled, Registered, h
<1>6. Findable'
  <2> SUFFICES ASSUME NEW u \in Txn, call'[u] \in Registered, fate'[u] = "none"
               PROVE  pending'[ids[u].hop] = u
    BY <1>0 DEF Findable
  <2>1. CASE u = t
    BY <2>1, <1>0, <1>2 DEF h
  <2>2. CASE u # t
    <3>1. call[u] \in Registered /\ fate[u] = "none" /\ u # previous
      BY <2>2, <1>2
    <3>2. pending[ids[u].hop] = u /\ ids[u].hop \in Id
      BY <3>1 DEF IInv, Agreement, Findable, TypeOK, Identifiers
    <3> QED
      BY <3>1, <3>2, <1>2 DEF previous
  <2> QED
    BY <2>1, <2>2
<1>7. Fresh'
  BY <1>0, <1>1, <1>2, NoneAssumption DEF IInv, Agreement, Fresh, Registered
<1>8. IndexSound'
  <2> SUFFICES ASSUME NEW e \in Id, byEnd'[e] # NoId
               PROVE  pending'[byEnd'[e]] # NoTxn /\ ids[pending'[byEnd'[e]]].end = e
    BY <1>0 DEF IndexSound
  <2>1. CASE e = ids[t].end
    BY <2>1, <1>0, <1>2, <1>3
  <2>2. CASE e # ids[t].end
    <3>1. byEnd'[e] = byEnd[e] /\ byEnd[e] \in Id /\ ~(previous # NoTxn /\ e = ids[previous].end)
      BY <2>2, <1>3 DEF IInv, TypeOK
    <3>2. pending[byEnd[e]] # NoTxn /\ ids[pending[byEnd[e]]].end = e
      BY <3>1 DEF IInv, IndexSound
    <3>3. byEnd[e] # h
      BY <3>1, <3>2 DEF previous
    <3> QED
      BY <3>1, <3>2, <3>3, <1>2
  <2> QED
    BY <2>1, <2>2
<1>9. OneCompletion'
  BY <1>0, <1>1, <1>2, NoneAssumption DEF IInv, OneCompletion
<1> QED
  BY <1>5, <1>6, <1>7, <1>8, <1>9 DEF Agreement

\* close() takes every entry out of the table.
LEMMA ClearStep ==
  ASSUME IInv, ClearPending
  PROVE  Agreement' /\ IndexSound' /\ OneCompletion'
<1> DEFINE cleared == {t \in Txn : pending[ids[t].hop] = t}
<1>1. /\ \A h \in Id : pending'[h] = NoTxn
      /\ \A e \in Id : byEnd'[e] = NoId
      /\ \A t \in Txn : fate'[t] = IF t \in cleared THEN "closed" ELSE fate[t]
      /\ ids' = ids /\ call' = call /\ callbacks' = callbacks
  BY DEF ClearPending
<1>2. \A t \in cleared : call[t] \in Registered /\ fate[t] = "none"
  BY NoneAssumption DEF IInv, Agreement, Tabled, TypeOK, Identifiers
<1>3. \A t \in Txn : call[t] \in Registered /\ fate[t] = "none" => t \in cleared
  BY DEF IInv, Agreement, Findable
<1> HIDE DEF cleared
<1>4. Tabled' /\ IndexSound'
  BY <1>1 DEF Tabled, IndexSound
<1>5. Findable'
  BY <1>1, <1>3 DEF Findable
<1>6. Fresh'
  BY <1>1, <1>2 DEF IInv, Agreement, Fresh, Registered
<1>7. OneCompletion'
  BY <1>1, <1>2 DEF IInv, OneCompletion
<1> QED
  BY <1>4, <1>5, <1>6, <1>7 DEF Agreement

\* A call of send() keeps the invariant.
LEMMA SendStepInv ==
  ASSUME IInv, TypeOK', NEW t \in Txn, Refuse(t) \/ Assign(t) \/ SendStep(t)
  PROVE  Agreement' /\ IndexSound' /\ OneCompletion'
<1>0. call' \in [Txn -> {"idle", "returned", "refused"} \cup Running] /\ TypeOK
  BY DEF TypeOK, IInv
<1>1. CASE Refuse(t)
  BY <1>0, <1>1, QuietStep DEF Refuse, TypeOK, table, histories
<1>2. CASE Assign(t)
  <2>1. call[t] = "idle" /\ call'[t] = "assigned"
    BY <1>0, <1>2 DEF Assign, TypeOK
  <2>2. \A u \in Txn : u # t => call'[u] = call[u] /\ ids'[u] = ids[u]
    BY <1>0, <1>2 DEF Assign, TypeOK
  <2> QED
    BY <1>0, <1>2, <2>1, <2>2, QuietStep DEF Assign, table, histories
<1>3. CASE Register(t)
  BY <1>3, RegisterStep
<1>4. CASE Arm(t)
  BY <1>0, <1>4, QuietStep DEF Arm, TypeOK, table, histories, Registered
<1>5. CASE PeerSend(t)
  BY <1>0, <1>5, QuietStep DEF PeerSend, TypeOK, table, histories, Registered
<1>6. CASE PeerRefuses(t)
  <2>1. /\ ids' = ids /\ callbacks' = callbacks
        /\ \A u \in Txn : call'[u] = IF u = t THEN "refused" ELSE call[u]
    BY <1>0, <1>6 DEF PeerRefuses, TypeOK
  <2>2. CASE pending[ids[t].hop] = t
    <3>1. Erase(t) /\ End(t, "withdrawn")
      BY <1>6, <2>2 DEF PeerRefuses
    <3>2. Agreement' /\ IndexSound'
      BY <1>0, <2>1, <2>2, <3>1, RemovalStep
    <3>3. fate[t] = "none"
      BY <2>2, NoneAssumption DEF IInv, Agreement, Tabled, TypeOK, Identifiers
    <3>4. OneCompletion'
      BY <2>1, <3>1, <3>3 DEF IInv, OneCompletion, End, TypeOK
    <3> QED
      BY <3>2, <3>4
  <2>3. CASE pending[ids[t].hop] # t
    <3>1. UNCHANGED <<table, fate, callbacks>>
      BY <1>6, <2>3 DEF PeerRefuses
    <3> QED
      BY <1>0, <2>1, <2>3, <3>1, QuietStep
  <2> QED
    BY <2>2, <2>3
<1> QED
  BY <1>1, <1>2, <1>3, <1>4, <1>5, <1>6 DEF SendStep

\* A step of the io thread keeps the invariant.
LEMMA IoStepInv ==
  ASSUME IInv, TypeOK', NEW t \in Txn, TimerExpires(t) \/ TimeoutHandler(t) \/ Answer(t)
  PROVE  Agreement' /\ IndexSound' /\ OneCompletion'
<1>0. /\ call' \in [Txn -> {"idle", "returned", "refused"} \cup Running] /\ TypeOK
      /\ call' = call /\ ids' = ids
  BY DEF TypeOK, IInv, TimerExpires, TimeoutHandler, Answer
<1>1. CASE TimerExpires(t)
  BY <1>0, <1>1, QuietStep DEF TimerExpires, table, histories
<1>2. CASE TimeoutHandler(t)
  <2> DEFINE victim == pending[ids[t].hop]
  <2>1. CASE victim = NoTxn
    BY <1>0, <1>2, <2>1, QuietStep DEF TimeoutHandler, table
  <2>2. CASE victim # NoTxn
    <3>1. Erase(victim) /\ End(victim, "expired") /\ CallBack(victim)
      BY <1>2, <2>2 DEF TimeoutHandler
    <3>2. /\ victim \in Txn /\ ids[victim].hop = ids[t].hop
          /\ fate[victim] = "none"
      BY <1>0, <2>2 DEF TypeOK, Identifiers, IInv, Agreement, Tabled
    <3>3. pending[ids[victim].hop] = victim
      BY <3>2
    <3> HIDE DEF victim
    <3>4. Agreement' /\ IndexSound'
      BY <1>0, <3>1, <3>2, <3>3, RemovalStep
    <3>5. OneCompletion'
      BY <3>1, <3>2, CompletionStep
    <3> QED
      BY <3>4, <3>5
  <2> QED
    BY <2>1, <2>2
<1>3. CASE Answer(t)
  <2>1. PICK h \in {wireIds[t].hop} \cup Rewrites :
          LET found == Match(h, wireIds[t].end, Command[t])
          IN  IF found = NoTxn
              THEN UNCHANGED <<table, timer, histories>>
              ELSE /\ Erase(found) /\ End(found, "answered") /\ CallBack(found)
                   /\ answeredBy' = [answeredBy EXCEPT ![found] = t]
                   /\ timer' = Cancelled({found})
    BY <1>3 DEF Answer
  <2> DEFINE found == Match(h, wireIds[t].end, Command[t])
  <2>2. CASE found = NoTxn
    BY <1>0, <2>1, <2>2, QuietStep DEF table, histories
  <2>3. CASE found # NoTxn
    <3>1. Erase(found) /\ End(found, "answered") /\ CallBack(found)
      BY <2>1, <2>3
    <3>2. h \in Id /\ wireIds[t].end \in Id
      BY <1>0, CallerAssumption DEF TypeOK, Identifiers
    <3>3. found \in Txn /\ \E k \in Id : pending[k] = found
      BY <1>0, <2>3, <3>2, MatchIsPending
    <3> HIDE DEF found
    <3>4. pending[ids[found].hop] = found /\ fate[found] = "none"
      BY <2>3, <3>3, OneEntry DEF IInv, Agreement
    <3>5. Agreement' /\ IndexSound'
      BY <1>0, <3>1, <3>3, <3>4, RemovalStep
    <3>6. OneCompletion'
      BY <3>1, <3>3, <3>4, CompletionStep
    <3> QED
      BY <3>5, <3>6
  <2> QED
    BY <2>2, <2>3
<1> QED
  BY <1>1, <1>2, <1>3

\* Initially the table is empty and no request has an outcome.
LEMMA InitInv == Init => IInv
<1> SUFFICES ASSUME Init PROVE IInv
  OBVIOUS
<1>1. TypeOK
  BY InitTypes
<1>2. Agreement /\ IndexSound
  BY DEF Init, Agreement, Tabled, Findable, Fresh, IndexSound, Registered
<1>3. OneCompletion
  BY DEF Init, OneCompletion
<1> QED
  BY <1>1, <1>2, <1>3 DEF IInv

\* Every step keeps the invariant.
LEMMA InvStep == IInv /\ [Next]_vars => IInv'
<1> SUFFICES ASSUME IInv, [Next]_vars PROVE IInv'
  OBVIOUS
<1>0. TypeOK /\ TypeOK'
  BY TypesStep DEF IInv
<1>1. CASE UNCHANGED vars
  BY <1>0, <1>1 DEF IInv, Agreement, Tabled, Findable, Fresh, IndexSound, OneCompletion, vars
<1>2. ASSUME NEW t \in Txn, Refuse(t) \/ Assign(t) \/ SendStep(t) PROVE IInv'
  BY <1>0, <1>2, SendStepInv DEF IInv
<1>3. ASSUME NEW t \in Txn, TimerExpires(t) \/ TimeoutHandler(t) \/ Answer(t) PROVE IInv'
  BY <1>0, <1>3, IoStepInv DEF IInv
<1>4. CASE PeerLost \/ PeerBack \/ Close
  <2>1. UNCHANGED <<call, ids, table, fate, callbacks>>
    BY <1>4 DEF PeerLost, PeerBack, Close, histories
  <2>2. call' \in [Txn -> {"idle", "returned", "refused"} \cup Running]
    BY <1>0 DEF TypeOK
  <2>3. Agreement' /\ IndexSound' /\ OneCompletion'
    BY <2>1, <2>2, QuietStep
  <2> QED
    BY <1>0, <2>3 DEF IInv
<1>5. CASE ClearPending
  BY <1>0, <1>5, ClearStep DEF IInv
<1> QED
  BY <1>1, <1>2, <1>3, <1>4, <1>5 DEF Next

\* The strengthened invariant holds throughout: the table of DiameterClient and
\* the calls of send() agree on which requests are outstanding.
THEOREM TableInvariance == Spec => []IInv
  BY InitInv, InvStep, PTL DEF Spec

\* IndexSound: pendingByE2e_ never leads to a request that has left pending_,
\* or to one of another end-to-end, whatever identifiers callers choose.
THEOREM IndexSoundAlways == Spec => []IndexSound
<1>1. IInv => IndexSound
  BY DEF IInv
<1> QED
  BY <1>1, TableInvariance, PTL

\* OneCompletion: a request gets one callback at most, the answer's or the
\* timeout's, and none if it is withdrawn, replaced or cleared by close().
THEOREM OneCompletionAlways == Spec => []OneCompletion
<1>1. IInv => OneCompletion
  BY DEF IInv
<1> QED
  BY <1>1, TableInvariance, PTL

(***************************************************************************)
(* send() that returns 0.  ZeroReturnIsSilent does not hold of every call: *)
(* the timer runs before Peer::send is tried, and 0 is the hop-by-hop that *)
(* a counter gives once in a round.  These are the only reasons.           *)
(***************************************************************************)
\* On the io thread a call keeps out the handlers that would call back for it.
IoSilent ==
  \A t \in IoCalls : call[t] \in {"idle", "refused"} \cup Running => callbacks[t] = 0

\* No request that was accepted has a hop-by-hop of zero.
NonzeroReturned == \A t \in Txn : call[t] = "returned" => ids[t].hop # 0

\* What completes a request on the io thread finds one whose call has returned.
LEMMA CallBackReturned ==
  ASSUME IInv, IoFree, NEW h \in Id, pending[h] # NoTxn, pending[h] \in IoCalls
  PROVE  call[pending[h]] = "returned"
<1>1. call[pending[h]] \in Registered
  BY DEF IInv, Agreement, Tabled
<1> QED
  BY <1>1 DEF IoFree, Registered, Running

\* What calls back takes a request from the table, on the io thread.
LEMMA CallBackPending ==
  ASSUME IInv, NEW t \in Txn, TimerExpires(t) \/ TimeoutHandler(t) \/ Answer(t),
         callbacks' # callbacks
  PROVE  \E h \in Id : /\ IoFree /\ pending[h] # NoTxn
                       /\ callbacks' = [callbacks EXCEPT ![pending[h]] = @ + 1]
<1>0. TypeOK
  BY DEF IInv
<1>1. CASE TimeoutHandler(t)
  <2>1. ids[t].hop \in Id
    BY <1>0 DEF TypeOK, Identifiers
  <2> QED
    BY <1>1, <2>1 DEF TimeoutHandler, CallBack
<1>2. CASE Answer(t)
  <2>1. PICK k \in {wireIds[t].hop} \cup Rewrites :
          LET found == Match(k, wireIds[t].end, Command[t])
          IN  found # NoTxn /\ CallBack(found)
    BY <1>2 DEF Answer, histories
  <2>2. k \in Id /\ wireIds[t].end \in Id
    BY <1>0, CallerAssumption DEF TypeOK, Identifiers
  <2> DEFINE found == Match(k, wireIds[t].end, Command[t])
  <2>3. PICK h \in Id : pending[h] = found
    BY <1>0, <2>1, <2>2, MatchIsPending
  <2>4. found # NoTxn /\ callbacks' = [callbacks EXCEPT ![found] = @ + 1] /\ IoFree
    BY <1>2, <2>1 DEF Answer, CallBack
  <2> HIDE DEF found
  <2> QED
    BY <2>3, <2>4
<1> QED
  BY <1>1, <1>2 DEF TimerExpires, histories

\* No step calls back for a request whose call has been refused.
LEMMA RefusedStep ==
  ASSUME IInv, [Next]_vars, NEW u \in Txn, call[u] = "refused"
  PROVE  callbacks'[u] = callbacks[u]
<1>1. CASE UNCHANGED callbacks
  BY <1>1
<1>2. ASSUME NEW t \in Txn, TimerExpires(t) \/ TimeoutHandler(t) \/ Answer(t),
             callbacks' # callbacks
      PROVE  callbacks'[u] = callbacks[u]
  <2>1. PICK h \in Id : /\ pending[h] # NoTxn
                        /\ callbacks' = [callbacks EXCEPT ![pending[h]] = @ + 1]
    BY <1>2, CallBackPending
  <2>2. call[pending[h]] # "refused"
    BY <2>1 DEF IInv, Agreement, Tabled, Registered
  <2> QED
    BY <2>1, <2>2 DEF IInv, TypeOK
<1>3. ASSUME NEW t \in Txn, Refuse(t) \/ Assign(t) \/ SendStep(t) PROVE UNCHANGED callbacks
  BY <1>3 DEF Refuse, Assign, SendStep, Register, Arm, PeerSend, PeerRefuses, histories
<1>4. CASE PeerLost \/ PeerBack \/ Close \/ ClearPending \/ UNCHANGED vars
  BY <1>4 DEF PeerLost, PeerBack, Close, ClearPending, histories, vars
<1> QED
  BY <1>1, <1>2, <1>3, <1>4 DEF Next

\* SilentOnceRefused: once send() has returned 0 for a refused write, no answer
\* and no timer, its own late one included, calls back for the request.
THEOREM SilentOnceRefusedAlways == Spec => SilentOnceRefused
<1>1. IInv /\ [Next]_vars =>
        [\A t \in Txn : call[t] = "refused" => callbacks'[t] = callbacks[t]]_vars
  BY RefusedStep
<1> QED
  BY <1>1, TableInvariance, PTL DEF Spec, SilentOnceRefused

\* Every step keeps calls on the io thread free of callbacks while they run.
LEMMA IoSilentStep == IInv /\ IoSilent /\ [Next]_vars => IoSilent'
<1> SUFFICES ASSUME IInv, IoSilent, [Next]_vars PROVE IoSilent'
  OBVIOUS
<1>0. TypeOK /\ IoCalls \subseteq Txn
  BY CallsAssumption DEF IInv
<1>1. CASE UNCHANGED vars
  BY <1>1 DEF IoSilent, vars
<1>2. ASSUME NEW t \in Txn, Refuse(t) \/ Assign(t) \/ SendStep(t) PROVE IoSilent'
  <2>1. callbacks' = callbacks /\ \A u \in Txn : u # t => call'[u] = call[u]
    BY <1>0, <1>2 DEF Refuse, Assign, SendStep, Register, Arm, PeerSend, PeerRefuses, histories,
                      TypeOK
  <2>2. call[t] \in {"idle"} \cup Running
    BY <1>2 DEF Refuse, Assign, SendStep, Register, Arm, PeerSend, PeerRefuses, Running
  <2> QED
    BY <1>0, <2>1, <2>2 DEF IoSilent
<1>3. ASSUME NEW t \in Txn, TimerExpires(t) \/ TimeoutHandler(t) \/ Answer(t) PROVE IoSilent'
  <2>1. call' = call
    BY <1>3 DEF TimerExpires, TimeoutHandler, Answer
  <2>2. CASE callbacks' = callbacks
    BY <2>1, <2>2 DEF IoSilent
  <2>3. CASE callbacks' # callbacks
    <3>1. PICK h \in Id : /\ IoFree /\ pending[h] # NoTxn
                          /\ callbacks' = [callbacks EXCEPT ![pending[h]] = @ + 1]
      BY <1>3, <2>3, CallBackPending
    <3>2. pending[h] \in IoCalls => call[pending[h]] = "returned"
      BY <3>1, CallBackReturned
    <3>3. \A u \in Txn : u # pending[h] => callbacks'[u] = callbacks[u]
      BY <1>0, <3>1 DEF TypeOK
    <3> QED
      BY <1>0, <2>1, <3>2, <3>3 DEF IoSilent, Running
  <2> QED
    BY <2>2, <2>3
<1>4. CASE PeerLost \/ PeerBack \/ Close \/ ClearPending
  BY <1>4 DEF PeerLost, PeerBack, Close, ClearPending, histories, IoSilent
<1> QED
  BY <1>1, <1>2, <1>3, <1>4 DEF Next

\* A call on the io thread that runs, or was refused, has had no callback,
\* whatever calls other threads make.
THEOREM IoSilentAlways == Spec => []IoSilent
<1>1. Init => IoSilent
  BY CallsAssumption DEF Init, IoSilent
<1> QED
  BY <1>1, IoSilentStep, TableInvariance, PTL DEF Spec

\* ZeroReturnIsSilent: 0 means that no callback is invoked, if send() is called
\* on the io thread and no request that was accepted has a hop-by-hop of zero.
THEOREM ZeroReturnIsSilentOnIo ==
  ASSUME IoCalls = Txn
  PROVE  Spec => [](NonzeroReturned => ZeroReturnIsSilent)
<1>1. IoSilent /\ NonzeroReturned => ZeroReturnIsSilent
  <2> SUFFICES ASSUME IoSilent, NonzeroReturned, NEW t \in Txn,
                      call[t] \in {"returned", "refused"}, Result(t) = 0
               PROVE  callbacks[t] = 0
    BY DEF ZeroReturnIsSilent
  <2>1. call[t] = "refused"
    BY DEF NonzeroReturned, Result
  <2> QED
    BY <2>1 DEF IoSilent
<1> QED
  BY <1>1, IoSilentAlways, PTL

(***************************************************************************)
(* The table keeps the promise of module Transactions.                     *)
(***************************************************************************)
\* What a request's status says of its call and its outcome.
LEMMA StatusCases ==
  ASSUME NEW t \in Txn
  PROVE  /\ call[t] \in Registered /\ fate[t] = "none" => StatusOf(t) = "pending"
         /\ call[t] \notin Registered /\ fate[t] = "none" => StatusOf(t) = "new"
  BY DEF StatusOf, Registered

\* A request with the same outcome has the same status, unless it registers
\* or withdraws while it has none.
LEMMA SameStatus ==
  ASSUME NEW t \in Txn, fate'[t] = fate[t],
         fate[t] = "none" => (call'[t] \in Registered <=> call[t] \in Registered)
  PROVE  StatusOf(t)' = StatusOf(t)
  BY DEF StatusOf, Registered

\* A step after which every request has its status is a stutter.
LEMMA Stutter ==
  ASSUME \A t \in Txn : StatusOf(t)' = StatusOf(t)
  PROVE  [Promise!Next]_Statuses
  BY DEF Statuses

\* A pending request that gets an outcome, while all others keep their status,
\* takes a step of the promise.
LEMMA OutcomeStep ==
  ASSUME IInv, NEW v \in Txn, NEW how \in {"answered", "expired", "withdrawn"},
         call[v] \in Registered, fate[v] = "none", End(v, how),
         \A t \in Txn : t # v => call'[t] = call[t]
  PROVE  [Promise!Next]_Statuses
<1>1. /\ fate'[v] = how
      /\ \A t \in Txn : t # v => fate'[t] = fate[t]
  BY DEF End, IInv, TypeOK
<1>2. \A t \in Txn : t # v => StatusOf(t)' = StatusOf(t)
  BY <1>1, SameStatus
<1>3. StatusOf(v) = "pending"
  BY StatusCases
<1>4. CASE how = "withdrawn"
  <2>1. StatusOf(v)' = "dropped"
    BY <1>1, <1>4 DEF StatusOf
  <2>2. {v} \in SUBSET Promise!Pending
    BY <1>3 DEF Promise!Pending, Statuses
  <2>3. Statuses' = Promise!Drop({v})
    BY <1>2, <2>1 DEF Promise!Drop, Statuses
  <2> QED
    BY <2>2, <2>3 DEF Promise!Next
<1>5. CASE how = "answered"
  <2>1. StatusOf(v)' = "answered"
    BY <1>1, <1>5 DEF StatusOf
  <2>2. Promise!Complete(v, "answered")
    BY <1>2, <1>3, <2>1 DEF Promise!Complete, Statuses
  <2> QED
    BY <2>2 DEF Promise!Next
<1>6. CASE how = "expired"
  <2>1. StatusOf(v)' = "timedOut"
    BY <1>1, <1>6 DEF StatusOf
  <2>2. Promise!Complete(v, "timedOut")
    BY <1>2, <1>3, <2>1 DEF Promise!Complete, Statuses
  <2> QED
    BY <2>2 DEF Promise!Next
<1> QED
  BY <1>4, <1>5, <1>6

\* Registering accepts a request, and drops the one it replaces.
LEMMA RegisterPromise ==
  ASSUME IInv, NEW t \in Txn, Register(t)
  PROVE  [Promise!Next]_Statuses
<1> DEFINE previous == pending[ids[t].hop]
           D == {previous} \ {NoTxn}
<1>1. /\ call[t] = "assigned" /\ fate[t] = "none"
      /\ \A u \in Txn : call'[u] = IF u = t THEN "registered" ELSE call[u]
  BY DEF Register, IInv, TypeOK, Agreement, Fresh
<1>2. \A u \in D : u \in Txn /\ u # t /\ call[u] \in Registered /\ fate[u] = "none"
  BY <1>1 DEF IInv, TypeOK, Identifiers, Agreement, Tabled, Registered
<1>3. \A u \in Txn : fate'[u] = IF u \in D THEN "replaced" ELSE fate[u]
  <2>1. previous = NoTxn => fate' = fate
    BY DEF Register
  <2>2. previous # NoTxn => fate' = [fate EXCEPT ![previous] = "replaced"]
    BY DEF Register, End
  <2> QED
    BY <2>1, <2>2, <1>2 DEF IInv, TypeOK
<1> HIDE DEF D
<1>4. StatusOf(t) = "new" /\ \A u \in D : StatusOf(u) = "pending"
  BY <1>1, <1>2, StatusCases DEF Registered
<1>5. StatusOf(t)' = "pending"
  BY <1>1, <1>2, <1>3 DEF StatusOf
<1>6. \A u \in D : StatusOf(u)' = "dropped"
  BY <1>2, <1>3 DEF StatusOf
<1>7. \A u \in Txn : u # t /\ u \notin D => StatusOf(u)' = StatusOf(u)
  BY <1>1, <1>3, SameStatus
<1>8. D \in SUBSET Promise!Pending
  BY <1>2, <1>4 DEF Promise!Pending, Statuses
<1>9. Statuses' = [Promise!Drop(D) EXCEPT ![t] = "pending"]
  BY <1>2, <1>5, <1>6, <1>7 DEF Promise!Drop, Statuses
<1>10. Promise!Accept(t)
  BY <1>4, <1>8, <1>9 DEF Promise!Accept, Statuses
<1> QED
  BY <1>10 DEF Promise!Next

\* Clearing the table drops every pending request.
LEMMA ClearPromise ==
  ASSUME IInv, ClearPending
  PROVE  [Promise!Next]_Statuses
<1> DEFINE cleared == {t \in Txn : pending[ids[t].hop] = t}
<1>1. /\ \A t \in Txn : fate'[t] = IF t \in cleared THEN "closed" ELSE fate[t]
      /\ call' = call
  BY DEF ClearPending
<1>2. \A t \in cleared : t \in Txn /\ call[t] \in Registered /\ fate[t] = "none"
  BY NoneAssumption DEF IInv, Agreement, Tabled, TypeOK, Identifiers
<1> HIDE DEF cleared
<1>3. cleared \in SUBSET Promise!Pending
  BY <1>2, StatusCases DEF Promise!Pending, Statuses
<1>4. \A t \in cleared : StatusOf(t)' = "dropped"
  BY <1>1, <1>2 DEF StatusOf
<1>5. \A t \in Txn : t \notin cleared => StatusOf(t)' = StatusOf(t)
  BY <1>1, SameStatus
<1>6. Statuses' = Promise!Drop(cleared)
  BY <1>4, <1>5 DEF Promise!Drop, Statuses
<1> QED
  BY <1>3, <1>6 DEF Promise!Next

\* Initially every request is new.
LEMMA InitPromise == Init => Promise!Init
  BY DEF Init, Promise!Init, Statuses, StatusOf

\* Every step of the table is a step of the promise, or none.
LEMMA StepPromise == IInv /\ [Next]_vars => [Promise!Next]_Statuses
<1> SUFFICES ASSUME IInv, [Next]_vars PROVE [Promise!Next]_Statuses
  OBVIOUS
<1>0. TypeOK
  BY DEF IInv
<1>1. CASE UNCHANGED <<fate, call>>
  BY <1>1, SameStatus, Stutter
<1>2. CASE UNCHANGED vars
  BY <1>1, <1>2 DEF vars
<1>3. ASSUME NEW t \in Txn, Refuse(t) \/ Assign(t) \/ Arm(t) \/ PeerSend(t)
      PROVE  [Promise!Next]_Statuses
  <2>1. /\ fate' = fate
        /\ \A u \in Txn : call'[u] \in Registered <=> call[u] \in Registered
    BY <1>0, <1>3 DEF Refuse, Assign, Arm, PeerSend, TypeOK, histories, Registered
  <2> QED
    BY <2>1, SameStatus, Stutter
<1>4. ASSUME NEW t \in Txn, Register(t) PROVE [Promise!Next]_Statuses
  BY <1>4, RegisterPromise
<1>5. ASSUME NEW t \in Txn, PeerRefuses(t) PROVE [Promise!Next]_Statuses
  <2>1. /\ call[t] \in Registered
        /\ \A u \in Txn : u # t => call'[u] = call[u]
    BY <1>0, <1>5 DEF PeerRefuses, TypeOK, Registered
  <2>2. CASE pending[ids[t].hop] = t
    <3>1. End(t, "withdrawn")
      BY <1>5, <2>2 DEF PeerRefuses
    <3>2. fate[t] = "none"
      BY <1>0, <2>2, NoneAssumption DEF IInv, Agreement, Tabled, TypeOK, Identifiers
    <3> QED
      BY <2>1, <3>1, <3>2, OutcomeStep
  <2>3. CASE pending[ids[t].hop] # t
    <3>1. fate' = fate
      BY <1>5, <2>3 DEF PeerRefuses
    <3>2. fate[t] # "none"
      BY <2>1, <2>3 DEF IInv, Agreement, Findable
    <3> QED
      BY <2>1, <3>1, <3>2, SameStatus, Stutter
  <2> QED
    BY <2>2, <2>3
<1>6. ASSUME NEW t \in Txn, TimerExpires(t) PROVE [Promise!Next]_Statuses
  BY <1>1, <1>6 DEF TimerExpires, histories
<1>7. ASSUME NEW t \in Txn, TimeoutHandler(t) PROVE [Promise!Next]_Statuses
  <2> DEFINE victim == pending[ids[t].hop]
  <2>1. CASE victim = NoTxn
    BY <1>1, <1>7, <2>1 DEF TimeoutHandler
  <2>2. CASE victim # NoTxn
    <3>1. End(victim, "expired") /\ call' = call
      BY <1>7, <2>2 DEF TimeoutHandler
    <3>2. victim \in Txn /\ call[victim] \in Registered /\ fate[victim] = "none"
      BY <1>0, <2>2 DEF TypeOK, Identifiers, IInv, Agreement, Tabled
    <3> HIDE DEF victim
    <3> QED
      BY <3>1, <3>2, OutcomeStep
  <2> QED
    BY <2>1, <2>2
<1>8. ASSUME NEW t \in Txn, Answer(t) PROVE [Promise!Next]_Statuses
  <2>1. PICK h \in {wireIds[t].hop} \cup Rewrites :
          LET found == Match(h, wireIds[t].end, Command[t])
          IN  IF found = NoTxn
              THEN UNCHANGED <<table, timer, histories>>
              ELSE /\ Erase(found) /\ End(found, "answered") /\ CallBack(found)
                   /\ answeredBy' = [answeredBy EXCEPT ![found] = t]
                   /\ timer' = Cancelled({found})
    BY <1>8 DEF Answer
  <2>2. call' = call
    BY <1>8 DEF Answer
  <2> DEFINE found == Match(h, wireIds[t].end, Command[t])
  <2>3. CASE found = NoTxn
    BY <1>1, <2>1, <2>2, <2>3 DEF histories
  <2>4. CASE found # NoTxn
    <3>1. End(found, "answered")
      BY <2>1, <2>4
    <3>2. h \in Id /\ wireIds[t].end \in Id
      BY <1>0, CallerAssumption DEF TypeOK, Identifiers
    <3>3. found \in Txn /\ \E k \in Id : pending[k] = found
      BY <1>0, <2>4, <3>2, MatchIsPending
    <3> HIDE DEF found
    <3>4. call[found] \in Registered /\ fate[found] = "none"
      BY <2>4, <3>3, OneEntry DEF IInv, Agreement
    <3> QED
      BY <2>2, <3>1, <3>3, <3>4, OutcomeStep
  <2> QED
    BY <2>3, <2>4
<1>9. CASE PeerLost \/ PeerBack \/ Close
  BY <1>1, <1>9 DEF PeerLost, PeerBack, Close, histories
<1>10. CASE ClearPending
  BY <1>10, ClearPromise
<1> QED
  BY <1>2, <1>3, <1>4, <1>5, <1>6, <1>7, <1>8, <1>9, <1>10 DEF Next, SendStep

\* KeepsPromise: whatever the table, its index and its timers do, a request
\* that send() has registered is answered, timed out or dropped, once, and by
\* a step that completes no other.
THEOREM ClientKeepsPromise == Spec => KeepsPromise
  BY InitPromise, StepPromise, TableInvariance, PTL DEF Spec, KeepsPromise, Promise!Spec

(***************************************************************************)
(* Correlation.  Whose answer a request gets, and whose timer ends it, is  *)
(* decided by identifiers alone, so it is right as long as those of the    *)
(* requests made so far are apart, and identifiers drawn from the counters *)
(* are apart until a counter has come round.                               *)
(***************************************************************************)
\* The requests that have been given identifiers, and those written with them.
Given == {t \in Txn : call[t] \in Running \cup {"returned"} \/ fate[t] # "none"}
Returned == {t \in Txn : call[t] = "returned"}

HopOf == [t \in Txn |-> ids[t].hop]
EndOf == [t \in Txn |-> ids[t].end]
WireHop == [t \in Txn |-> wireIds[t].hop]
WireEnd == [t \in Txn |-> wireIds[t].end]

EndsApart == Apart(EndOf, WireEnd, Given, Returned)

\* An answer that comes back with another hop-by-hop does not hit on the one
\* of another request.
HopsApart ==
  /\ Apart(HopOf, WireHop, Given, Returned)
  /\ \A t \in Given : ids[t].hop \notin Rewrites

\* A request's timer is armed when it has been registered, never before.
Unarmed ==
  \A t \in Txn : timer[t] # "none" =>
    call[t] \in {"armed", "returned"} \/ (call[t] = "refused" /\ fate[t] # "none")

Correlated ==
  /\ Unarmed
  /\ EndsApart => IndexComplete
  /\ EndsApart /\ HopsApart => AnswerGoesHome
  /\ HopsApart => OwnTimeout

\* Only a registered request gets an outcome, and none is taken back.
LEMMA OutcomesStep ==
  ASSUME IInv, [Next]_vars, NEW u \in Txn
  PROVE  fate'[u] = fate[u] \/ (fate'[u] # "none" /\ call[u] \in Registered)
<1>0. TypeOK
  BY DEF IInv
<1>1. CASE UNCHANGED fate
  BY <1>1
<1>2. ASSUME NEW v \in Txn, NEW how \in {"answered", "expired", "withdrawn", "replaced"},
             call[v] \in Registered, End(v, how)
      PROVE  fate'[u] = fate[u] \/ (fate'[u] # "none" /\ call[u] \in Registered)
  BY <1>0, <1>2 DEF End, TypeOK
<1>3. \A h \in Id : pending[h] # NoTxn =>
        pending[h] \in Txn /\ call[pending[h]] \in Registered
  BY DEF IInv, TypeOK, Agreement, Tabled
<1>4. \A t \in Txn : ids[t].hop \in Id /\ wireIds[t].hop \in Id /\ wireIds[t].end \in Id
  BY <1>0 DEF TypeOK, Identifiers
<1>5. ASSUME NEW t \in Txn, Refuse(t) \/ Assign(t) \/ Arm(t) \/ PeerSend(t) \/ TimerExpires(t)
      PROVE  UNCHANGED fate
  BY <1>5 DEF Refuse, Assign, Arm, PeerSend, TimerExpires, histories
<1>6. ASSUME NEW t \in Txn, Register(t)
      PROVE  UNCHANGED fate \/ (pending[ids[t].hop] # NoTxn /\ End(pending[ids[t].hop], "replaced"))
  BY <1>6 DEF Register
<1>7. ASSUME NEW t \in Txn, PeerRefuses(t)
      PROVE  UNCHANGED fate \/ (End(t, "withdrawn") /\ call[t] \in Registered)
  BY <1>7 DEF PeerRefuses, Registered
<1>8. ASSUME NEW t \in Txn, TimeoutHandler(t)
      PROVE  UNCHANGED fate \/ (pending[ids[t].hop] # NoTxn /\ End(pending[ids[t].hop], "expired"))
  BY <1>8 DEF TimeoutHandler
<1>9. ASSUME NEW t \in Txn, Answer(t)
      PROVE  UNCHANGED fate \/ (\E v \in Txn : End(v, "answered") /\ call[v] \in Registered)
  <2>1. PICK h \in {wireIds[t].hop} \cup Rewrites :
          LET found == Match(h, wireIds[t].end, Command[t])
          IN  IF found = NoTxn
              THEN UNCHANGED <<table, timer, histories>>
              ELSE /\ Erase(found) /\ End(found, "answered") /\ CallBack(found)
                   /\ answeredBy' = [answeredBy EXCEPT ![found] = t]
                   /\ timer' = Cancelled({found})
    BY <1>9 DEF Answer
  <2> DEFINE found == Match(h, wireIds[t].end, Command[t])
  <2>2. CASE found = NoTxn
    BY <2>1, <2>2 DEF histories
  <2>3. CASE found # NoTxn
    <3>1. h \in Id
      BY <1>4, CallerAssumption
    <3>2. \E k \in Id : pending[k] = found
      BY <1>0, <1>4, <2>3, <3>1, MatchIsPending
    <3>3. found \in Txn /\ call[found] \in Registered
      BY <1>3, <2>3, <3>2
    <3>4. End(found, "answered")
      BY <2>1, <2>3
    <3> QED
      BY <3>3, <3>4
  <2> QED
    BY <2>2, <2>3
<1>10. CASE ClearPending
  <2>1. \A t \in Txn : fate'[t] = IF pending[ids[t].hop] = t THEN "closed" ELSE fate[t]
    BY <1>10 DEF ClearPending
  <2>2. u # NoTxn
    BY NoneAssumption
  <2> QED
    BY <1>3, <1>4, <2>1, <2>2
<1>11. CASE PeerLost \/ PeerBack \/ Close \/ UNCHANGED vars
  BY <1>1, <1>11 DEF PeerLost, PeerBack, Close, vars, histories
<1> QED
  BY <1>1, <1>2, <1>3, <1>4, <1>5, <1>6, <1>7, <1>8, <1>9, <1>10, <1>11 DEF Next, SendStep

\* What a step does to the requests that have identifiers.
GivesTo(t) == Assign(t) /\ Given' = Given \cup {t} /\ Returned' = Returned
Writes(t) == PeerSend(t) /\ Given' = Given /\ Returned' = Returned \cup {t}
GivesNone ==
  /\ Given' = Given /\ Returned' = Returned /\ nextEnd' = nextEnd
  /\ nextHop' = nextHop \/ PeerBack

\* A step draws from the counters for one request at most, which it gives its
\* first identifiers or writes, and what has been given or written stays.
LEMMA GivenStep ==
  ASSUME IInv, [Next]_vars
  PROVE  /\ \/ GivesNone
            \/ \E t \in Txn \ Given : GivesTo(t)
            \/ \E t \in Given \ Returned : Writes(t)
         /\ \A u \in Given : ids'[u] = ids[u]
         /\ \A u \in Returned : wireIds'[u] = wireIds[u]
<1>0. TypeOK /\ Fresh /\ Findable
  BY DEF IInv, Agreement
<1>1. \A u \in Txn : fate'[u] = fate[u] \/ (fate'[u] # "none" /\ call[u] \in Registered)
  BY OutcomesStep
<1> USE DEF Given, Returned, Running, Registered
<1>2. ASSUME UNCHANGED call
      PROVE  Given' = Given /\ Returned' = Returned
  BY <1>1, <1>2
<1>3. ASSUME NEW t \in Txn, Refuse(t)
      PROVE  Given' = Given /\ Returned' = Returned /\ UNCHANGED <<ids, wireIds>>
  <2>1. \A u \in Txn : call'[u] = IF u = t THEN "refused" ELSE call[u]
    BY <1>0, <1>3 DEF Refuse, TypeOK
  <2>2. call[t] = "idle" /\ fate' = fate /\ fate[t] = "none"
    BY <1>0, <1>3 DEF Refuse, Fresh, histories
  <2> QED
    BY <1>3, <2>1, <2>2 DEF Refuse
<1>4. ASSUME NEW t \in Txn, Assign(t)
      PROVE  /\ t \notin Given /\ Given' = Given \cup {t} /\ Returned' = Returned
             /\ wireIds' = wireIds /\ \A u \in Txn : u # t => ids'[u] = ids[u]
  <2>1. \A u \in Txn : call'[u] = IF u = t THEN "assigned" ELSE call[u]
    BY <1>0, <1>4 DEF Assign, TypeOK
  <2>2. call[t] = "idle" /\ fate' = fate /\ fate[t] = "none" /\ wireIds' = wireIds
    BY <1>0, <1>4 DEF Assign, Fresh, histories
  <2>3. \A u \in Txn : u # t => ids'[u] = ids[u]
    BY <1>0, <1>4 DEF Assign, TypeOK
  <2> QED
    BY <2>1, <2>2, <2>3
<1>5. ASSUME NEW t \in Txn, Register(t) \/ Arm(t)
      PROVE  Given' = Given /\ Returned' = Returned /\ UNCHANGED <<ids, wireIds>>
  <2>1. /\ call[t] \in Running /\ call'[t] \in Running
        /\ \A u \in Txn : u # t => call'[u] = call[u]
    BY <1>0, <1>5 DEF Register, Arm, TypeOK
  <2>2. UNCHANGED <<ids, wireIds>>
    BY <1>5 DEF Register, Arm
  <2>3. Given' = Given /\ Returned' = Returned
    BY <1>1, <2>1
  <2> QED
    BY <2>2, <2>3
<1>6. ASSUME NEW t \in Txn, PeerSend(t)
      PROVE  /\ t \in Given \ Returned /\ Given' = Given /\ Returned' = Returned \cup {t}
             /\ ids' = ids /\ \A u \in Txn : u # t => wireIds'[u] = wireIds[u]
  <2>1. \A u \in Txn : call'[u] = IF u = t THEN "returned" ELSE call[u]
    BY <1>0, <1>6 DEF PeerSend, TypeOK
  <2>2. call[t] = "armed" /\ ids' = ids
    BY <1>6 DEF PeerSend
  <2>3. \A u \in Txn : u # t => wireIds'[u] = wireIds[u]
    BY <1>0, <1>6 DEF PeerSend, TypeOK
  <2> QED
    BY <1>1, <2>1, <2>2, <2>3
<1>7. ASSUME NEW t \in Txn, PeerRefuses(t)
      PROVE  Given' = Given /\ Returned' = Returned /\ UNCHANGED <<ids, wireIds>>
  <2>1. \A u \in Txn : call'[u] = IF u = t THEN "refused" ELSE call[u]
    BY <1>0, <1>7 DEF PeerRefuses, TypeOK
  <2>2. call[t] = "armed"
    BY <1>7 DEF PeerRefuses
  <2>3. fate'[t] # "none"
    <3>1. CASE pending[ids[t].hop] = t
      BY <1>0, <1>7, <3>1 DEF PeerRefuses, End, TypeOK
    <3>2. CASE pending[ids[t].hop] # t
      BY <1>0, <1>7, <2>2, <3>2 DEF PeerRefuses, Findable
    <3> QED
      BY <3>1, <3>2
  <2> QED
    BY <1>1, <1>7, <2>1, <2>2, <2>3 DEF PeerRefuses
<1>8. ASSUME NEW t \in Txn, TimerExpires(t) \/ TimeoutHandler(t) \/ Answer(t)
      PROVE  GivesNone /\ UNCHANGED <<ids, wireIds>>
  <2>1. UNCHANGED <<call, ids, wireIds, nextHop, nextEnd>>
    BY <1>8 DEF TimerExpires, TimeoutHandler, Answer, counters
  <2> QED
    BY <1>2, <2>1 DEF GivesNone
<1>9. CASE PeerLost \/ PeerBack \/ Close \/ ClearPending \/ UNCHANGED vars
  <2>1. /\ UNCHANGED <<call, ids, wireIds, nextEnd>>
        /\ nextHop' = nextHop \/ PeerBack
    BY <1>9 DEF PeerLost, PeerBack, Close, ClearPending, vars, counters
  <2> QED
    BY <1>2, <2>1 DEF GivesNone
<1>10. ASSUME NEW t \in Txn, Refuse(t) \/ Register(t) \/ Arm(t) \/ PeerRefuses(t)
       PROVE  GivesNone /\ UNCHANGED <<ids, wireIds>>
  <2>1. UNCHANGED <<nextHop, nextEnd>>
    BY <1>10 DEF Refuse, Register, Arm, PeerRefuses, counters
  <2> QED
    BY <1>3, <1>5, <1>7, <1>10, <2>1 DEF GivesNone
<1> QED
  BY <1>4, <1>6, <1>8, <1>9, <1>10 DEF Next, SendStep, GivesTo, Writes

\* Identifiers that are apart after a step were apart before it.
LEMMA ApartBefore ==
  ASSUME IInv, [Next]_vars
  PROVE  (EndsApart' => EndsApart) /\ (HopsApart' => HopsApart)
<1>1. Given \subseteq Given' /\ Returned \subseteq Returned'
  BY GivenStep DEF GivesNone, GivesTo, Writes
<1>2. /\ \A u \in Given : ids'[u] = ids[u]
      /\ \A u \in Returned : wireIds'[u] = wireIds[u]
      /\ Given \subseteq Txn /\ Returned \subseteq Txn
  BY GivenStep DEF Given, Returned
<1>3. ASSUME NEW own, NEW owns, NEW written, NEW writes,
             \A u \in Given : owns[u] = own[u],
             \A u \in Returned : writes[u] = written[u],
             Apart(owns, writes, Given', Returned')
      PROVE  Apart(own, written, Given, Returned)
  BY <1>1, <1>3 DEF Apart
<1>4. /\ \A u \in Given : EndOf'[u] = EndOf[u] /\ HopOf'[u] = HopOf[u]
      /\ \A u \in Returned : WireEnd'[u] = WireEnd[u] /\ WireHop'[u] = WireHop[u]
  BY <1>2 DEF EndOf, HopOf, WireEnd, WireHop
<1>5. Apart(EndOf', WireEnd', Given', Returned') => Apart(EndOf, WireEnd, Given, Returned)
  BY <1>3, <1>4
<1>6. Apart(HopOf', WireHop', Given', Returned') => Apart(HopOf, WireHop, Given, Returned)
  BY <1>3, <1>4
<1>7. (\A t \in Given' : ids'[t].hop \notin Rewrites) => \A t \in Given : ids[t].hop \notin Rewrites
  BY <1>1, <1>2
<1> QED
  BY <1>5, <1>6, <1>7 DEF EndsApart, HopsApart

\* Timers start when Arm starts them.
LEMMA UnarmedStep ==
  ASSUME IInv, Unarmed, [Next]_vars
  PROVE  Unarmed'
<1> USE DEF Unarmed
<1>0. TypeOK /\ Findable
  BY DEF IInv, Agreement
<1>1. ASSUME NEW t \in Txn, NEW T
      PROVE  timer[t] = "none" => Cancelled(T)[t] = "none"
  BY DEF Cancelled
<1>2. \A u \in Txn : fate[u] # "none" => fate'[u] # "none"
  BY OutcomesStep
<1>3. ASSUME NEW t \in Txn, Refuse(t) \/ Assign(t) \/ Register(t) \/ Arm(t) \/ PeerSend(t)
      PROVE  Unarmed'
  <2>1. \A u \in Txn : u # t => call'[u] = call[u]
    BY <1>0, <1>3 DEF Refuse, Assign, Register, Arm, PeerSend, TypeOK
  <2>2. \A u \in Txn : u # t /\ timer[u] = "none" => timer'[u] = "none"
    BY <1>0, <1>1, <1>3 DEF Refuse, Assign, Register, Arm, PeerSend, TypeOK
  <2>3. call'[t] \in {"armed", "returned"} \/ (timer[t] = "none" /\ timer'[t] = "none")
    BY <1>0, <1>1, <1>3 DEF Refuse, Assign, Register, Arm, PeerSend, TypeOK
  <2> QED
    BY <1>2, <2>1, <2>2, <2>3
<1>4. ASSUME NEW t \in Txn, PeerRefuses(t)
      PROVE  Unarmed'
  <2>1. \A u \in Txn : call'[u] = IF u = t THEN "refused" ELSE call[u]
    BY <1>0, <1>4 DEF PeerRefuses, TypeOK
  <2>2. \A u \in Txn : timer[u] = "none" => timer'[u] = "none"
    BY <1>1, <1>4 DEF PeerRefuses
  <2>3. fate'[t] # "none"
    <3>1. CASE pending[ids[t].hop] = t
      BY <1>0, <1>4, <3>1 DEF PeerRefuses, End, TypeOK
    <3>2. CASE pending[ids[t].hop] # t
      BY <1>0, <1>4, <3>2 DEF PeerRefuses, Findable, Registered
    <3> QED
      BY <3>1, <3>2
  <2> QED
    BY <1>2, <2>1, <2>2, <2>3
<1>5. ASSUME UNCHANGED call, \A u \in Txn : timer[u] = "none" => timer'[u] = "none"
      PROVE  Unarmed'
  BY <1>2, <1>5
<1>6. ASSUME NEW t \in Txn, TimerExpires(t) \/ TimeoutHandler(t)
      PROVE  Unarmed'
  BY <1>0, <1>5, <1>6 DEF TimerExpires, TimeoutHandler, Cancelled, TypeOK
<1>7. ASSUME NEW t \in Txn, Answer(t)
      PROVE  Unarmed'
  <2>1. call' = call /\ (timer' = timer \/ \E T : timer' = Cancelled(T))
    BY <1>7 DEF Answer
  <2> QED
    BY <1>1, <1>5, <2>1
<1>8. CASE PeerLost \/ PeerBack \/ Close \/ UNCHANGED vars
  BY <1>5, <1>8 DEF PeerLost, PeerBack, Close, vars
<1>9. CASE ClearPending
  BY <1>1, <1>5, <1>9 DEF ClearPending
<1> QED
  BY <1>3, <1>4, <1>6, <1>7, <1>8, <1>9 DEF Next, SendStep

\* A request of the table has identifiers, and an end-to-end of its own.
LEMMA TabledEnds ==
  ASSUME IInv, EndsApart
  PROVE  /\ \A t \in Txn : pending[ids[t].hop] = t => t \in Given
         /\ \A t, u \in Given : ids[t].end = ids[u].end => t = u
<1>1. \A t \in Txn : pending[ids[t].hop] = t => call[t] \in Registered
  BY NoneAssumption DEF IInv, TypeOK, Identifiers, Agreement, Tabled
<1> QED
  BY <1>1 DEF Given, Registered, Running, EndsApart, Apart, EndOf

\* Taking an entry out takes no other one's index away.
LEMMA IndexAfterErase ==
  ASSUME IInv, EndsApart, IndexComplete, NEW v \in Txn, pending[ids[v].hop] = v,
         Erase(v), UNCHANGED ids
  PROVE  IndexComplete'
<1>1. /\ \A t \in Txn : ids[t].hop \in Id /\ ids[t].end \in Id /\ t # NoTxn
      /\ v \in Given
  BY NoneAssumption, TabledEnds DEF IInv, TypeOK, Identifiers
<1>2. /\ \A h \in Id : pending'[h] = IF h = ids[v].hop THEN NoTxn ELSE pending[h]
      /\ \A e \in Id : byEnd'[e] = IF e = ids[v].end THEN NoId ELSE byEnd[e]
  BY <1>1 DEF IInv, TypeOK, Erase
<1> SUFFICES ASSUME NEW t \in Txn, pending'[ids[t].hop] = t, ids[t].end # 0
             PROVE  byEnd'[ids[t].end] = ids[t].hop
  BY DEF IndexComplete
<1>3. pending[ids[t].hop] = t /\ t # v
  BY <1>1, <1>2
<1>4. ids[t].end # ids[v].end
  BY <1>1, <1>3, TabledEnds
<1> QED
  BY <1>1, <1>2, <1>3, <1>4 DEF IndexComplete

\* Registering indexes the new request and leaves the index of all others but
\* the one replaced.
LEMMA IndexAfterRegister ==
  ASSUME IInv, EndsApart, IndexComplete, NEW t \in Txn, Register(t)
  PROVE  IndexComplete'
<1> DEFINE h == ids[t].hop
           previous == pending[h]
<1>0. /\ \A u \in Txn : ids[u].hop \in Id /\ ids[u].end \in Id /\ u # NoTxn
      /\ previous \in Txn \cup {NoTxn} /\ ids' = ids
      /\ call[t] = "assigned" /\ t \in Given
  BY NoneAssumption DEF Register, IInv, TypeOK, Identifiers, Given, Running
<1>1. /\ \A k \in Id : pending'[k] = IF k = h THEN t ELSE pending[k]
      /\ \A e \in Id : byEnd'[e] = IF e = ids[t].end THEN h
                       ELSE IF previous # NoTxn /\ e = ids[previous].end THEN NoId
                       ELSE byEnd[e]
  BY <1>0 DEF Register, IInv, TypeOK
<1>2. previous # NoTxn => previous \in Txn /\ ids[previous].hop = h /\ previous \in Given
  BY <1>0, TabledEnds DEF IInv, Agreement, Tabled
<1> SUFFICES ASSUME NEW u \in Txn, pending'[ids[u].hop] = u, ids[u].end # 0
             PROVE  byEnd'[ids[u].end] = ids[u].hop
  BY <1>0 DEF IndexComplete
<1>3. CASE u = t
  BY <1>0, <1>1, <1>3
<1>4. CASE u # t
  <2> HIDE DEF h, previous
  <2>1. ids[u].hop # h /\ pending[ids[u].hop] = u /\ u \in Given
    BY <1>0, <1>1, <1>4, TabledEnds
  <2>2. ids[u].end # ids[t].end /\ (previous # NoTxn => ids[u].end # ids[previous].end)
    BY <1>0, <1>2, <1>4, <2>1, TabledEnds
  <2> QED
    BY <1>0, <1>1, <2>1, <2>2 DEF IndexComplete
<1> QED
  BY <1>3, <1>4

\* What a step does to the table besides: it takes out an entry, or all.
LEMMA TableStep ==
  ASSUME IInv, [Next]_vars
  PROVE  \/ UNCHANGED table
         \/ \E t \in Txn : Register(t)
         \/ \E v \in Txn : pending[ids[v].hop] = v /\ Erase(v) /\ UNCHANGED ids
         \/ ClearPending
<1>0. TypeOK
  BY DEF IInv
<1>1. \A t \in Txn : ids[t].hop \in Id /\ wireIds[t].hop \in Id /\ wireIds[t].end \in Id
  BY <1>0 DEF TypeOK, Identifiers
<1>2. \A k \in Id : pending[k] # NoTxn => pending[k] \in Txn /\ pending[ids[pending[k]].hop] = pending[k]
  BY DEF IInv, TypeOK, Agreement, Tabled
<1>3. ASSUME NEW t \in Txn, TimeoutHandler(t), ~UNCHANGED table
      PROVE  \E v \in Txn : pending[ids[v].hop] = v /\ Erase(v) /\ UNCHANGED ids
  BY <1>1, <1>2, <1>3 DEF TimeoutHandler
<1>4. ASSUME NEW t \in Txn, PeerRefuses(t), ~UNCHANGED table
      PROVE  pending[ids[t].hop] = t /\ Erase(t) /\ UNCHANGED ids
  BY <1>4 DEF PeerRefuses, table
<1>5. ASSUME NEW t \in Txn, Answer(t), ~UNCHANGED table
      PROVE  \E v \in Txn : pending[ids[v].hop] = v /\ Erase(v) /\ UNCHANGED ids
  <2>1. PICK h \in {wireIds[t].hop} \cup Rewrites :
          LET found == Match(h, wireIds[t].end, Command[t])
          IN  found # NoTxn /\ Erase(found)
    BY <1>5 DEF Answer
  <2> DEFINE found == Match(h, wireIds[t].end, Command[t])
  <2>2. h \in Id
    BY <1>1, CallerAssumption
  <2>3. found \in Txn /\ \E k \in Id : pending[k] = found
    BY <1>0, <1>1, <2>1, <2>2, MatchIsPending
  <2>4. Erase(found) /\ found # NoTxn
    BY <2>1
  <2> HIDE DEF found
  <2>5. pending[ids[found].hop] = found
    BY <1>2, <2>3, <2>4
  <2>6. UNCHANGED ids
    BY <1>5 DEF Answer
  <2> QED
    BY <2>3, <2>4, <2>5, <2>6
<1>6. ASSUME NEW t \in Txn, Refuse(t) \/ Assign(t) \/ Arm(t) \/ PeerSend(t) \/ TimerExpires(t)
      PROVE  UNCHANGED table
  BY <1>6 DEF Refuse, Assign, Arm, PeerSend, TimerExpires
<1>7. CASE PeerLost \/ PeerBack \/ Close \/ UNCHANGED vars
  BY <1>7 DEF PeerLost, PeerBack, Close, vars, table
<1> QED
  BY <1>3, <1>4, <1>5, <1>6, <1>7 DEF Next, SendStep

\* The index stays complete while end-to-end identifiers are apart.
LEMMA IndexCompleteStep ==
  ASSUME IInv, EndsApart, IndexComplete, [Next]_vars
  PROVE  IndexComplete'
<1>1. CASE UNCHANGED table
  <2>1. \A t \in Given : ids'[t] = ids[t]
    BY GivenStep
  <2>2. \A t \in Txn : pending[ids'[t].hop] = t => ids[t] = ids'[t]
    <3>1. TypeOK'
      BY TypesStep DEF IInv
    <3>2. \A t \in Txn : ids'[t].hop \in Id /\ t # NoTxn
      BY <3>1, NoneAssumption DEF TypeOK, Identifiers
    <3>3. \A k \in Id : pending[k] # NoTxn => pending[k] \in Given
      BY DEF IInv, TypeOK, Agreement, Tabled, Given, Registered, Running
    <3> QED
      BY <2>1, <3>2, <3>3
  <2> QED
    BY <1>1, <2>2 DEF IndexComplete, table
<1>2. ASSUME NEW t \in Txn, Register(t) PROVE IndexComplete'
  BY <1>2, IndexAfterRegister
<1>3. ASSUME NEW v \in Txn, pending[ids[v].hop] = v, Erase(v), UNCHANGED ids
      PROVE  IndexComplete'
  BY <1>3, IndexAfterErase
<1>4. CASE ClearPending
  <2>1. \A t \in Txn : ids'[t].hop \in Id /\ t # NoTxn
    BY <1>4, NoneAssumption DEF ClearPending, IInv, TypeOK, Identifiers
  <2> QED
    BY <1>4, <2>1 DEF ClearPending, IndexComplete
<1> QED
  BY <1>1, <1>2, <1>3, <1>4, TableStep

\* What an answer matches while identifiers are apart is its own request.
LEMMA MatchGoesHome ==
  ASSUME IInv, EndsApart, HopsApart, NEW t \in Returned,
         NEW h \in {wireIds[t].hop} \cup Rewrites, NEW c
  PROVE  Match(h, wireIds[t].end, c) \in {NoTxn, t}
<1> DEFINE e == wireIds[t].end
           found == Match(h, e, c)
<1>0. t \in Txn /\ t \in Given /\ h \in Id /\ e \in Id
  BY CallerAssumption DEF IInv, TypeOK, Identifiers, Given, Returned
<1>1. \A k \in Id : pending[k] # NoTxn =>
        pending[k] \in Given /\ ids[pending[k]].hop = k
  BY DEF IInv, TypeOK, Agreement, Tabled, Given, Registered, Running
<1>2. pending[h] \in {NoTxn, t}
  <2>1. \A u \in Given : u # t => ids[u].hop # h
    BY <1>0 DEF HopsApart, Apart, HopOf, WireHop, Given
  <2> QED
    BY <1>0, <1>1, <2>1
<1>3. byEnd[e] # NoId => pending[byEnd[e]] = t
  <2> SUFFICES ASSUME byEnd[e] # NoId PROVE pending[byEnd[e]] = t
    OBVIOUS
  <2>1. byEnd[e] \in Id /\ pending[byEnd[e]] # NoTxn /\ ids[pending[byEnd[e]]].end = e
    BY <1>0 DEF IInv, TypeOK, IndexSound
  <2>2. pending[byEnd[e]] \in Given
    BY <1>1, <2>1
  <2>3. \A u \in Given : u # t => ids[u].end # e
    BY <1>0 DEF EndsApart, Apart, EndOf, WireEnd, Given
  <2> QED
    BY <2>1, <2>2, <2>3
<1> QED
  BY <1>2, <1>3 DEF Match

\* An answer completes its own request while identifiers are apart.
LEMMA GoesHomeStep ==
  ASSUME IInv, EndsApart, HopsApart, AnswerGoesHome, [Next]_vars
  PROVE  AnswerGoesHome'
<1>0. TypeOK
  BY DEF IInv
<1>1. CASE UNCHANGED answeredBy
  BY <1>1 DEF AnswerGoesHome
<1>2. ASSUME NEW t \in Txn, Answer(t), ~UNCHANGED answeredBy PROVE AnswerGoesHome'
  <2>1. PICK h \in {wireIds[t].hop} \cup Rewrites :
          LET found == Match(h, wireIds[t].end, Command[t])
          IN  found # NoTxn /\ answeredBy' = [answeredBy EXCEPT ![found] = t]
    BY <1>2 DEF Answer, histories
  <2>2. t \in Returned
    BY <1>2 DEF Answer, Returned
  <2>3. Match(h, wireIds[t].end, Command[t]) = t
    BY <2>1, <2>2, MatchGoesHome
  <2>4. answeredBy' = [answeredBy EXCEPT ![t] = t]
    BY <2>1, <2>3
  <2> QED
    BY <1>0, <2>4 DEF AnswerGoesHome, TypeOK
<1>3. ASSUME NEW t \in Txn, \/ Refuse(t) \/ Assign(t) \/ SendStep(t)
                            \/ TimerExpires(t) \/ TimeoutHandler(t)
      PROVE  UNCHANGED answeredBy
  BY <1>3 DEF Refuse, Assign, SendStep, Register, Arm, PeerSend, PeerRefuses, TimerExpires,
              TimeoutHandler, histories
<1>4. CASE PeerLost \/ PeerBack \/ Close \/ ClearPending \/ UNCHANGED vars
  BY <1>1, <1>4 DEF PeerLost, PeerBack, Close, ClearPending, vars, histories
<1> QED
  BY <1>1, <1>2, <1>3, <1>4 DEF Next

\* A timeout ends the request whose timer it is, while hop-by-hop identifiers
\* are apart: what is registered under its hop-by-hop is itself.
LEMMA OwnTimeoutStep ==
  ASSUME IInv, Unarmed, HopsApart, OwnTimeout, [Next]_vars
  PROVE  OwnTimeout'
<1>0. TypeOK
  BY DEF IInv
<1>1. ASSUME \A t \in Txn : timer[t] \in {"expired", "done"} => timer'[t] \in {"expired", "done"},
             \A t \in Txn : fate'[t] = "expired" => fate[t] = "expired"
      PROVE  OwnTimeout'
  BY <1>1 DEF OwnTimeout
<1>2. ASSUME NEW T, NEW t \in Txn
      PROVE  timer[t] \in {"expired", "done"} => Cancelled(T)[t] \in {"expired", "done"}
  BY DEF Cancelled
<1>3. ASSUME NEW v, NEW how \in {"answered", "withdrawn", "replaced"}, End(v, how)
      PROVE  \A t \in Txn : fate'[t] = "expired" => fate[t] = "expired"
  BY <1>0, <1>3 DEF End, TypeOK
<1>4. ASSUME NEW t \in Txn, Refuse(t) \/ Assign(t) \/ Arm(t) \/ PeerSend(t) \/ TimerExpires(t)
      PROVE  OwnTimeout'
  <2>1. fate' = fate
    BY <1>4 DEF Refuse, Assign, Arm, PeerSend, TimerExpires, histories
  <2>2. ASSUME NEW u \in Txn, timer[u] \in {"expired", "done"}
        PROVE  timer'[u] \in {"expired", "done"}
    <3>1. CASE Refuse(t) \/ Assign(t)
      BY <2>2, <3>1 DEF Refuse, Assign
    <3>2. CASE Arm(t)
      BY <1>0, <2>2, <3>2 DEF Arm, Unarmed, TypeOK
    <3>3. CASE PeerSend(t)
      BY <1>2, <2>2, <3>3 DEF PeerSend
    <3>4. CASE TimerExpires(t)
      BY <1>0, <2>2, <3>4 DEF TimerExpires, TypeOK
    <3> QED
      BY <1>4, <3>1, <3>2, <3>3, <3>4
  <2> QED
    BY <1>1, <2>1, <2>2
<1>5. ASSUME NEW t \in Txn, Register(t)
      PROVE  OwnTimeout'
  <2>1. fate' = fate \/ End(pending[ids[t].hop], "replaced")
    BY <1>5 DEF Register
  <2>2. timer' = timer \/ \E T : timer' = Cancelled(T)
    BY <1>5 DEF Register
  <2> QED
    BY <1>1, <1>2, <1>3, <2>1, <2>2
<1>6. ASSUME NEW t \in Txn, PeerRefuses(t)
      PROVE  OwnTimeout'
  <2>1. fate' = fate \/ End(t, "withdrawn")
    BY <1>6 DEF PeerRefuses
  <2>2. timer' = Cancelled({t})
    BY <1>6 DEF PeerRefuses
  <2> QED
    BY <1>1, <1>2, <1>3, <2>1, <2>2
<1>7. ASSUME NEW t \in Txn, Answer(t)
      PROVE  OwnTimeout'
  <2>1. fate' = fate \/ \E v : End(v, "answered")
    BY <1>7 DEF Answer, histories
  <2>2. timer' = timer \/ \E T : timer' = Cancelled(T)
    BY <1>7 DEF Answer
  <2> QED
    BY <1>1, <1>2, <1>3, <2>1, <2>2
<1>8. ASSUME NEW t \in Txn, TimeoutHandler(t)
      PROVE  OwnTimeout'
  <2> DEFINE victim == pending[ids[t].hop]
  <2>1. /\ ids[t].hop \in Id
        /\ \A k \in Id : pending[k] # NoTxn => pending[k] \in Given /\ ids[pending[k]].hop = k
    BY DEF IInv, TypeOK, Identifiers, Agreement, Tabled, Given, Registered, Running
  <2>2. t \in Given
    BY <1>8 DEF TimeoutHandler, Unarmed, Given, Running
  <2>3. victim \in {NoTxn, t}
    BY <2>1, <2>2 DEF HopsApart, Apart, HopOf, Given
  <2>4. timer' = [Cancelled(Released({victim})) EXCEPT ![t] = "done"]
    BY <1>8 DEF TimeoutHandler
  <2>5. fate' = fate \/ (victim = t /\ End(t, "expired"))
    BY <1>8, <2>3 DEF TimeoutHandler
  <2>6. /\ timer'[t] = "done"
        /\ \A u \in Txn : timer[u] \in {"expired", "done"} => timer'[u] \in {"expired", "done"}
    <3> HIDE DEF victim
    <3>1. Cancelled(Released({victim})) \in [Txn -> TimerStates]
      BY <1>0, CancelledType
    <3> QED
      BY <1>2, <2>4, <3>1
  <2>7. \A u \in Txn : fate'[u] = "expired" => fate[u] = "expired" \/ u = t
    <3>1. CASE fate' = fate
      BY <3>1
    <3>2. CASE End(t, "expired")
      BY <1>0, <3>2 DEF End, TypeOK
    <3> QED
      BY <2>5, <3>1, <3>2
  <2> QED
    BY <2>6, <2>7 DEF OwnTimeout
<1>9. CASE PeerLost \/ PeerBack \/ Close \/ UNCHANGED vars
  BY <1>1, <1>9 DEF PeerLost, PeerBack, Close, vars, histories
<1>10. CASE ClearPending
  <2>1. \A t \in Txn : fate'[t] = "expired" => fate[t] = "expired"
    BY <1>10 DEF ClearPending
  <2>2. \E T : timer' = Cancelled(T)
    BY <1>10 DEF ClearPending
  <2> QED
    BY <1>1, <1>2, <2>1, <2>2
<1> QED
  BY <1>4, <1>5, <1>6, <1>7, <1>8, <1>9, <1>10 DEF Next, SendStep

\* Correlated: whatever identifiers the callers, the counters and the new Peers
\* bring, as long as the ones given so far are apart the index is complete, an
\* answer completes its own request and a timeout its own.
THEOREM CorrelationInvariance == Spec => []Correlated
<1>1. Init => Correlated
  <2> SUFFICES ASSUME Init PROVE Correlated
    OBVIOUS
  <2>1. \A t \in Txn : ids[t].hop \in Id /\ t # NoTxn
    BY InitTypes, NoneAssumption DEF TypeOK, Identifiers
  <2>2. IndexComplete
    BY <2>1 DEF Init, IndexComplete
  <2>3. Unarmed /\ AnswerGoesHome /\ OwnTimeout
    BY DEF Init, Unarmed, AnswerGoesHome, OwnTimeout
  <2> QED
    BY <2>2, <2>3 DEF Correlated
<1>2. IInv /\ Correlated /\ [Next]_vars => Correlated'
  <2> SUFFICES ASSUME IInv, Correlated, [Next]_vars PROVE Correlated'
    OBVIOUS
  <2>1. (EndsApart' => EndsApart) /\ (HopsApart' => HopsApart)
    BY ApartBefore
  <2>2. Unarmed'
    BY UnarmedStep DEF Correlated
  <2>3. EndsApart' => IndexComplete'
    BY <2>1, IndexCompleteStep DEF Correlated
  <2>4. (EndsApart /\ HopsApart)' => AnswerGoesHome'
    BY <2>1, GoesHomeStep DEF Correlated
  <2>5. HopsApart' => OwnTimeout'
    BY <2>1, OwnTimeoutStep DEF Correlated
  <2> QED
    BY <2>2, <2>3, <2>4, <2>5 DEF Correlated
<1> QED
  BY <1>1, <1>2, TableInvariance, PTL DEF Spec

\* IndexComplete: while the end-to-end identifiers given are apart, register
\* never drops a pending request from pendingByE2e_, whatever is replaced,
\* withdrawn, answered or expired around it.
THEOREM IndexCompleteWhileApart == Spec => [](EndsApart => IndexComplete)
<1>1. Correlated => (EndsApart => IndexComplete)
  BY DEF Correlated
<1> QED
  BY <1>1, CorrelationInvariance, PTL

\* AnswerGoesHome: while identifiers are apart, resolve matches an answer, also
\* a late one or one with a hop-by-hop of its own, to the request it answers.
THEOREM AnswerGoesHomeWhileApart == Spec => [](EndsApart /\ HopsApart => AnswerGoesHome)
<1>1. Correlated => (EndsApart /\ HopsApart => AnswerGoesHome)
  BY DEF Correlated
<1> QED
  BY <1>1, CorrelationInvariance, PTL

\* OwnTimeout: while hop-by-hop identifiers are apart, a timer's handler, which
\* knows its hop-by-hop only, ends the request the timer was armed for.
THEOREM OwnTimeoutWhileApart == Spec => [](HopsApart => OwnTimeout)
<1>1. Correlated => (HopsApart => OwnTimeout)
  BY DEF Correlated
<1> QED
  BY <1>1, CorrelationInvariance, PTL

(***************************************************************************)
(* Identifiers from the counters.  Callers that leave an identifier to its *)
(* counter get identifiers apart from all others until it has come round.  *)
(***************************************************************************)
EndsFromCounter ==
  CallerEnds = {0} /\ IsFiniteSet(Txn) /\ Cardinality(Txn) + 1 < IdMod

\* One connection, and answers keep their hop-by-hop or bring one that is not
\* going to be drawn.
HopsFromCounter ==
  /\ CallerHops = {0} /\ IsFiniteSet(Txn) /\ Cardinality(Txn) + 1 < IdMod
  /\ MaxReconnect = 0
  /\ \A h \in Rewrites : Offset(IdMod, FirstHop, h) > Cardinality(Txn)

DrawnEnds == Drawn(IdMod, FirstEnd, nextEnd, EndOf, WireEnd, Given, Returned)
DrawnHops == Drawn(IdMod, FirstHop, nextHop, HopOf, WireHop, Given, Returned)

\* No more requests have identifiers than there are.
LEMMA GivenFinite ==
  ASSUME IsFiniteSet(Txn), Cardinality(Txn) + 1 < IdMod
  PROVE  /\ IsFiniteSet(Given) /\ Cardinality(Given) <= Cardinality(Txn)
         /\ IsFiniteSet(Given') /\ Cardinality(Given') + 1 < IdMod
         /\ Cardinality(Given) \in Nat /\ Cardinality(Txn) \in Nat
<1>1. Given \subseteq Txn /\ Given' \subseteq Txn
  BY DEF Given
<1>2. /\ IsFiniteSet(Given) /\ IsFiniteSet(Given')
      /\ Cardinality(Given) <= Cardinality(Txn) /\ Cardinality(Given') <= Cardinality(Txn)
  BY <1>1, FS_Subset
<1> QED
  BY <1>2, FS_CardinalityType, IdAssumption

\* What the counters and the requests agree on at the start.
LEMMA InitDrawn == Init => DrawnEnds /\ DrawnHops
<1> SUFFICES ASSUME Init PROVE DrawnEnds /\ DrawnHops
  OBVIOUS
<1>1. Given = {} /\ Returned = {} /\ nextEnd = FirstEnd /\ nextHop = FirstHop
  BY DEF Init, Given, Returned, Running
<1>2. FirstEnd \in 0 .. (IdMod - 1) /\ FirstHop \in 0 .. (IdMod - 1)
  BY SeedAssumption DEF Id
<1> QED
  BY <1>1, <1>2, NoneDrawn, IdAssumption DEF DrawnEnds, DrawnHops

\* A request that is given identifiers is given the counters' values.
LEMMA GivesDrawn ==
  ASSUME IInv, NEW t \in Txn, GivesTo(t)
  PROVE  /\ wireIds' = wireIds
         /\ CallerEnds = {0} => ids'[t].end = nextEnd /\ nextEnd' = (nextEnd + 1) % IdMod
         /\ CallerHops = {0} => ids'[t].hop = nextHop /\ nextHop' = (nextHop + 1) % IdMod
<1>1. PICK h \in CallerHops, e \in CallerEnds :
        /\ ids' = [ids EXCEPT ![t] = Assigned([hop |-> h, end |-> e])]
        /\ Draw([hop |-> h, end |-> e])
  BY DEF GivesTo, Assign
<1>2. ids'[t] = Assigned([hop |-> h, end |-> e])
  BY <1>1 DEF IInv, TypeOK
<1>3. CallerEnds = {0} => ids'[t].end = nextEnd /\ nextEnd' = (nextEnd + 1) % IdMod
  BY <1>1, <1>2 DEF Assigned, Draw, Increment
<1>4. CallerHops = {0} => ids'[t].hop = nextHop /\ nextHop' = (nextHop + 1) % IdMod
  BY <1>1, <1>2 DEF Assigned, Draw, Increment
<1> QED
  BY <1>3, <1>4 DEF GivesTo, Assign

\* A request is written with the identifiers it has, or the counters' values in
\* place of those that are 0.
LEMMA WritesDrawn ==
  ASSUME IInv, NEW t \in Txn, Writes(t)
  PROVE  /\ ids' = ids
         /\ wireIds'[t].end = IF ids[t].end = 0 THEN nextEnd ELSE ids[t].end
         /\ nextEnd' = IF ids[t].end = 0 THEN (nextEnd + 1) % IdMod ELSE nextEnd
         /\ wireIds'[t].hop = IF ids[t].hop = 0 THEN nextHop ELSE ids[t].hop
         /\ nextHop' = IF ids[t].hop = 0 THEN (nextHop + 1) % IdMod ELSE nextHop
<1>1. wireIds'[t] = Assigned(ids[t])
  BY DEF IInv, TypeOK, Writes, PeerSend
<1> QED
  BY <1>1 DEF Writes, PeerSend, Assigned, Draw, Increment

\* The end-to-end counter stays ahead of what it has given.
LEMMA DrawnEndsStep ==
  ASSUME EndsFromCounter, IInv, DrawnEnds, [Next]_vars
  PROVE  DrawnEnds'
<1>1. /\ \A u \in Given : EndOf'[u] = EndOf[u]
      /\ \A u \in Returned : WireEnd'[u] = WireEnd[u]
      /\ Returned \subseteq Given
      /\ \A u \in Txn : EndOf[u] = ids[u].end /\ WireEnd[u] = wireIds[u].end
      /\ \A u \in Txn : EndOf'[u] = ids'[u].end /\ WireEnd'[u] = wireIds'[u].end
  BY GivenStep DEF EndOf, WireEnd, Given, Returned
<1>2. \/ nextEnd' = nextEnd /\ Given' = Given /\ Returned' = Returned
      \/ \E t : /\ t \notin Given /\ Given' = Given \cup {t} /\ Returned' = Returned
                /\ EndOf'[t] = nextEnd /\ nextEnd' = (nextEnd + 1) % IdMod
      \/ \E t \in Given \ Returned :
           /\ Given' = Given /\ Returned' = Returned \cup {t}
           /\ WireEnd'[t] = IF EndOf[t] = 0 THEN nextEnd ELSE EndOf[t]
           /\ nextEnd' = IF EndOf[t] = 0 THEN (nextEnd + 1) % IdMod ELSE nextEnd
  <2>1. CASE GivesNone
    BY <2>1 DEF GivesNone
  <2>2. ASSUME NEW t \in Txn \ Given, GivesTo(t)
        PROVE  /\ Given' = Given \cup {t} /\ Returned' = Returned
               /\ EndOf'[t] = nextEnd /\ nextEnd' = (nextEnd + 1) % IdMod
    BY <1>1, <2>2, GivesDrawn DEF GivesTo, EndsFromCounter
  <2>3. ASSUME NEW t \in Given \ Returned, Writes(t)
        PROVE  /\ Given' = Given /\ Returned' = Returned \cup {t}
               /\ WireEnd'[t] = IF EndOf[t] = 0 THEN nextEnd ELSE EndOf[t]
               /\ nextEnd' = IF EndOf[t] = 0 THEN (nextEnd + 1) % IdMod ELSE nextEnd
    <3>1. t \in Txn
      BY DEF Given
    <3> QED
      BY <1>1, <2>3, <3>1, WritesDrawn DEF Writes
  <2> QED
    BY <2>1, <2>2, <2>3, GivenStep
<1>3. /\ IdMod \in Nat \ {0, 1} /\ FirstEnd \in 0 .. (IdMod - 1)
      /\ IsFiniteSet(Given') /\ Cardinality(Given') + 1 < IdMod
  BY GivenFinite, IdAssumption, SeedAssumption DEF EndsFromCounter, Id
<1>4. Drawn(IdMod, FirstEnd, nextEnd, EndOf, WireEnd, Given, Returned)
  BY DEF DrawnEnds
<1>5. Draws(IdMod, nextEnd, nextEnd', EndOf, EndOf', WireEnd, WireEnd', Given, Given', Returned, Returned')
  BY <1>1, <1>2 DEF Draws
<1> QED
  BY <1>3, <1>4, <1>5, DrawnStep DEF DrawnEnds

\* So does the hop-by-hop counter, as long as the connection lasts.
LEMMA DrawnHopsStep ==
  ASSUME HopsFromCounter, IInv, DrawnHops, [Next]_vars
  PROVE  DrawnHops'
<1>1. /\ \A u \in Given : HopOf'[u] = HopOf[u]
      /\ \A u \in Returned : WireHop'[u] = WireHop[u]
      /\ Returned \subseteq Given
      /\ \A u \in Txn : HopOf[u] = ids[u].hop /\ WireHop[u] = wireIds[u].hop
      /\ \A u \in Txn : HopOf'[u] = ids'[u].hop /\ WireHop'[u] = wireIds'[u].hop
  BY GivenStep DEF HopOf, WireHop, Given, Returned
<1>2. \/ nextHop' = nextHop /\ Given' = Given /\ Returned' = Returned
      \/ \E t : /\ t \notin Given /\ Given' = Given \cup {t} /\ Returned' = Returned
                /\ HopOf'[t] = nextHop /\ nextHop' = (nextHop + 1) % IdMod
      \/ \E t \in Given \ Returned :
           /\ Given' = Given /\ Returned' = Returned \cup {t}
           /\ WireHop'[t] = IF HopOf[t] = 0 THEN nextHop ELSE HopOf[t]
           /\ nextHop' = IF HopOf[t] = 0 THEN (nextHop + 1) % IdMod ELSE nextHop
  <2>1. CASE GivesNone
    <3>1. ~PeerBack
      BY DEF PeerBack, HopsFromCounter, IInv, TypeOK
    <3> QED
      BY <2>1, <3>1 DEF GivesNone
  <2>2. ASSUME NEW t \in Txn \ Given, GivesTo(t)
        PROVE  /\ Given' = Given \cup {t} /\ Returned' = Returned
               /\ HopOf'[t] = nextHop /\ nextHop' = (nextHop + 1) % IdMod
    BY <1>1, <2>2, GivesDrawn DEF GivesTo, HopsFromCounter
  <2>3. ASSUME NEW t \in Given \ Returned, Writes(t)
        PROVE  /\ Given' = Given /\ Returned' = Returned \cup {t}
               /\ WireHop'[t] = IF HopOf[t] = 0 THEN nextHop ELSE HopOf[t]
               /\ nextHop' = IF HopOf[t] = 0 THEN (nextHop + 1) % IdMod ELSE nextHop
    <3>1. t \in Txn
      BY DEF Given
    <3> QED
      BY <1>1, <2>3, <3>1, WritesDrawn DEF Writes
  <2> QED
    BY <2>1, <2>2, <2>3, GivenStep
<1>3. /\ IdMod \in Nat \ {0, 1} /\ FirstHop \in 0 .. (IdMod - 1)
      /\ IsFiniteSet(Given') /\ Cardinality(Given') + 1 < IdMod
  BY GivenFinite, IdAssumption, SeedAssumption DEF HopsFromCounter, Id
<1>4. Drawn(IdMod, FirstHop, nextHop, HopOf, WireHop, Given, Returned)
  BY DEF DrawnHops
<1>5. Draws(IdMod, nextHop, nextHop', HopOf, HopOf', WireHop, WireHop', Given, Given', Returned, Returned')
  BY <1>1, <1>2 DEF Draws
<1> QED
  BY <1>3, <1>4, <1>5, DrawnStep DEF DrawnHops

\* The end-to-end identifiers of fewer requests than the counter has values are
\* apart, across connections and through its wrap.
THEOREM EndsFromCounterApart ==
  ASSUME EndsFromCounter
  PROVE  Spec => []EndsApart
<1>1. Init => DrawnEnds
  BY InitDrawn
<1>2. IInv /\ DrawnEnds /\ [Next]_vars => DrawnEnds'
  BY DrawnEndsStep
<1>3. DrawnEnds => EndsApart
  BY DEF DrawnEnds, Drawn, EndsApart
<1> QED
  BY <1>1, <1>2, <1>3, TableInvariance, PTL DEF Spec

\* So are the hop-by-hop identifiers of one connection's requests, and no
\* answer that comes back with another one hits on them.
THEOREM HopsFromCounterApart ==
  ASSUME HopsFromCounter
  PROVE  Spec => []HopsApart
<1>1. Init => DrawnHops
  BY InitDrawn
<1>2. IInv /\ DrawnHops /\ [Next]_vars => DrawnHops'
  BY DrawnHopsStep
<1>3. DrawnHops => HopsApart
  <2> SUFFICES ASSUME DrawnHops PROVE HopsApart
    OBVIOUS
  <2>1. Apart(HopOf, WireHop, Given, Returned)
    BY DEF DrawnHops, Drawn
  <2>2. ASSUME NEW t \in Given
        PROVE  ids[t].hop \notin Rewrites
    <3>1. Offset(IdMod, FirstHop, HopOf[t]) \in 0 .. Cardinality(Given)
      BY DrawnNear, GivenFinite, IdAssumption, SeedAssumption
         DEF DrawnHops, HopsFromCounter, Id
    <3>2. HopOf[t] = ids[t].hop
      BY DEF HopOf, Given
    <3>3. Cardinality(Given) <= Cardinality(Txn) /\ Cardinality(Given) \in Nat /\ Cardinality(Txn) \in Nat
      BY GivenFinite DEF HopsFromCounter
    <3> QED
      BY <3>1, <3>2, <3>3 DEF HopsFromCounter
  <2> QED
    BY <2>1, <2>2 DEF HopsApart
<1> QED
  BY <1>1, <1>2, <1>3, TableInvariance, PTL DEF Spec

\* IndexComplete, with end-to-end identifiers from the node's counter.
THEOREM IndexCompleteFromCounter ==
  ASSUME EndsFromCounter
  PROVE  Spec => []IndexComplete
  BY EndsFromCounterApart, IndexCompleteWhileApart, PTL

\* AnswerGoesHome, with all identifiers from the counters of one connection.
THEOREM AnswerGoesHomeFromCounters ==
  ASSUME EndsFromCounter, HopsFromCounter
  PROVE  Spec => []AnswerGoesHome
  BY EndsFromCounterApart, HopsFromCounterApart, AnswerGoesHomeWhileApart, PTL

\* OwnTimeout, with hop-by-hop identifiers from the counter of one connection.
THEOREM OwnTimeoutFromCounter ==
  ASSUME HopsFromCounter
  PROVE  Spec => []OwnTimeout
  BY HopsFromCounterApart, OwnTimeoutWhileApart, PTL
=============================================================================
