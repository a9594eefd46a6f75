------------------------- MODULE ClientTransactions -------------------------
(***************************************************************************)
(* The transactions of a DiameterClient (src/src/DiameterClient.cpp): the  *)
(* table pending_ of requests awaiting an answer, keyed by hop-by-hop      *)
(* identifier, its index pendingByE2e_ by end-to-end identifier, and one   *)
(* timer per request.                                                      *)
(*                                                                         *)
(* send() runs on any thread and takes pendingMutex_ only to register or   *)
(* withdraw its request: it is one action per stretch of code between two  *)
(* points where another thread may come in.  Answers (onPeerRequest and    *)
(* tryResolve) and timer handlers run on the io thread, one at a time.  A  *)
(* call made on that thread (from a callback) excludes them while it runs. *)
(* Messages shorter than a header are rejected before anything changes and *)
(* are left out; so are metrics and logging.                               *)
(***************************************************************************)
EXTENDS Naturals

CONSTANTS
  Txn,          \* the calls of send(), each of which makes one request
  NoTxn, NoId,  \* "no entry" in the table and in its index
  IdMod,        \* identifiers are counted modulo IdMod (2^32 in the code)
  FirstHop, FirstEnd,  \* the seeds of the counters
  Reseeds,      \* the hop-by-hop seeds a new Peer may draw
  CallerHops, CallerEnds,  \* identifiers callers put in a request, 0 for none
  Command,      \* Command[t]: the command code of request t
  TimedCalls,   \* the calls with timeoutMs > 0
  IoCalls,      \* the calls made on the io thread
  Rewrites,     \* hop-by-hop identifiers an answer may come back with instead
  MaxAnswers,   \* bound: answers received to one request, duplicates included
  MaxReconnect  \* bound: reconnections

Id == 0 .. (IdMod - 1)

ASSUME IdAssumption == IdMod \in Nat \ {0, 1}
ASSUME SeedAssumption ==
  FirstHop \in Id /\ FirstEnd \in Id /\ Reseeds \subseteq Id
ASSUME CallerAssumption ==
  CallerHops \subseteq Id /\ CallerEnds \subseteq Id /\ Rewrites \subseteq Id
ASSUME NoneAssumption == NoTxn \notin Txn /\ NoId \notin Id
ASSUME CallsAssumption == TimedCalls \subseteq Txn /\ IoCalls \subseteq Txn
ASSUME BoundsAssumption == MaxAnswers \in Nat /\ MaxReconnect \in Nat

VARIABLES
  call,        \* call[t]: where the call of send() is
  ids,         \* ids[t]: the identifiers send() registers the request with
  wireIds,     \* wireIds[t]: the identifiers the request is written with
  pending,     \* pending[h]: the request registered under hop-by-hop h
  byEnd,       \* byEnd[e]: pendingByE2e_, the hop-by-hop indexed under e
  timer,       \* timer[t]: the PendingRequest's timer
  fate,        \* fate[t]: how request t left the table (history)
  callbacks,   \* callbacks[t]: onResponse and onTimeout calls made (history)
  answeredBy,  \* answeredBy[t]: the request whose answer t got (history)
  answers,     \* answers[t]: answers to t received so far (bounded)
  open,        \* the current Peer is in state Open
  closing,     \* close() has closed the Peer and not yet cleared the table
  nextHop, nextEnd,  \* the counters of the current Peer and of the node
  reconnects   \* reconnections so far (bounded)

table == <<pending, byEnd>>
histories == <<fate, callbacks, answeredBy>>
session == <<open, closing, reconnects>>
counters == <<nextHop, nextEnd>>
vars == <<call, ids, wireIds, pending, byEnd, timer, fate, callbacks,
          answeredBy, answers, open, closing, nextHop, nextEnd, reconnects>>

Identifiers == [hop : Id, end : Id]
NoIdentifiers == [hop |-> 0, end |-> 0]
Running == {"assigned", "registered", "armed"}

TypeOK ==
  /\ call \in [Txn -> {"idle", "returned", "refused"} \cup Running]
  /\ ids \in [Txn -> Identifiers]
  /\ wireIds \in [Txn -> Identifiers]
  /\ pending \in [Id -> Txn \cup {NoTxn}]
  /\ byEnd \in [Id -> Id \cup {NoId}]
  /\ timer \in [Txn -> {"none", "armed", "expired", "done", "off"}]
  /\ fate \in [Txn -> {"none", "answered", "expired", "withdrawn", "closed", "replaced"}]
  /\ callbacks \in [Txn -> Nat]
  /\ answeredBy \in [Txn -> Txn \cup {NoTxn}]
  /\ answers \in [Txn -> Nat]
  /\ open \in BOOLEAN /\ closing \in BOOLEAN
  /\ nextHop \in Id /\ nextEnd \in Id
  /\ reconnects \in Nat

Init ==
  /\ call = [t \in Txn |-> "idle"]
  /\ ids = [t \in Txn |-> NoIdentifiers]
  /\ wireIds = [t \in Txn |-> NoIdentifiers]
  /\ pending = [h \in Id |-> NoTxn]
  /\ byEnd = [e \in Id |-> NoId]
  /\ timer = [t \in Txn |-> "none"]
  /\ fate = [t \in Txn |-> "none"]
  /\ callbacks = [t \in Txn |-> 0]
  /\ answeredBy = [t \in Txn |-> NoTxn]
  /\ answers = [t \in Txn |-> 0]
  /\ open = TRUE
  /\ closing = FALSE
  /\ nextHop = FirstHop
  /\ nextEnd = FirstEnd
  /\ reconnects = 0

(***************************************************************************)
(* Identifiers, the table and the timers.                                  *)
(***************************************************************************)
\* A counter that does not come back to zero.
Increment_NoWrap(n) == n + 1

\* Peer::nextHopByHop and Peer::nextEndToEnd: fetch_add on 32 bits.
Increment(n) == (n + 1) % IdMod

\* The identifiers a request gets when it comes with i: a counter's value in
\* place of a zero.  The counter may itself be at zero.
Assigned(i) == [hop |-> IF i.hop = 0 THEN nextHop ELSE i.hop,
                end |-> IF i.end = 0 THEN nextEnd ELSE i.end]
Draw(i) ==
  /\ nextHop' = IF i.hop = 0 THEN Increment(nextHop) ELSE nextHop
  /\ nextEnd' = IF i.end = 0 THEN Increment(nextEnd) ELSE nextEnd

\* steady_timer::cancel, and the destructor of a timer: they are too late for
\* a handler that is already queued.
Cancelled(T) ==
  [t \in Txn |-> IF t \in T /\ timer[t] = "armed" THEN "off" ELSE timer[t]]

\* Entries that leave the table die with it once send() has let go of them.
Released(T) == {t \in T \cap Txn : call[t] = "returned"}

IoFree == \A t \in IoCalls : call[t] \notin Running

Erase(t) ==
  /\ pending' = [pending EXCEPT ![ids[t].hop] = NoTxn]
  /\ byEnd' = [byEnd EXCEPT ![ids[t].end] = NoId]

End(t, how) == fate' = [fate EXCEPT ![t] = how]
CallBack(t) == callbacks' = [callbacks EXCEPT ![t] = @ + 1]

(***************************************************************************)
(* send().                                                                 *)
(***************************************************************************)
\* The first check: not connected.
Refuse(t) ==
  /\ call[t] = "idle"
  /\ ~open
  /\ call' = [call EXCEPT ![t] = "refused"]
  /\ UNCHANGED <<ids, wireIds, table, timer, histories, answers, session, counters>>

Assign(t) ==
  /\ call[t] = "idle"
  /\ open
  /\ t \in IoCalls => IoFree
  /\ \E h \in CallerHops, e \in CallerEnds :
       LET given == [hop |-> h, end |-> e]
       IN  ids' = [ids EXCEPT ![t] = Assigned(given)] /\ Draw(given)
  /\ call' = [call EXCEPT ![t] = "assigned"]
  /\ UNCHANGED <<wireIds, table, timer, histories, answers, session>>

\* Registering that leaves the index pointing at the entry it replaces.
Register_KeepsOldIndex(t) ==
  /\ call[t] = "assigned"
  /\ pending' = [pending EXCEPT ![ids[t].hop] = t]
  /\ byEnd' = [byEnd EXCEPT ![ids[t].end] = ids[t].hop]
  /\ call' = [call EXCEPT ![t] = "registered"]
  /\ UNCHANGED <<ids, wireIds, timer, histories, answers, session, counters>>

\* Registering that does not index the request by its end-to-end.
Register_NotIndexed(t) ==
  /\ call[t] = "assigned"
  /\ pending' = [pending EXCEPT ![ids[t].hop] = t]
  /\ call' = [call EXCEPT ![t] = "registered"]
  /\ UNCHANGED <<ids, wireIds, byEnd, timer, histories, answers, session, counters>>

\* Under the lock: the newest request wins its hop-by-hop, and its end-to-end.
Register(t) ==
  LET previous == pending[ids[t].hop]
      byEndLeft == IF previous = NoTxn THEN byEnd
                   ELSE [byEnd EXCEPT ![ids[previous].end] = NoId]
  IN  /\ call[t] = "assigned"
      /\ pending' = [pending EXCEPT ![ids[t].hop] = t]
      /\ byEnd' = [byEndLeft EXCEPT ![ids[t].end] = ids[t].hop]
      /\ IF previous = NoTxn
         THEN UNCHANGED <<fate, timer>>
         ELSE End(previous, "replaced") /\ timer' = Cancelled(Released({previous}))
      /\ call' = [call EXCEPT ![t] = "registered"]
      /\ UNCHANGED <<ids, wireIds, callbacks, answeredBy, answers, session, counters>>

Arm(t) ==
  /\ call[t] = "registered"
  /\ timer' = [timer EXCEPT ![t] = IF t \in TimedCalls THEN "armed" ELSE @]
  /\ call' = [call EXCEPT ![t] = "armed"]
  /\ UNCHANGED <<ids, wireIds, table, histories, answers, session, counters>>

\* Peer::send accepts: it replaces an identifier that is still zero.  send()
\* returns, and the timer of a request no longer in the table goes with it.
PeerSend(t) ==
  /\ call[t] = "armed"
  /\ open
  /\ wireIds' = [wireIds EXCEPT ![t] = Assigned(ids[t])]
  /\ Draw(ids[t])
  /\ timer' = Cancelled({t} \ {pending[ids[t].hop]})
  /\ call' = [call EXCEPT ![t] = "returned"]
  /\ UNCHANGED <<ids, table, histories, answers, session>>

\* A refused write that leaves its entry behind.
PeerRefuses_KeepsEntry(t) ==
  /\ call[t] = "armed"
  /\ ~open
  /\ call' = [call EXCEPT ![t] = "refused"]
  /\ UNCHANGED <<ids, wireIds, table, timer, histories, answers, session, counters>>

\* Peer::send refuses: the entry is withdrawn if it is still this request's.
PeerRefuses(t) ==
  /\ call[t] = "armed"
  /\ ~open
  /\ IF pending[ids[t].hop] = t
     THEN Erase(t) /\ End(t, "withdrawn")
     ELSE UNCHANGED <<table, fate>>
  /\ timer' = Cancelled({t})
  /\ call' = [call EXCEPT ![t] = "refused"]
  /\ UNCHANGED <<ids, wireIds, callbacks, answeredBy, answers, session, counters>>

(***************************************************************************)
(* Timeouts.                                                               *)
(***************************************************************************)
TimerExpires(t) ==
  /\ timer[t] = "armed"
  /\ timer' = [timer EXCEPT ![t] = "expired"]
  /\ UNCHANGED <<call, ids, wireIds, table, histories, answers, session, counters>>

\* The handler that calls back and leaves the entry in the table.
TimeoutHandler_KeepsEntry(t) ==
  LET victim == pending[ids[t].hop]
  IN  /\ timer[t] = "expired"
      /\ IoFree
      /\ timer' = [timer EXCEPT ![t] = "done"]
      /\ victim # NoTxn /\ End(victim, "expired") /\ CallBack(victim)
      /\ UNCHANGED <<call, ids, wireIds, table, answeredBy, answers, session, counters>>

\* The handler knows its hop-by-hop only: it ends whatever is registered there.
TimeoutHandler(t) ==
  LET victim == pending[ids[t].hop]
  IN  /\ timer[t] = "expired"
      /\ IoFree
      /\ timer' = [Cancelled(Released({victim})) EXCEPT ![t] = "done"]
      /\ IF victim = NoTxn
         THEN UNCHANGED <<table, fate, callbacks>>
         ELSE Erase(victim) /\ End(victim, "expired") /\ CallBack(victim)
      /\ UNCHANGED <<call, ids, wireIds, answeredBy, answers, session, counters>>

(***************************************************************************)
(* Answers.                                                                *)
(***************************************************************************)
\* resolve: by hop-by-hop, else by end-to-end, where one of 0 in the answer is
\* not looked up; the command code must agree either way.
Match(h, e, c) ==
  LET byHop == pending[h]
      byIndex == IF e # 0 /\ byEnd[e] # NoId THEN pending[byEnd[e]] ELSE NoTxn
  IN  IF byHop # NoTxn /\ Command[byHop] = c THEN byHop
      ELSE IF byIndex # NoTxn /\ Command[byIndex] = c THEN byIndex
      ELSE NoTxn

\* resolve that cancels the timer of the entry its hop-by-hop finds before it
\* looks at the command code.
Answer_CancelsFirst(t) ==
  /\ call[t] = "returned"
  /\ answers[t] < MaxAnswers
  /\ IoFree
  /\ answers' = [answers EXCEPT ![t] = @ + 1]
  /\ \E h \in {wireIds[t].hop} \cup Rewrites :
       LET found == Match(h, wireIds[t].end, Command[t])
       IN  /\ timer' = Cancelled({found, pending[h]})
           /\ IF found = NoTxn
              THEN UNCHANGED <<table, histories>>
              ELSE /\ Erase(found) /\ End(found, "answered") /\ CallBack(found)
                   /\ answeredBy' = [answeredBy EXCEPT ![found] = t]
  /\ UNCHANGED <<call, ids, wireIds, session, counters>>

\* An answer to request t arrives, on this connection (onPeerRequest) or on
\* another (tryResolve).  What matches no entry changes nothing.
Answer(t) ==
  /\ call[t] = "returned"
  /\ answers[t] < MaxAnswers
  /\ IoFree
  /\ answers' = [answers EXCEPT ![t] = @ + 1]
  /\ \E h \in {wireIds[t].hop} \cup Rewrites :
       LET found == Match(h, wireIds[t].end, Command[t])
       IN  IF found = NoTxn
           THEN UNCHANGED <<table, timer, histories>>
           ELSE /\ Erase(found) /\ End(found, "answered") /\ CallBack(found)
                /\ answeredBy' = [answeredBy EXCEPT ![found] = t]
                /\ timer' = Cancelled({found})
  /\ UNCHANGED <<call, ids, wireIds, session, counters>>

(***************************************************************************)
(* The connection.                                                         *)
(***************************************************************************)
\* The Peer leaves Open: an error, a DPR, or disconnect() from any thread.
PeerLost ==
  /\ open
  /\ open' = FALSE
  /\ UNCHANGED <<call, ids, wireIds, table, timer, histories, answers, closing,
                 reconnects, counters>>

\* A new Peer whose counter starts where the first one's did.
PeerBack_SameSeed ==
  /\ ~open
  /\ ~closing
  /\ IoFree
  /\ reconnects < MaxReconnect
  /\ reconnects' = reconnects + 1
  /\ open' = TRUE
  /\ nextHop' = FirstHop
  /\ UNCHANGED <<call, ids, wireIds, table, timer, histories, answers, closing, nextEnd>>

\* A new Peer opens, with a hop-by-hop counter of its own.  The table stays.
PeerBack ==
  /\ ~open
  /\ ~closing
  /\ IoFree
  /\ reconnects < MaxReconnect
  /\ reconnects' = reconnects + 1
  /\ open' = TRUE
  /\ nextHop' \in Reseeds
  /\ UNCHANGED <<call, ids, wireIds, table, timer, histories, answers, closing, nextEnd>>

\* close(), from any thread: first the Peer, then the table under the lock.
Close ==
  /\ ~closing
  /\ closing' = TRUE
  /\ open' = FALSE
  /\ UNCHANGED <<call, ids, wireIds, table, timer, histories, answers,
                 reconnects, counters>>

ClearPending ==
  LET cleared == {t \in Txn : pending[ids[t].hop] = t}
  IN  /\ closing
      /\ closing' = FALSE
      /\ pending' = [h \in Id |-> NoTxn]
      /\ byEnd' = [e \in Id |-> NoId]
      /\ timer' = Cancelled(cleared)
      /\ fate' = [t \in Txn |-> IF t \in cleared THEN "closed" ELSE fate[t]]
      /\ UNCHANGED <<call, ids, wireIds, callbacks, answeredBy, answers, open,
                     reconnects, counters>>

(***************************************************************************)
(* The specification.                                                      *)
(***************************************************************************)
SendStep(t) == Register(t) \/ Arm(t) \/ PeerSend(t) \/ PeerRefuses(t)

Next ==
  \/ \E t \in Txn : \/ Refuse(t) \/ Assign(t) \/ SendStep(t)
                    \/ TimerExpires(t) \/ TimeoutHandler(t) \/ Answer(t)
  \/ PeerLost \/ PeerBack \/ Close \/ ClearPending

Spec == Init /\ [][Next]_vars

\* A running call goes on, close() goes on, a timer expires, its handler runs.
Fairness ==
  /\ WF_vars(ClearPending)
  /\ \A t \in Txn : /\ WF_vars(SendStep(t))
                    /\ WF_vars(TimerExpires(t))
                    /\ WF_vars(TimeoutHandler(t))

FairSpec == Spec /\ Fairness

(***************************************************************************)
(* Properties.                                                             *)
(***************************************************************************)
\* Every index entry leads to a pending request with that end-to-end: an
\* answer is never correlated through what a replaced, expired, answered or
\* withdrawn request left behind, whatever identifiers collide.
IndexSound ==
  \A e \in Id : byEnd[e] # NoId =>
    pending[byEnd[e]] # NoTxn /\ ids[pending[byEnd[e]]].end = e

\* A request gets at most one callback, the answer's or the timeout's, however
\* answers, duplicates, expirations and other requests interleave; and none if
\* it left the table in any other way.
OneCompletion ==
  \A t \in Txn : callbacks[t] = IF fate[t] \in {"answered", "expired"} THEN 1 ELSE 0

\* With distinct end-to-end identifiers every pending request can be found by
\* its own, so an answer that comes back with another hop-by-hop still finds it.
IndexComplete ==
  \A t \in Txn : pending[ids[t].hop] = t /\ ids[t].end # 0 =>
    byEnd[ids[t].end] = ids[t].hop

\* With identifiers drawn from the counters a request is completed by its own
\* answer, also when an answer is late and its request has long timed out.
AnswerGoesHome == \A t \in Txn : answeredBy[t] \in {NoTxn, t}

\* "@return hop-by-hop ID used, or 0 if send failed [...] On 0 no callback is
\* invoked: the caller handles it" (DiameterClient.hpp:130).  The code keeps this
\* of calls on the io thread only, see ClientTransactions_proofs.
Result(t) == IF call[t] = "refused" THEN 0 ELSE ids[t].hop
ZeroReturnIsSilent ==
  \A t \in Txn : call[t] \in {"returned", "refused"} /\ Result(t) = 0 => callbacks[t] = 0

\* The half of that which holds of every call: a timer armed before the write is
\* refused may fire first, but once send() has returned 0 for the refusal nothing
\* calls back for the request any more, also if its timer's handler is queued.
SilentOnceRefused ==
  [][\A t \in Txn : call[t] = "refused" => callbacks'[t] = callbacks[t]]_vars

\* "onTimeout  Optional: called (once) if the transaction expires": what times
\* out is a request whose own timer has expired.
OwnTimeout ==
  \A t \in Txn : fate[t] = "expired" => timer[t] \in {"expired", "done"}

\* A request with a timeout that was sent never stays pending for ever: it is
\* answered, it times out, or close() or a later request removes it.
NoneForgotten ==
  \A t \in TimedCalls : call[t] = "returned" ~> fate[t] # "none"

\* The table implements the promise of module Transactions: what a request's
\* sender sees of it moves from new to pending to one final outcome, in steps
\* that complete one request at a time.
StatusOf(t) ==
  CASE fate[t] = "answered" -> "answered"
    [] fate[t] = "expired" -> "timedOut"
    [] fate[t] \in {"withdrawn", "closed", "replaced"} -> "dropped"
    [] fate[t] = "none" /\ call[t] \in {"registered", "armed", "returned"} -> "pending"
    [] OTHER -> "new"

Statuses == [t \in Txn |-> StatusOf(t)]

Promise == INSTANCE Transactions WITH status <- Statuses
KeepsPromise == Promise!Spec
=============================================================================
