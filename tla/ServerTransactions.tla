------------------------- MODULE ServerTransactions -------------------------
(***************************************************************************)
(* The requests a DiameterServer (src/src/DiameterServer.cpp) sends to the *)
(* clients connected to it.  One table, pending_, with its index           *)
(* pendingByE2e_, holds the requests to every Peer, and each Peer counts   *)
(* hop-by-hop identifiers of its own from a random start: two requests     *)
(* under way to two Peers may have the same one although nobody chose it.  *)
(*                                                                         *)
(* Calls of sendRequest are split into actions as those of                 *)
(* DiameterClient::send are in module ClientTransactions.  Other than      *)
(* there, nothing is checked before the request is registered, a Peer that *)
(* is gone does not come back, and no call clears the table: what          *)
(* stopListening, shutdown and close do to a Peer is here PeerLost.        *)
(* A call without a Peer, or of a message shorter than a header, returns   *)
(* before anything changes and is left out, as are metrics and logging.    *)
(***************************************************************************)
EXTENDS Naturals

CONSTANTS
  Txn,          \* the calls of sendRequest, each of which makes one request
  Peers,        \* the Peers connected to the server
  NoTxn, NoId, NoPeer,
  IdMod,        \* identifiers are counted modulo IdMod (2^32 in the code)
  FirstHop,     \* FirstHop[p]: the seed of the counter of Peer p
  FirstEnd,     \* the seed of the node's end-to-end counter
  CallerHops,   \* CallerHops[t]: hop-by-hops its caller may put in t, 0 for none
  CallerEnds,   \* end-to-end identifiers callers put in a request, 0 for none
  Command,      \* Command[t]: the command code of request t
  TimedCalls,   \* the calls with timeoutMs > 0
  IoCalls,      \* the calls made on the io thread
  Rewrites,     \* hop-by-hop identifiers an answer may come back with instead
  MaxAnswers    \* bound: answers received to one request, duplicates included

Id == 0 .. (IdMod - 1)

ASSUME IdAssumption == IdMod \in Nat \ {0, 1}
ASSUME SeedAssumption == FirstHop \in [Peers -> Id] /\ FirstEnd \in Id
ASSUME CallerAssumption ==
  /\ CallerHops \in [Txn -> SUBSET Id]
  /\ CallerEnds \subseteq Id /\ Rewrites \subseteq Id
ASSUME NoneAssumption == NoTxn \notin Txn /\ NoId \notin Id /\ NoPeer \notin Peers
ASSUME CallsAssumption == TimedCalls \subseteq Txn /\ IoCalls \subseteq Txn
ASSUME BoundsAssumption == MaxAnswers \in Nat

VARIABLES
  call,        \* call[t]: where the call of sendRequest is
  leg,         \* leg[t]: the Peer request t is for
  ids,         \* ids[t]: the identifiers the request is registered with
  wireIds,     \* wireIds[t]: the identifiers the request is written with
  pending,     \* pending[h]: the request registered under hop-by-hop h
  byEnd,       \* byEnd[e]: pendingByE2e_, the hop-by-hop indexed under e
  timer,       \* timer[t]: the PendingRequest's timer
  fate,        \* fate[t]: how request t left the table (history)
  answeredBy,  \* answeredBy[t]: the request whose answer t got (history)
  answers,     \* answers[t]: answers to t received so far (bounded)
  session,     \* session[p]: whether Peer p is not yet, is, or was Open
  nextHop,     \* nextHop[p]: the hop-by-hop counter of Peer p
  nextEnd      \* the end-to-end counter of the node

table == <<pending, byEnd>>
histories == <<fate, answeredBy>>
counters == <<nextHop, nextEnd>>
vars == <<call, leg, ids, wireIds, pending, byEnd, timer, fate, answeredBy,
          answers, session, nextHop, nextEnd>>

Identifiers == [hop : Id, end : Id]
Running == {"assigned", "registered", "armed"}

TypeOK ==
  /\ call \in [Txn -> {"idle", "returned", "refused"} \cup Running]
  /\ leg \in [Txn -> Peers \cup {NoPeer}]
  /\ ids \in [Txn -> Identifiers] /\ wireIds \in [Txn -> Identifiers]
  /\ pending \in [Id -> Txn \cup {NoTxn}]
  /\ byEnd \in [Id -> Id \cup {NoId}]
  /\ timer \in [Txn -> {"none", "armed", "expired", "done", "off"}]
  /\ fate \in [Txn -> {"none", "answered", "expired", "withdrawn", "replaced"}]
  /\ answers \in [Txn -> Nat]
  /\ answeredBy \in [Txn -> Txn \cup {NoTxn}]
  /\ session \in [Peers -> {"waiting", "open", "over"}]
  /\ nextHop \in [Peers -> Id] /\ nextEnd \in Id

Init ==
  /\ call = [t \in Txn |-> "idle"]
  /\ leg = [t \in Txn |-> NoPeer]
  /\ ids = [t \in Txn |-> [hop |-> 0, end |-> 0]]
  /\ wireIds = ids
  /\ pending = [h \in Id |-> NoTxn]
  /\ byEnd = [e \in Id |-> NoId]
  /\ timer = [t \in Txn |-> "none"]
  /\ fate = [t \in Txn |-> "none"]
  /\ answers = [t \in Txn |-> 0]
  /\ answeredBy = [t \in Txn |-> NoTxn]
  /\ session = [p \in Peers |-> "waiting"]
  /\ nextHop = FirstHop /\ nextEnd = FirstEnd

(***************************************************************************)
(* Identifiers, the table and the timers.                                  *)
(***************************************************************************)
\* A counter that does not come back to zero.
Increment_NoWrap(n) == n + 1

\* Peer::nextHopByHop and Peer::nextEndToEnd: fetch_add on 32 bits.
Increment(n) == (n + 1) % IdMod

\* The identifiers a request to p gets when it comes with i.
Assigned(p, i) == [hop |-> IF i.hop = 0 THEN nextHop[p] ELSE i.hop,
                   end |-> IF i.end = 0 THEN nextEnd ELSE i.end]

\* A counter that is read and not advanced.
Draw_Stuck(p, i) ==
  /\ nextHop' = nextHop
  /\ nextEnd' = IF i.end = 0 THEN Increment(nextEnd) ELSE nextEnd

Draw(p, i) ==
  /\ nextHop' = IF i.hop = 0 THEN [nextHop EXCEPT ![p] = Increment(@)] ELSE nextHop
  /\ nextEnd' = IF i.end = 0 THEN Increment(nextEnd) ELSE nextEnd

\* steady_timer::cancel, and the destructor of a timer: they are too late for
\* a handler that is already queued.
Cancelled(T) ==
  [t \in Txn |-> IF t \in T /\ timer[t] = "armed" THEN "off" ELSE timer[t]]

\* Entries that leave the table die with it once sendRequest has let go.
Released(T) == {t \in T \cap Txn : call[t] = "returned"}

IoFree == \A t \in IoCalls : call[t] \notin Running

Erase(t) ==
  /\ pending' = [pending EXCEPT ![ids[t].hop] = NoTxn]
  /\ byEnd' = [byEnd EXCEPT ![ids[t].end] = NoId]

End(t, how) == fate' = [fate EXCEPT ![t] = how]

(***************************************************************************)
(* sendRequest.                                                            *)
(***************************************************************************)
\* Whatever state Peer p is in.
Assign(t) ==
  /\ call[t] = "idle"
  /\ t \in IoCalls => IoFree
  /\ \E p \in Peers, h \in CallerHops[t], e \in CallerEnds :
       LET given == [hop |-> h, end |-> e]
       IN  /\ ids' = [ids EXCEPT ![t] = Assigned(p, given)]
           /\ leg' = [leg EXCEPT ![t] = p]
           /\ Draw(p, given)
  /\ call' = [call EXCEPT ![t] = "assigned"]
  /\ UNCHANGED <<wireIds, table, timer, histories, answers, session>>

\* Registering that leaves the index pointing at the entry it replaces.
Register_KeepsOldIndex(t) ==
  LET previous == pending[ids[t].hop]
  IN  /\ call[t] = "assigned"
      /\ pending' = [pending EXCEPT ![ids[t].hop] = t]
      /\ byEnd' = [byEnd EXCEPT ![ids[t].end] = ids[t].hop]
      /\ IF previous = NoTxn
         THEN UNCHANGED <<fate, timer>>
         ELSE End(previous, "replaced") /\ timer' = Cancelled(Released({previous}))
      /\ call' = [call EXCEPT ![t] = "registered"]
      /\ UNCHANGED <<leg, ids, wireIds, answeredBy, answers, session, counters>>

\* Under the lock: the newest request wins its hop-by-hop, whichever Peer the
\* one it replaces went to.
Register(t) ==
  LET previous == pending[ids[t].hop]
      byEndLeft == IF previous = NoTxn THEN byEnd
                   ELSE [byEnd EXCEPT ![ids[previous].end] = NoId]
  IN  /\ call[t] = "assigned"
      /\ pending' = [pending EXCEPT ![ids[t].hop] = t]
      /\ byEnd' = [byEndLeft EXCEPT ![ids[t].end] = ids[t].hop]
      /\ IF previous = NoTxn
         THEN UNCHANGED <<fate, timer>>
         ELSE End(previous, "replaced") /\ timer' = Cancelled(Released({previous}))
      /\ call' = [call EXCEPT ![t] = "registered"]
      /\ UNCHANGED <<leg, ids, wireIds, answeredBy, answers, session, counters>>

Arm(t) ==
  /\ call[t] = "registered"
  /\ timer' = [timer EXCEPT ![t] = IF t \in TimedCalls THEN "armed" ELSE @]
  /\ call' = [call EXCEPT ![t] = "armed"]
  /\ UNCHANGED <<leg, ids, wireIds, table, histories, answers, session, counters>>

\* Peer::send accepts: it replaces an identifier that is still zero.
PeerSend(t) ==
  /\ call[t] = "armed"
  /\ session[leg[t]] = "open"
  /\ wireIds' = [wireIds EXCEPT ![t] = Assigned(leg[t], ids[t])]
  /\ Draw(leg[t], ids[t])
  /\ timer' = Cancelled({t} \ {pending[ids[t].hop]})
  /\ call' = [call EXCEPT ![t] = "returned"]
  /\ UNCHANGED <<leg, ids, table, histories, answers, session>>

\* Withdrawing whatever is registered under the request's hop-by-hop.
PeerRefuses_TakesAny(t) ==
  LET victim == pending[ids[t].hop]
  IN  /\ call[t] = "armed"
      /\ session[leg[t]] # "open"
      /\ IF victim # NoTxn
         THEN Erase(victim) /\ End(t, "withdrawn")
         ELSE UNCHANGED <<table, fate>>
      /\ timer' = Cancelled({t, victim})
      /\ call' = [call EXCEPT ![t] = "refused"]
      /\ UNCHANGED <<leg, ids, wireIds, answeredBy, answers, session, counters>>

\* Peer::send refuses: the entry is withdrawn if it is still this request's.
PeerRefuses(t) ==
  /\ call[t] = "armed"
  /\ session[leg[t]] # "open"
  /\ IF pending[ids[t].hop] = t
     THEN Erase(t) /\ End(t, "withdrawn")
     ELSE UNCHANGED <<table, fate>>
  /\ timer' = Cancelled({t})
  /\ call' = [call EXCEPT ![t] = "refused"]
  /\ UNCHANGED <<leg, ids, wireIds, answeredBy, answers, session, counters>>

(***************************************************************************)
(* Timeouts and answers.                                                   *)
(***************************************************************************)
TimerExpires(t) ==
  /\ timer[t] = "armed"
  /\ timer' = [timer EXCEPT ![t] = "expired"]
  /\ UNCHANGED <<call, leg, ids, wireIds, table, histories, answers, session, counters>>

\* The handler knows its hop-by-hop only: it ends whatever is registered there.
TimeoutHandler(t) ==
  LET victim == pending[ids[t].hop]
  IN  /\ timer[t] = "expired"
      /\ IoFree
      /\ timer' = [Cancelled(Released({victim})) EXCEPT ![t] = "done"]
      /\ IF victim = NoTxn
         THEN UNCHANGED <<table, fate>>
         ELSE Erase(victim) /\ End(victim, "expired")
      /\ UNCHANGED <<call, leg, ids, wireIds, answeredBy, answers, session, counters>>

\* resolve: by hop-by-hop, else by end-to-end, where one of 0 in the answer is
\* not looked up; the command code must agree either way.
Match(h, e, c) ==
  LET byHop == pending[h]
      byIndex == IF e # 0 /\ byEnd[e] # NoId THEN pending[byEnd[e]] ELSE NoTxn
  IN  IF byHop # NoTxn /\ Command[byHop] = c THEN byHop
      ELSE IF byIndex # NoTxn /\ Command[byIndex] = c THEN byIndex
      ELSE NoTxn

\* An answer to request t arrives: on its Peer or another one (onPeerMessage),
\* or from a connection that is not the server's (tryResolve).
Answer(t) ==
  /\ call[t] = "returned"
  /\ answers[t] < MaxAnswers
  /\ IoFree
  /\ answers' = [answers EXCEPT ![t] = @ + 1]
  /\ \E h \in {wireIds[t].hop} \cup Rewrites :
       LET found == Match(h, wireIds[t].end, Command[t])
       IN  IF found = NoTxn
           THEN UNCHANGED <<table, timer, histories>>
           ELSE /\ Erase(found) /\ End(found, "answered")
                /\ answeredBy' = [answeredBy EXCEPT ![found] = t]
                /\ timer' = Cancelled({found})
  /\ UNCHANGED <<call, leg, ids, wireIds, session, counters>>

(***************************************************************************)
(* The Peers.                                                              *)
(***************************************************************************)
PeerOpens(p) ==
  /\ session[p] = "waiting"
  /\ IoFree
  /\ session' = [session EXCEPT ![p] = "open"]
  /\ UNCHANGED <<call, leg, ids, wireIds, table, timer, histories, answers, counters>>

\* A lost Peer that takes the timers of its requests with it.
PeerLost_CancelsTimers(p) ==
  /\ session[p] # "over"
  /\ session' = [session EXCEPT ![p] = "over"]
  /\ timer' = Cancelled({t \in Txn : leg[t] = p})
  /\ UNCHANGED <<call, leg, ids, wireIds, table, histories, answers, counters>>

\* An error, a DPR, or shutdown or close from any thread.  The table stays.
PeerLost(p) ==
  /\ session[p] # "over"
  /\ session' = [session EXCEPT ![p] = "over"]
  /\ UNCHANGED <<call, leg, ids, wireIds, table, timer, histories, answers, counters>>

(***************************************************************************)
(* The specification.                                                      *)
(***************************************************************************)
SendStep(t) == Register(t) \/ Arm(t) \/ PeerSend(t) \/ PeerRefuses(t)

Next ==
  \/ \E t \in Txn : \/ Assign(t) \/ SendStep(t)
                    \/ TimerExpires(t) \/ TimeoutHandler(t) \/ Answer(t)
  \/ \E p \in Peers : PeerOpens(p) \/ PeerLost(p)

Spec == Init /\ [][Next]_vars

\* A running call goes on, a timer expires, its handler runs.
Fairness ==
  \A t \in Txn : /\ WF_vars(SendStep(t))
                 /\ WF_vars(TimerExpires(t))
                 /\ WF_vars(TimeoutHandler(t))

FairSpec == Spec /\ Fairness

(***************************************************************************)
(* Properties.                                                             *)
(***************************************************************************)
\* An entry of the index leads to a pending request with that end-to-end, also
\* when a request to one Peer replaces a request to another.
IndexSound ==
  \A e \in Id : byEnd[e] # NoId =>
    pending[byEnd[e]] # NoTxn /\ ids[pending[byEnd[e]]].end = e

\* As long as callers leave the hop-by-hop to the server, an answer never
\* completes another request to the same Peer, also if it is late, duplicated
\* or comes back with another hop-by-hop; what it can complete wrongly is a
\* request to another Peer whose counter gave the same hop-by-hop.  (A caller
\* that chooses one may hit on a pending request's: "the newest wins".)
LeftToServer(t) == CallerHops[t] = {0}

SameLegGoesHome ==
  \A t \in Txn : answeredBy[t] \notin {NoTxn, t} /\ LeftToServer(t)
      /\ LeftToServer(answeredBy[t]) =>
    leg[answeredBy[t]] # leg[t] /\ wireIds[answeredBy[t]].hop = ids[t].hop

\* The table still promises the client's kind of completion, with "closed"
\* left out: a sender sees a request pending, and then one outcome for ever.
StatusOf(t) ==
  CASE fate[t] = "answered" -> "answered"
    [] fate[t] = "expired" -> "timedOut"
    [] fate[t] \in {"withdrawn", "replaced"} -> "dropped"
    [] fate[t] = "none" /\ call[t] \in {"registered", "armed", "returned"} -> "pending"
    [] OTHER -> "new"

Statuses == [t \in Txn |-> StatusOf(t)]

Promise == INSTANCE Transactions WITH status <- Statuses
KeepsPromise == Promise!Spec

\* No call clears the table, so its timer is all that removes a request whose
\* Peer is gone: a request with a timeout leaves the table in the end.
NoneForgotten ==
  \A t \in TimedCalls : call[t] = "returned" ~> fate[t] # "none"
=============================================================================
