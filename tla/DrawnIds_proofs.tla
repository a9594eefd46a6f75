------------------------------- MODULE DrawnIds_proofs ----------------------------
(***************************************************************************)
(* Identifiers drawn from a counter of so many bits, as Peer::nextHopByHop *)
(* and Peer::nextEndToEnd do: each request is given the counter's value,   *)
(* and another one when it is written if that value was 0, which stands    *)
(* for "none".  The lemmas, which the proofs about the client's and the    *)
(* server's table share, say that until the counter has come round no two  *)
(* requests have the same identifier, the wrap through 0 included.         *)
(*                                                                         *)
(* own[t] is the identifier request t is registered with, written[t] the   *)
(* one it is written with; given is the set of the requests that have the  *)
(* first, returned that of those that have the second as well.             *)
(***************************************************************************)
EXTENDS Naturals, FiniteSets, FiniteSetTheorems, TLAPS

\* Steps of a counter modulo mod from first to n.
Offset(mod, first, n) == IF n >= first THEN n - first ELSE n + mod - first

\* No request's answer can be taken for one to another.
Apart(own, written, given, returned) ==
  \A t, u \in given : t # u =>
    own[t] # own[u] /\ (t \in returned => written[t] # own[u])

\* The request that was given 0, if any, has been given another identifier.
Again(own, returned) == IF \E t \in returned : own[t] = 0 THEN 1 ELSE 0

\* The counter has moved once per identifier given, and is ahead of them all.
Drawn(mod, first, next, own, written, given, returned) ==
  /\ next \in 0 .. (mod - 1)
  /\ Offset(mod, first, next) = Cardinality(given) + Again(own, returned)
  /\ \A t \in given :
       own[t] \in 0 .. (mod - 1) /\ Offset(mod, first, own[t]) < Offset(mod, first, next)
  /\ \A t \in returned :
       written[t] \in 0 .. (mod - 1) /\ Offset(mod, first, written[t]) < Offset(mod, first, next)
  /\ Apart(own, written, given, returned)

\* Incrementing a counter of mod values takes it to the next one, or to 0.
LEMMA NextValue ==
  ASSUME NEW mod \in Nat \ {0, 1}, NEW n \in 0 .. (mod - 1)
  PROVE  (n + 1) % mod = IF n = mod - 1 THEN 0 ELSE n + 1
<1>1. CASE n = mod - 1
  <2>1. n + 1 = mod /\ mod % mod = 0
    BY <1>1
  <2> QED
    BY <1>1, <2>1
<1>2. CASE n # mod - 1
  BY <1>2
<1> QED
  BY <1>1, <1>2

\* Until it has come round, a step of the counter is a step of its offset.
LEMMA NextOffset ==
  ASSUME NEW mod \in Nat \ {0, 1}, NEW first \in 0 .. (mod - 1), NEW n \in 0 .. (mod - 1),
         Offset(mod, first, n) + 1 < mod
  PROVE  /\ (n + 1) % mod \in 0 .. (mod - 1)
         /\ Offset(mod, first, (n + 1) % mod) = Offset(mod, first, n) + 1
<1>1. (n + 1) % mod = IF n = mod - 1 THEN 0 ELSE n + 1
  BY NextValue
<1> QED
  BY <1>1 DEF Offset

\* Drawing an identifier for a new request.
LEMMA DrawOwn ==
  ASSUME NEW mod \in Nat \ {0, 1}, NEW first \in 0 .. (mod - 1), NEW next,
         NEW own, NEW written, NEW given, NEW returned, IsFiniteSet(given),
         returned \subseteq given, Cardinality(given) + 2 < mod,
         Drawn(mod, first, next, own, written, given, returned),
         NEW t, t \notin given, NEW owns, owns[t] = next,
         \A u \in given : owns[u] = own[u]
  PROVE  Drawn(mod, first, (next + 1) % mod, owns, written, given \cup {t}, returned)
<1> DEFINE after == (next + 1) % mod
<1>0. Cardinality(given) \in Nat /\ Again(own, returned) \in {0, 1}
  BY FS_CardinalityType DEF Again
<1>1. /\ after \in 0 .. (mod - 1)
      /\ Offset(mod, first, after) = Offset(mod, first, next) + 1
      /\ Offset(mod, first, next) \in Nat
  BY <1>0, NextOffset DEF Drawn
<1> HIDE DEF after
<1>2. Cardinality(given \cup {t}) = Cardinality(given) + 1
  BY FS_AddElement
<1>3. Again(owns, returned) = Again(own, returned)
  BY DEF Again
<1>4. Offset(mod, first, after) = Cardinality(given \cup {t}) + Again(owns, returned)
  BY <1>0, <1>1, <1>2, <1>3 DEF Drawn
<1>5. ASSUME NEW u \in given \cup {t}
      PROVE  /\ owns[u] \in 0 .. (mod - 1)
             /\ Offset(mod, first, owns[u]) < Offset(mod, first, after)
  <2>1. CASE u = t
    BY <1>1, <2>1 DEF Drawn
  <2>2. CASE u \in given
    <3>1. own[u] \in 0 .. (mod - 1) /\ Offset(mod, first, own[u]) < Offset(mod, first, next)
      BY <2>2 DEF Drawn
    <3>2. Offset(mod, first, own[u]) \in Int
      BY <3>1 DEF Offset
    <3> QED
      BY <1>1, <2>2, <3>1, <3>2
  <2> QED
    BY <2>1, <2>2
<1>6. ASSUME NEW u \in returned
      PROVE  /\ written[u] \in 0 .. (mod - 1)
             /\ Offset(mod, first, written[u]) < Offset(mod, first, after)
  <2>1. written[u] \in 0 .. (mod - 1) /\ Offset(mod, first, written[u]) < Offset(mod, first, next)
    BY DEF Drawn
  <2>2. Offset(mod, first, written[u]) \in Int
    BY <2>1 DEF Offset
  <2> QED
    BY <1>1, <2>1, <2>2
<1>7. Apart(owns, written, given \cup {t}, returned)
  <2>1. \A u \in given : own[u] # next
    BY <1>1 DEF Drawn
  <2>2. \A u \in returned : written[u] # next
    BY <1>1 DEF Drawn
  <2> QED
    BY <2>1, <2>2 DEF Drawn, Apart
<1> QED
  BY <1>1, <1>4, <1>5, <1>6, <1>7 DEF Drawn, after

\* Writing a request with the identifier it has.
LEMMA WriteOwn ==
  ASSUME NEW mod \in Nat \ {0, 1}, NEW first, NEW next,
         NEW own, NEW written, NEW given, NEW returned, returned \subseteq given,
         Drawn(mod, first, next, own, written, given, returned),
         NEW t \in given, own[t] # 0, NEW writes, writes[t] = own[t],
         \A u \in returned : writes[u] = written[u] \/ u = t
  PROVE  Drawn(mod, first, next, own, writes, given, returned \cup {t})
<1>1. Again(own, returned \cup {t}) = Again(own, returned)
  BY DEF Again
<1>2. Apart(own, writes, given, returned \cup {t})
  BY DEF Drawn, Apart
<1> QED
  BY <1>1, <1>2 DEF Drawn

\* Writing the one request that was given 0: it gets the counter's next value.
LEMMA DrawAgain ==
  ASSUME NEW mod \in Nat \ {0, 1}, NEW first \in 0 .. (mod - 1), NEW next,
         NEW own, NEW written, NEW given, NEW returned, IsFiniteSet(given),
         returned \subseteq given, Cardinality(given) + 1 < mod,
         Drawn(mod, first, next, own, written, given, returned),
         NEW t \in given \ returned, own[t] = 0, NEW writes, writes[t] = next,
         \A u \in returned : writes[u] = written[u]
  PROVE  Drawn(mod, first, (next + 1) % mod, own, writes, given, returned \cup {t})
<1> DEFINE after == (next + 1) % mod
<1>0. Cardinality(given) \in Nat
  BY FS_CardinalityType
<1>1. Again(own, returned) = 0 /\ Again(own, returned \cup {t}) = 1
  BY DEF Again, Drawn, Apart
<1>2. /\ after \in 0 .. (mod - 1)
      /\ Offset(mod, first, after) = Offset(mod, first, next) + 1
      /\ Offset(mod, first, next) \in Nat
  BY <1>0, <1>1, NextOffset DEF Drawn
<1> HIDE DEF after
<1>3. Offset(mod, first, after) = Cardinality(given) + Again(own, returned \cup {t})
  BY <1>0, <1>1, <1>2 DEF Drawn
<1>4. ASSUME NEW n \in 0 .. (mod - 1), Offset(mod, first, n) < Offset(mod, first, next)
      PROVE  Offset(mod, first, n) < Offset(mod, first, after) /\ n # next
  <2>1. Offset(mod, first, n) \in Int
    BY DEF Offset
  <2> QED
    BY <1>2, <1>4, <2>1
<1>5. \A u \in given : /\ own[u] \in 0 .. (mod - 1) /\ own[u] # next
                      /\ Offset(mod, first, own[u]) < Offset(mod, first, after)
  BY <1>4 DEF Drawn
<1>6. \A u \in returned \cup {t} :
        /\ writes[u] \in 0 .. (mod - 1)
        /\ Offset(mod, first, writes[u]) < Offset(mod, first, after)
  BY <1>2, <1>4 DEF Drawn
<1>7. Apart(own, writes, given, returned \cup {t})
  BY <1>5 DEF Drawn, Apart
<1> QED
  BY <1>2, <1>3, <1>5, <1>6, <1>7 DEF Drawn, after

\* None has been given and the counter is where it starts.
LEMMA NoneDrawn ==
  ASSUME NEW mod \in Nat \ {0, 1}, NEW first \in 0 .. (mod - 1), NEW own, NEW written
  PROVE  Drawn(mod, first, first, own, written, {}, {})
  BY FS_EmptySet DEF Drawn, Offset, Again, Apart

\* No identifier given is further from the first than there are requests.
LEMMA DrawnNear ==
  ASSUME NEW mod \in Nat \ {0, 1}, NEW first \in 0 .. (mod - 1), NEW next,
         NEW own, NEW written, NEW given, NEW returned, IsFiniteSet(given),
         Drawn(mod, first, next, own, written, given, returned),
         NEW t \in given
  PROVE  Offset(mod, first, own[t]) \in 0 .. Cardinality(given)
<1>1. Cardinality(given) \in Nat /\ Again(own, returned) \in {0, 1}
  BY FS_CardinalityType DEF Again
<1>2. own[t] \in 0 .. (mod - 1) /\ Offset(mod, first, own[t]) < Offset(mod, first, next)
  BY DEF Drawn
<1>3. Offset(mod, first, own[t]) \in Nat
  BY <1>2 DEF Offset
<1> QED
  BY <1>1, <1>2, <1>3 DEF Drawn

\* One step of a counter and of the requests that draw from it: nothing is
\* given, a request is given the counter's value, or one is written, with what
\* it was given or, if that is 0, with the counter's value.
Draws(mod, next, after, own, owns, written, writes, given, gives, returned, returns) ==
  /\ returned \subseteq given
  /\ \A u \in given : owns[u] = own[u]
  /\ \A u \in returned : writes[u] = written[u]
  /\ \/ after = next /\ gives = given /\ returns = returned
     \/ \E t : /\ t \notin given /\ gives = given \cup {t} /\ returns = returned
               /\ owns[t] = next /\ after = (next + 1) % mod
     \/ \E t \in given \ returned :
          /\ gives = given /\ returns = returned \cup {t}
          /\ writes[t] = IF own[t] = 0 THEN next ELSE own[t]
          /\ after = IF own[t] = 0 THEN (next + 1) % mod ELSE next

\* The counter stays ahead of what it has given until it has come round.
LEMMA DrawnStep ==
  ASSUME NEW mod \in Nat \ {0, 1}, NEW first \in 0 .. (mod - 1), NEW next, NEW after,
         NEW own, NEW owns, NEW written, NEW writes,
         NEW given, NEW gives, NEW returned, NEW returns,
         IsFiniteSet(gives), Cardinality(gives) + 1 < mod,
         Drawn(mod, first, next, own, written, given, returned),
         Draws(mod, next, after, own, owns, written, writes, given, gives, returned, returns)
  PROVE  Drawn(mod, first, after, owns, writes, gives, returns)
<1> USE DEF Draws
<1>1. Drawn(mod, first, next, owns, writes, given, returned)
  <2>1. Again(owns, returned) = Again(own, returned)
    BY DEF Again
  <2>2. Apart(owns, writes, given, returned)
    BY DEF Drawn, Apart
  <2> QED
    BY <2>1, <2>2 DEF Drawn
<1>2. CASE after = next /\ gives = given /\ returns = returned
  BY <1>1, <1>2
<1>3. ASSUME NEW t, t \notin given, gives = given \cup {t}, returns = returned,
             owns[t] = next, after = (next + 1) % mod
      PROVE  Drawn(mod, first, after, owns, writes, gives, returns)
  <2>1. IsFiniteSet(given)
    BY <1>3, FS_Subset
  <2>2. Cardinality(given) \in Nat /\ Cardinality(gives) = Cardinality(given) + 1
    BY <1>3, <2>1, FS_AddElement, FS_CardinalityType
  <2> QED
    BY <1>1, <1>3, <2>1, <2>2, DrawOwn
<1>4. ASSUME NEW t \in given \ returned, gives = given, returns = returned \cup {t},
             writes[t] = IF own[t] = 0 THEN next ELSE own[t],
             after = IF own[t] = 0 THEN (next + 1) % mod ELSE next
      PROVE  Drawn(mod, first, after, owns, writes, gives, returns)
  <2>1. owns[t] = own[t]
    OBVIOUS
  <2>2. CASE own[t] = 0
    BY <1>1, <1>4, <2>1, <2>2, DrawAgain
  <2>3. CASE own[t] # 0
    BY <1>1, <1>4, <2>1, <2>3, WriteOwn
  <2> QED
    BY <2>2, <2>3
<1> QED
  BY <1>2, <1>3, <1>4
=============================================================================
