--------------------------- MODULE Messages_proofs ---------------------------
(***************************************************************************)
(* Lemmas about the messages of module Messages: their sizes, headers and  *)
(* identifiers, and what the walks find among their AVPs.  A walk is a     *)
(* recursive function of the place it has got to: that it is defined is    *)
(* proved by building it from the end of the message on (WalkExists), and  *)
(* what it finds by going with it from one AVP to the next (Chain).        *)
(***************************************************************************)
EXTENDS Messages, SequenceTheorems, WellFoundedInduction, TLAPS

(***************************************************************************)
(* Induction over the naturals, for a set in place of a predicate.         *)
(***************************************************************************)
\* A set of naturals with zero and the successor of each member has them all.
LEMMA SetInduction ==
  ASSUME NEW T, 0 \in T, \A k \in Nat : k \in T => k + 1 \in T
  PROVE  Nat \subseteq T
<1> DEFINE Missing == Nat \ T
           Less == {ss \in Nat \X Nat : ss[1] < ss[2]}
<1> SUFFICES ASSUME Missing # {} PROVE FALSE
  OBVIOUS
<1>1. \A x, y \in Nat : y < x => <<y, x>> \in Less
  OBVIOUS
<1>2. IsWellFoundedOn(Less, Nat)
  BY NatLessThanWellFounded DEF OpToRel
<1> HIDE DEF Less
<1>3. \E x \in Missing : \A y \in Missing : ~ (<<y, x>> \in Less)
  <2>1. Missing \subseteq Nat
    OBVIOUS
  <2> HIDE DEF Missing
  <2> QED
    BY <1>2, <2>1, WFMin
<1>4. PICK x \in Missing : \A y \in Missing : ~ (<<y, x>> \in Less)
  BY <1>3
<1>5. x # 0 /\ x - 1 \in Nat /\ x - 1 < x
  OBVIOUS
<1>6. x - 1 \in T
  BY <1>1, <1>4, <1>5
<1>7. (x - 1) + 1 \in T
  BY <1>5, <1>6
<1> QED
  BY <1>5, <1>7

\* Sequences of words can be joined in either order.
LEMMA WordsReassociate ==
  \A x, y, z \in Seq(Nat) : (x \o y) \o z = x \o (y \o z)
OBVIOUS

(***************************************************************************)
(* Sequences of sequences, as AVPs are put together.                       *)
(***************************************************************************)
\* FlattenSeq goes through them one by one.
LEMMA FlattenSteps ==
  ASSUME NEW seqs, Len(seqs) \in Nat, Len(seqs) # 0
  PROVE  \E g : /\ FlattenSeq(seqs) = g[Len(seqs)] /\ g[1] = seqs[1]
                /\ \A k \in 2 .. Len(seqs) : g[k] = g[k - 1] \o seqs[k]
<1> DEFINE n == Len(seqs)
           Step(g, i) == IF i = 1 THEN seqs[i] ELSE g[i - 1] \o seqs[i]
           Partial(g, k) == g = [i \in 1 .. k |-> Step(g, i)]
           flatten == CHOOSE g : Partial(g, n)
           T == {k \in Nat : \E g : Partial(g, k)}
<1>1. 0 \in T
  <2>1. Partial([i \in 1 .. 0 |-> 0], 0)
    OBVIOUS
  <2> HIDE DEF Partial
  <2> QED
    BY <2>1
<1>2. ASSUME NEW k \in Nat, k \in T PROVE k + 1 \in T
  <2> HIDE DEF Step
  <2>1. PICK g : Partial(g, k)
    BY <1>2
  <2>2. \A i \in 1 .. k : g[i] = Step(g, i)
    BY <2>1
  <2> DEFINE h == [i \in 1 .. (k + 1) |-> IF i <= k THEN g[i] ELSE Step(g, i)]
  <2>3. ASSUME NEW i \in 1 .. (k + 1) PROVE h[i] = Step(h, i)
    <3>1. h[i] = Step(g, i)
      BY <2>2
    <3>2. i # 1 => h[i - 1] = g[i - 1]
      OBVIOUS
    <3> HIDE DEF h
    <3> QED
      BY <3>1, <3>2 DEF Step
  <2>4. h = [i \in 1 .. (k + 1) |-> h[i]]
    OBVIOUS
  <2> HIDE DEF h
  <2>5. Partial(h, k + 1)
    BY <2>3, <2>4
  <2> HIDE DEF Partial
  <2> QED
    BY <2>5
<1>3. n \in T
  <2> HIDE DEF T
  <2> QED
    BY <1>1, <1>2, SetInduction
<1>4. \A k \in 1 .. n : flatten[k] = Step(flatten, k)
  <2>1. Partial(flatten, n)
    <3> HIDE DEF Partial
    <3> QED
      BY <1>3
  <2> HIDE DEF Step, flatten
  <2> QED
    BY <2>1
<1>5. FlattenSeq(seqs) = flatten[n]
  BY DEF FlattenSeq
<1> HIDE DEF flatten
<1>6. flatten[1] = seqs[1]
  BY <1>4
<1>7. ASSUME NEW k \in 2 .. n PROVE flatten[k] = flatten[k - 1] \o seqs[k]
  <2>1. k \in 1 .. n /\ k # 1
    OBVIOUS
  <2> QED
    BY <1>4, <2>1
<1> QED
  BY <1>5, <1>6, <1>7

\* The words w stand in the sequence tape behind the place c.
Follows(tape, c, w) ==
  c + Len(w) <= Len(tape) /\ \A j \in 1 .. Len(w) : w[j] = tape[c + j]

\* They still do when the sequence goes on, ...
LEMMA FollowsLonger ==
  ASSUME NEW S, NEW a \in Seq(S), NEW b \in Seq(S), NEW c \in Nat, NEW w \in Seq(S),
         Follows(a, c, w)
  PROVE  Follows(a \o b, c, w)
<1>1. /\ Len(a) \in Nat /\ Len(b) \in Nat /\ Len(w) \in Nat /\ Len(a \o b) = Len(a) + Len(b)
      /\ \A i \in 1 .. Len(a) : (a \o b)[i] = a[i]
  BY ConcatProperties
<1>2. c + Len(w) <= Len(a) /\ \A j \in 1 .. Len(w) : w[j] = a[c + j]
  BY DEF Follows
<1>3. ASSUME NEW j \in 1 .. Len(w) PROVE w[j] = (a \o b)[c + j]
  <2>1. c + j \in 1 .. Len(a)
    BY <1>1, <1>2
  <2> QED
    BY <1>1, <1>2, <2>1
<1>4. c + Len(w) <= Len(a \o b)
  BY <1>1, <1>2
<1> QED
  BY <1>3, <1>4 DEF Follows

\* ... and each of two sequences stands in the two together.
LEMMA FollowsTwo ==
  ASSUME NEW S, NEW a \in Seq(S), NEW b \in Seq(S)
  PROVE  Follows(a \o b, 0, a) /\ Follows(a \o b, Len(a), b) /\ Len(a \o b) = Len(a) + Len(b)
<1>1. /\ Len(a) \in Nat /\ Len(b) \in Nat /\ Len(a \o b) = Len(a) + Len(b)
      /\ \A i \in 1 .. Len(a) + Len(b) : (a \o b)[i] = IF i <= Len(a) THEN a[i] ELSE b[i - Len(a)]
  BY ConcatProperties
<1> DEFINE ab == a \o b
<1> HIDE DEF ab
<1>2. \A j \in 1 .. Len(a) : a[j] = ab[0 + j]
  BY <1>1 DEF ab
<1>3. ASSUME NEW j \in 1 .. Len(b) PROVE b[j] = ab[Len(a) + j]
  <2>1. Len(a) + j \in 1 .. Len(a) + Len(b) /\ ~ (Len(a) + j <= Len(a)) /\ Len(a) + j - Len(a) = j
    BY <1>1
  <2> QED
    BY <1>1, <2>1 DEF ab
<1>4. 0 + Len(a) <= Len(ab) /\ Len(a) + Len(b) <= Len(ab)
  BY <1>1 DEF ab
<1> QED
  BY <1>1, <1>2, <1>3, <1>4 DEF Follows, ab

\* Concatenating sequences over S gives a sequence over S, in which they stand
\* behind each other.
LEMMA FlattenLaid ==
  ASSUME NEW S, NEW seqs, Len(seqs) \in Nat, Len(seqs) = 0 => seqs = <<>>,
         \A i \in 1 .. Len(seqs) : seqs[i] \in Seq(S)
  PROVE  /\ FlattenSeq(seqs) \in Seq(S)
         /\ \E off \in [0 .. Len(seqs) -> Nat] :
              /\ off[0] = 0 /\ off[Len(seqs)] = Len(FlattenSeq(seqs))
              /\ \A k \in 1 .. Len(seqs) :
                   /\ off[k] = off[k - 1] + Len(seqs[k])
                   /\ Follows(FlattenSeq(seqs), off[k - 1], seqs[k])
<1> DEFINE n == Len(seqs)
<1>1. CASE n = 0
  <2>1. FlattenSeq(seqs) = <<>>
    BY <1>1, EmptySeq DEF FlattenSeq
  <2> DEFINE off == [k \in 0 .. n |-> 0]
  <2>2. /\ off \in [0 .. n -> Nat] /\ off[0] = 0 /\ off[n] = Len(<<>>)
        /\ \A k \in 1 .. n : FALSE
    BY <1>1
  <2> HIDE DEF off
  <2> QED
    BY <2>1, <2>2, EmptySeq
<1>2. CASE n # 0
  <2>1. PICK g : /\ FlattenSeq(seqs) = g[n] /\ g[1] = seqs[1]
                 /\ \A k \in 2 .. n : g[k] = g[k - 1] \o seqs[k]
    BY <1>2, FlattenSteps
  <2> DEFINE off == [k \in 0 .. n |-> IF k = 0 THEN 0 ELSE Len(g[k])]
             U == {k \in Nat : k \in 1 .. n =>
                     /\ g[k] \in Seq(S) /\ off[k] = off[k - 1] + Len(seqs[k])
                     /\ \A j \in 1 .. k : off[j - 1] \in Nat /\ Follows(g[k], off[j - 1], seqs[j])}
  <2>2. \A k \in 1 .. n : off[k] = Len(g[k])
    OBVIOUS
  <2>3. off[0] = 0
    OBVIOUS
  <2> HIDE DEF off
  <2>4. ASSUME NEW k \in Nat, k \in U PROVE k + 1 \in U
    <3> SUFFICES ASSUME k + 1 \in 1 .. n
                 PROVE  /\ g[k + 1] \in Seq(S) /\ off[k + 1] = off[k] + Len(seqs[k + 1])
                        /\ \A j \in 1 .. k + 1 : off[j - 1] \in Nat /\ Follows(g[k + 1], off[j - 1], seqs[j])
      <4>1. (k + 1) - 1 = k
        OBVIOUS
      <4> QED
        BY <4>1
    <3> DEFINE next == seqs[k + 1]
    <3>0. next \in Seq(S) /\ (k + 1) - 1 = k
      OBVIOUS
    <3>1. CASE k = 0
      <4>1. g[k + 1] = next /\ k + 1 = 1
        BY <2>1, <3>1
      <4>2. off[k + 1] = Len(next) /\ off[k] = 0
        BY <2>2, <2>3, <3>1, <4>1
      <4>3. Follows(next, 0, next)
        <5>1. Len(next) \in Nat
          BY <3>0
        <5> HIDE DEF next
        <5> QED
          BY <3>0, <5>1 DEF Follows
      <4>4. ASSUME NEW j \in 1 .. k + 1 
            PROVE  off[j - 1] \in Nat /\ Follows(g[k + 1], off[j - 1], seqs[j])
        <5>1. j = k + 1 /\ off[j - 1] = 0
          BY <2>3, <3>1
        <5> QED
          BY <4>1, <4>3, <5>1
      <4>5. off[k + 1] = off[k] + Len(next)
        <5>1. Len(next) \in Nat
          BY <3>0
        <5> QED
          BY <4>2, <5>1
      <4> QED
        BY <3>0, <4>1, <4>4, <4>5
    <3>2. CASE k # 0
      <4>1. k \in 1 .. n /\ k + 1 \in 2 .. n
        BY <3>2
      <4>2. g[k] \in Seq(S) /\ \A j \in 1 .. k : off[j - 1] \in Nat /\ Follows(g[k], off[j - 1], seqs[j])
        BY <2>4, <4>1
      <4>3. g[k + 1] = g[k] \o next
        BY <2>1, <3>0, <4>1
      <4>4. off[k] = Len(g[k]) /\ off[k + 1] = Len(g[k + 1])
        BY <2>2, <4>1
      <4> HIDE DEF next
      <4>5. Follows(g[k + 1], Len(g[k]), next) /\ Len(g[k + 1]) = Len(g[k]) + Len(next)
        BY <3>0, <4>2, <4>3, FollowsTwo
      <4>6. g[k + 1] \in Seq(S)
        BY <3>0, <4>2, <4>3, ConcatProperties
      <4>7. ASSUME NEW j \in 1 .. k + 1 
            PROVE  off[j - 1] \in Nat /\ Follows(g[k + 1], off[j - 1], seqs[j])
        <5>1. CASE j = k + 1
          <6>1. off[j - 1] = Len(g[k]) /\ Len(g[k]) \in Nat
            BY <3>0, <4>2, <4>4, <5>1
          <6> QED
            BY <4>5, <5>1, <6>1 DEF next
        <5>2. CASE j # k + 1
          <6>1. j \in 1 .. k /\ j \in 1 .. n
            BY <4>1, <5>2
          <6>2. off[j - 1] \in Nat /\ Follows(g[k], off[j - 1], seqs[j]) /\ seqs[j] \in Seq(S)
            BY <4>2, <6>1
          <6> QED
            BY <3>0, <4>2, <4>3, <6>2, FollowsLonger
        <5> QED
          BY <5>1, <5>2
      <4>8. off[k + 1] = off[k] + Len(seqs[k + 1])
        BY <4>4, <4>5 DEF next
      <4> QED
        BY <4>6, <4>7, <4>8
    <3> QED
      BY <3>1, <3>2
  <2>5. Nat \subseteq U
    <3>1. 0 \in U
      OBVIOUS
    <3> HIDE DEF U
    <3> QED
      BY <2>4, <3>1, SetInduction
  <2>6. ASSUME NEW k \in 1 .. n
        PROVE  /\ g[k] \in Seq(S) /\ off[k] = off[k - 1] + Len(seqs[k])
               /\ \A j \in 1 .. k : off[j - 1] \in Nat /\ Follows(g[k], off[j - 1], seqs[j])
    BY <2>5
  <2>7. n \in 1 .. n
    BY <1>2
  <2>8. off \in [0 .. n -> Nat]
    <3>1. \A k \in 1 .. n : Len(g[k]) \in Nat
      BY <2>6
    <3> QED
      BY <3>1 DEF off
  <2>9. off[n] = Len(g[n])
    BY <2>2, <2>7
  <2>10. \A k \in 1 .. n : off[k] = off[k - 1] + Len(seqs[k]) /\ Follows(g[n], off[k - 1], seqs[k])
    BY <2>6, <2>7
  <2>11. g[n] \in Seq(S)
    BY <2>6, <2>7
  <2>12. \E o \in [0 .. n -> Nat] :
           /\ o[0] = 0 /\ o[n] = Len(g[n])
           /\ \A k \in 1 .. n : o[k] = o[k - 1] + Len(seqs[k]) /\ Follows(g[n], o[k - 1], seqs[k])
    BY <2>3, <2>8, <2>9, <2>10
  <2> QED
    BY <2>1, <2>11, <2>12
<1> QED
  BY <1>1, <1>2

\* Concatenating sequences over S gives a sequence over S.
LEMMA FlattenType ==
  ASSUME NEW S, NEW seqs, Len(seqs) \in Nat, Len(seqs) = 0 => seqs = <<>>,
         \A i \in 1 .. Len(seqs) : seqs[i] \in Seq(S)
  PROVE  FlattenSeq(seqs) \in Seq(S)
BY FlattenLaid

(***************************************************************************)
(* What the builders build: messages, whose first word announces their     *)
(* length.                                                                 *)
(***************************************************************************)
Message == {m \in Seq(Nat) : Len(m) >= HeaderWords}

\* The header says how long the message is, as fixMessageLength leaves it.
Sized(m) == m[1] = Pack(TRUE, 4 * Len(m))

\* A word is taken apart into numbers and put together from them.
LEMMA WordTypes ==
  /\ \A w \in Nat : Low(w) \in Nat /\ High(w) \in Nat
  /\ \A bit \in BOOLEAN, low \in Nat : Pack(bit, low) \in Nat
<1>1. HighBit \in Nat /\ HighBit > 0
  BY HighBitAssumption
<1>2. \A w \in Nat : w % HighBit \in Nat /\ w \div HighBit \in Nat
  BY <1>1
<1> QED
  BY <1>1, <1>2 DEF Low, High, Pack

\* AVPs are sequences of words.
LEMMA AvpTypes ==
  /\ \A code \in Nat, data \in Data : Avp(code, data) \in Seq(Nat)
  /\ \A code, vendor \in Nat, data \in Data : VendorAvp(code, vendor, data) \in Seq(Nat)
  /\ \A n \in Nat : Number(n) \in Data /\ Address(n) \in Data
<1>1. \A data \in Data : data.len \in Nat /\ data.words \in Seq(Nat)
  BY DEF Data
<1>2. ASSUME NEW bit \in BOOLEAN, NEW data \in Data, NEW n \in Nat
      PROVE  Pack(bit, n + data.len) \in Nat
  BY <1>1, HighBitAssumption DEF Pack
<1>3. \A n \in Nat : Number(n) \in Data /\ Address(n) \in Data
  <2>1. WordsOf(4) = 1 /\ WordsOf(6) = 2
    BY DEF WordsOf
  <2> SUFFICES ASSUME NEW n \in Nat PROVE Number(n) \in Data /\ Address(n) \in Data
    OBVIOUS
  <2>2. /\ <<n>> \in Seq(Nat) /\ Len(<<n>>) = 1
        /\ <<n, 0>> \in Seq(Nat) /\ Len(<<n, 0>>) = 2
    OBVIOUS
  <2>3. Number(n) \in Data
    BY <2>1, <2>2 DEF Number, Data
  <2>4. Address(n) \in Data
    BY <2>1, <2>2 DEF Address, Data
  <2> QED
    BY <2>3, <2>4
<1>4. ASSUME NEW code \in Nat, NEW data \in Data PROVE Avp(code, data) \in Seq(Nat)
  <2> DEFINE length == Pack(FALSE, 8 + data.len)
  <2>1. length \in Nat
    BY <1>2
  <2> HIDE DEF length
  <2>2. <<code, length>> \in Seq(Nat)
    BY <2>1
  <2> QED
    BY <1>1, <2>2, ConcatProperties DEF Avp, length
<1>5. ASSUME NEW code \in Nat, NEW vendor \in Nat, NEW data \in Data
      PROVE  VendorAvp(code, vendor, data) \in Seq(Nat)
  <2> DEFINE length == Pack(TRUE, 12 + data.len)
  <2>1. length \in Nat
    BY <1>2
  <2> HIDE DEF length
  <2>2. <<code, length, vendor>> \in Seq(Nat)
    BY <2>1
  <2> QED
    BY <1>1, <2>2, ConcatProperties DEF VendorAvp, length
<1> QED
  BY <1>3, <1>4, <1>5

\* Fixing the length of a message changes nothing else.
LEMMA FixLengthSizes ==
  ASSUME NEW m \in Message
  PROVE  /\ FixLength(m) \in Message /\ Sized(FixLength(m)) /\ Len(FixLength(m)) = Len(m)
         /\ \A i \in 2 .. Len(m) : FixLength(m)[i] = m[i]
<1>1. m \in Seq(Nat) /\ Len(m) \in Nat /\ Len(m) >= 5
  BY DEF Message, HeaderWords
<1> DEFINE first == Pack(TRUE, 4 * Len(m))
           fixed == [m EXCEPT ![1] = first]
<1>2. first \in Nat
  BY <1>1, HighBitAssumption DEF Pack
<1> HIDE DEF first
<1>3. 1 \in 1 .. Len(m)
  BY <1>1
<1>4. /\ fixed \in Seq(Nat) /\ Len(fixed) = Len(m)
      /\ \A i \in 1 .. Len(m) : fixed[i] = IF i = 1 THEN first ELSE m[i]
  BY <1>1, <1>2, <1>3, ExceptSeq
<1> HIDE DEF fixed
<1>5. FixLength(m) = fixed
  BY DEF FixLength, fixed, first
<1>6. fixed[1] = first /\ \A i \in 2 .. Len(m) : fixed[i] = m[i]
  <2>1. fixed[1] = first
    BY <1>3, <1>4
  <2>2. ASSUME NEW i \in 2 .. Len(m) PROVE fixed[i] = m[i]
    <3>1. i \in 1 .. Len(m) /\ i # 1
      BY <1>1
    <3> QED
      BY <1>4, <3>1
  <2> QED
    BY <2>1, <2>2
<1>7. Sized(fixed)
  BY <1>4, <1>6 DEF Sized, first
<1> QED
  BY <1>1, <1>4, <1>5, <1>6, <1>7 DEF Message, HeaderWords

\* The applications a node says it has.
LEMMA ApplicationsType ==
  ASSUME NEW c \in Config
  PROVE  Applications(c) \in Seq(Nat)
<1> DEFINE avp(i) == IF c.applications[i] = 0 THEN <<>>
                     ELSE Avp(AuthApplicationId, Number(c.applications[i]))
           avps == [i \in 1 .. Len(c.applications) |-> avp(i)]
<1>1. c.applications \in Seq(Nat) /\ AuthApplicationId \in Nat
  BY DEF Config, AuthApplicationId
<1>2. ASSUME NEW i \in 1 .. Len(c.applications) PROVE avp(i) \in Seq(Nat)
  <2>1. c.applications[i] \in Nat
    BY <1>1, ElementOfSeq
  <2> QED
    BY <1>1, <2>1, AvpTypes, EmptySeq
<1> HIDE DEF avp
<1>3. Len(c.applications) \in Nat
  BY <1>1
<1>4. Len(avps) = Len(c.applications) /\ (Len(avps) = 0 => avps = <<>>)
  BY <1>3
<1>5. \A i \in 1 .. Len(avps) : avps[i] \in Seq(Nat)
  BY <1>2, <1>4
<1> HIDE DEF avps
<1>6. FlattenSeq(avps) \in Seq(Nat)
  BY <1>3, <1>4, <1>5, FlattenType
<1> QED
  BY <1>6 DEF Applications, avps, avp

\* The AVPs a node says of itself.
LEMMA NodeAvps ==
  ASSUME NEW c \in Config
  PROVE  Identity(c) \in Seq(Nat) /\ Capabilities(c) \in Seq(Nat)
<1>1. /\ c.host \in Data /\ c.realm \in Data /\ c.product \in Data
      /\ c.address \in Nat /\ c.vendor \in Nat
  BY DEF Config
<1>2. /\ OriginHost \in Nat /\ OriginRealm \in Nat /\ HostIpAddress \in Nat /\ VendorId \in Nat
      /\ ProductName \in Nat
  BY DEF OriginHost, OriginRealm, HostIpAddress, VendorId, ProductName
<1>3. Applications(c) \in Seq(Nat)
  BY ApplicationsType
<1>4. /\ Avp(OriginHost, c.host) \in Seq(Nat) /\ Avp(OriginRealm, c.realm) \in Seq(Nat)
      /\ Avp(HostIpAddress, Address(c.address)) \in Seq(Nat)
      /\ Avp(VendorId, Number(c.vendor)) \in Seq(Nat) /\ Avp(ProductName, c.product) \in Seq(Nat)
  BY <1>1, <1>2, AvpTypes
<1>5. Identity(c) \in Seq(Nat)
  BY <1>4, ConcatProperties DEF Identity
<1> QED
  BY <1>3, <1>4, <1>5, ConcatProperties DEF Capabilities

\* The words of a header are numbers.
LEMMA HeaderTypes ==
  ASSUME NEW m \in Message
  PROVE  /\ m \in Seq(Nat) /\ Len(m) \in Nat /\ Len(m) >= 5
         /\ \A i \in 1 .. 5 : m[i] \in Nat
         /\ CommandCode(m) \in Nat /\ ApplicationId(m) \in Nat
         /\ HopByHop(m) \in Nat /\ EndToEnd(m) \in Nat
<1>1. m \in Seq(Nat) /\ Len(m) \in Nat /\ Len(m) >= 5
  BY DEF Message, HeaderWords
<1>2. \A i \in 1 .. Len(m) : m[i] \in Nat
  BY <1>1
<1>3. \A i \in 1 .. 5 : m[i] \in Nat
  BY <1>1, <1>2
<1>4. m[2] \in Nat /\ m[3] \in Nat /\ m[4] \in Nat /\ m[5] \in Nat
  BY <1>3
<1> QED
  BY <1>1, <1>3, <1>4, WordTypes DEF CommandCode, ApplicationId, HopByHop, EndToEnd

\* A message of which one word of the header but the first is replaced.
LEMMA ReplaceWord ==
  ASSUME NEW m \in Message, NEW k \in 2 .. 5, NEW w \in Nat
  PROVE  /\ [m EXCEPT ![k] = w] \in Message /\ Len([m EXCEPT ![k] = w]) = Len(m)
         /\ \A i \in 1 .. Len(m) : [m EXCEPT ![k] = w][i] = IF i = k THEN w ELSE m[i]
         /\ Sized(m) => Sized([m EXCEPT ![k] = w])
<1>1. m \in Seq(Nat) /\ Len(m) \in Nat /\ Len(m) >= 5
  BY DEF Message, HeaderWords
<1> DEFINE r == [m EXCEPT ![k] = w]
<1>2. k \in 1 .. Len(m)
  BY <1>1
<1>3. /\ r \in Seq(Nat) /\ Len(r) = Len(m)
      /\ \A i \in 1 .. Len(m) : r[i] = IF i = k THEN w ELSE m[i]
  BY <1>1, <1>2, ExceptSeq
<1> HIDE DEF r
<1>4. 1 \in 1 .. Len(m) /\ 1 # k
  BY <1>1
<1>5. r[1] = m[1]
  BY <1>3, <1>4
<1>6. r \in Message
  BY <1>1, <1>3 DEF Message, HeaderWords
<1>7. Sized(m) => Sized(r)
  BY <1>3, <1>5 DEF Sized
<1> QED
  BY <1>3, <1>6, <1>7 DEF r

\* A word that packs a bit with a low part is read back.
LEMMA PackReads ==
  ASSUME NEW n \in Nat, n < HighBit
  PROVE  /\ Low(Pack(TRUE, n)) = n /\ High(Pack(TRUE, n)) = 1
         /\ Low(Pack(FALSE, n)) = n /\ High(Pack(FALSE, n)) = 0
<1>1. HighBit \in Nat /\ HighBit > 0
  BY HighBitAssumption
<1>2. /\ (HighBit + n) % HighBit = n /\ (HighBit + n) \div HighBit = 1
      /\ (0 + n) % HighBit = n /\ (0 + n) \div HighBit = 0
  BY <1>1
<1>3. Pack(TRUE, n) = HighBit + n /\ Pack(FALSE, n) = 0 + n
  BY DEF Pack
<1> QED
  BY <1>2, <1>3 DEF Low, High

\* What the header of a message says, in its first word and behind it.
Says(m, command, app, hop, end) ==
  /\ m \in Message /\ Sized(m)
  /\ CommandCode(m) = command /\ ApplicationId(m) = app
  /\ HopByHop(m) = hop /\ EndToEnd(m) = end

\* AVPs behind a message leave the words of its header alone, and so does the
\* length of the whole but for the first.
LEMMA AvpsBehind ==
  ASSUME NEW m \in Message, NEW avps \in Seq(Nat)
  PROVE  LET r == FixLength(m \o avps)
         IN  /\ r \in Message /\ Sized(r)
             /\ r[2] = m[2] /\ r[3] = m[3] /\ r[4] = m[4] /\ r[5] = m[5]
<1>1. m \in Seq(Nat) /\ Len(m) \in Nat /\ Len(m) >= 5 /\ Len(avps) \in Nat
  BY DEF Message, HeaderWords
<1> DEFINE whole == m \o avps
           r == FixLength(whole)
<1>2. /\ whole \in Seq(Nat) /\ Len(whole) = Len(m) + Len(avps)
      /\ \A i \in 1 .. Len(m) : whole[i] = m[i]
  BY <1>1, ConcatProperties
<1> HIDE DEF whole
<1>3. whole \in Message
  BY <1>1, <1>2 DEF Message, HeaderWords
<1>4. r \in Message /\ Sized(r) /\ \A i \in 2 .. Len(whole) : r[i] = whole[i]
  BY <1>3, FixLengthSizes
<1> HIDE DEF r
<1>5. ASSUME NEW i \in 2 .. 5 PROVE r[i] = m[i]
  <2>1. i \in 2 .. Len(whole) /\ i \in 1 .. Len(m)
    BY <1>1, <1>2
  <2> QED
    BY <1>2, <1>4, <2>1
<1> QED
  BY <1>4, <1>5 DEF r, whole

\* A header alone is a message too.
LEMMA HeaderAlone ==
  ASSUME NEW first \in Nat, NEW second \in Nat, NEW app \in Nat, NEW hop \in Nat, NEW end \in Nat
  PROVE  <<first, second, app, hop, end>> \in Message
BY DEF Message, HeaderWords

\* A request that is built says what it is built from.
LEMMA RequestBuilt ==
  ASSUME NEW command \in Nat, command < HighBit, NEW app \in Nat, NEW hop \in Nat,
         NEW end \in Nat, NEW avps \in Seq(Nat)
  PROVE  LET m == FixLength(Header(TRUE, command, app, hop, end) \o avps)
         IN  Says(m, command, app, hop, end) /\ IsRequest(m)
<1> DEFINE first == Pack(TRUE, 0)
           second == Pack(TRUE, command)
           head == <<first, second, app, hop, end>>
           m == FixLength(head \o avps)
<1>1. first \in Nat /\ second \in Nat /\ Low(second) = command /\ High(second) = 1
  BY HighBitAssumption, PackReads DEF Pack
<1> HIDE DEF first, second
<1>2. head \in Message /\ head[2] = second /\ head[3] = app /\ head[4] = hop /\ head[5] = end
  BY <1>1, HeaderAlone
<1> HIDE DEF head
<1>3. m \in Message /\ Sized(m) /\ m[2] = second /\ m[3] = app /\ m[4] = hop /\ m[5] = end
  BY <1>2, AvpsBehind
<1> HIDE DEF m
<1>4. Says(m, command, app, hop, end) /\ IsRequest(m)
  BY <1>1, <1>3 DEF Says, IsRequest, CommandCode, ApplicationId, HopByHop, EndToEnd
<1> QED
  BY <1>4 DEF m, head, first, second, Header

\* And so does an answer with a header of its own.
LEMMA AnswerBuilt ==
  ASSUME NEW command \in Nat, command < HighBit, NEW app \in Nat, NEW hop \in Nat,
         NEW end \in Nat, NEW avps \in Seq(Nat)
  PROVE  LET m == FixLength(Header(FALSE, command, app, hop, end) \o avps)
         IN  Says(m, command, app, hop, end) /\ ~IsRequest(m)
<1> DEFINE first == Pack(TRUE, 0)
           second == Pack(FALSE, command)
           head == <<first, second, app, hop, end>>
           m == FixLength(head \o avps)
<1>1. first \in Nat /\ second \in Nat /\ Low(second) = command /\ High(second) = 0
  BY HighBitAssumption, PackReads DEF Pack
<1> HIDE DEF first, second
<1>2. head \in Message /\ head[2] = second /\ head[3] = app /\ head[4] = hop /\ head[5] = end
  BY <1>1, HeaderAlone
<1> HIDE DEF head
<1>3. m \in Message /\ Sized(m) /\ m[2] = second /\ m[3] = app /\ m[4] = hop /\ m[5] = end
  BY <1>2, AvpsBehind
<1> HIDE DEF m
<1>4. Says(m, command, app, hop, end) /\ ~IsRequest(m)
  BY <1>1, <1>3 DEF Says, IsRequest, CommandCode, ApplicationId, HopByHop, EndToEnd
<1> QED
  BY <1>4 DEF m, head, first, second, Header

(***************************************************************************)
(* The builders.                                                           *)
(***************************************************************************)
Base == {CER, DWR, DPR}

\* What a node sends on its own: the requests of the base protocol.
LEMMA BaseRequests ==
  ASSUME NEW c \in Config, NEW hop \in Nat, NEW end \in Nat
  PROVE  /\ Says(BuildCER(c, hop, end), CER, 0, hop, end) /\ IsRequest(BuildCER(c, hop, end))
         /\ Says(BuildDWR(c, hop, end), DWR, 0, hop, end) /\ IsRequest(BuildDWR(c, hop, end))
         /\ Says(BuildDPR(c, 0, hop, end), DPR, 0, hop, end)
         /\ IsRequest(BuildDPR(c, 0, hop, end))
<1>1. Identity(c) \in Seq(Nat) /\ Capabilities(c) \in Seq(Nat)
  BY NodeAvps
<1>2. /\ CER \in Nat /\ CER < HighBit /\ DWR \in Nat /\ DWR < HighBit
      /\ DPR \in Nat /\ DPR < HighBit /\ DisconnectCause \in Nat /\ 0 \in Nat
  BY HighBitAssumption DEF CER, DWR, DPR, DisconnectCause
<1>3. Avp(DisconnectCause, Number(0)) \in Seq(Nat)
  BY <1>2, AvpTypes
<1>4. Says(BuildCER(c, hop, end), CER, 0, hop, end) /\ IsRequest(BuildCER(c, hop, end))
  BY <1>1, <1>2, RequestBuilt DEF BuildCER
<1>5. Says(BuildDWR(c, hop, end), DWR, 0, hop, end) /\ IsRequest(BuildDWR(c, hop, end))
  BY <1>1, <1>2, RequestBuilt DEF BuildDWR
<1>6. Says(BuildDPR(c, 0, hop, end), DPR, 0, hop, end) /\ IsRequest(BuildDPR(c, 0, hop, end))
  <2> DEFINE head == Header(TRUE, DPR, 0, hop, end)
             avps == Identity(c) \o Avp(DisconnectCause, Number(0))
  <2>1. avps \in Seq(Nat)
    BY <1>1, <1>3, ConcatProperties
  <2> HIDE DEF avps
  <2>2. Says(FixLength(head \o avps), DPR, 0, hop, end) /\ IsRequest(FixLength(head \o avps))
    BY <1>2, <2>1, RequestBuilt
  <2>3. (head \o Identity(c)) \o Avp(DisconnectCause, Number(0)) = head \o avps
    <3>1. head \in Seq(Nat)
      <4> DEFINE first == Pack(TRUE, 0)
                 second == Pack(TRUE, DPR)
      <4>1. first \in Nat /\ second \in Nat
        BY <1>2, HighBitAssumption DEF Pack
      <4> HIDE DEF first, second
      <4>2. <<first, second, 0, hop, end>> \in Seq(Nat)
        BY <4>1
      <4> QED
        BY <4>2 DEF Header, first, second
    <3> DEFINE ident == Identity(c)
               cause == Avp(DisconnectCause, Number(0))
    <3>2. ident \in Seq(Nat) /\ cause \in Seq(Nat)
      BY <1>1, <1>3
    <3> HIDE DEF head, ident, cause
    <3>3. (head \o ident) \o cause = head \o (ident \o cause)
      BY <3>1, <3>2, WordsReassociate
    <3> QED
      BY <3>3 DEF avps, ident, cause
  <2> QED
    BY <2>2, <2>3 DEF BuildDPR
<1> QED
  BY <1>4, <1>5, <1>6

\* The answers of the base protocol repeat the command and the identifiers.
LEMMA BaseAnswers ==
  ASSUME NEW c \in Config, NEW m \in Message
  PROVE  /\ Says(BuildCEA(c, m), CommandCode(m), 0, HopByHop(m), EndToEnd(m))
         /\ ~IsRequest(BuildCEA(c, m))
         /\ Says(BuildBaseAnswer(c, m), CommandCode(m), 0, HopByHop(m), EndToEnd(m))
         /\ ~IsRequest(BuildBaseAnswer(c, m))
<1> DEFINE hop == HopByHop(m)
           end == EndToEnd(m)
           command == CommandCode(m)
           result == Avp(ResultCode, Number(Success))
           head == Header(FALSE, command, 0, hop, end)
<1>1. hop \in Nat /\ end \in Nat /\ command \in Nat /\ command < HighBit /\ 0 \in Nat
  <2>1. m[2] \in Nat /\ hop \in Nat /\ end \in Nat /\ command \in Nat
    BY HeaderTypes
  <2>2. m[2] % HighBit < HighBit
    BY <2>1, HighBitAssumption
  <2> QED
    BY <2>1, <2>2 DEF CommandCode, Low
<1>2. Identity(c) \in Seq(Nat) /\ Capabilities(c) \in Seq(Nat)
  BY NodeAvps
<1>3. result \in Seq(Nat)
  <2>1. ResultCode \in Nat /\ Success \in Nat
    BY DEF ResultCode, Success
  <2> QED
    BY <2>1, AvpTypes
<1>4. head \in Seq(Nat)
  <2> DEFINE first == Pack(TRUE, 0)
             second == Pack(FALSE, command)
  <2>1. first \in Nat /\ second \in Nat
    BY <1>1, HighBitAssumption DEF Pack
  <2> HIDE DEF first, second, hop, end, command
  <2>2. <<first, second, 0, hop, end>> \in Seq(Nat)
    BY <1>1, <2>1
  <2> QED
    BY <2>2 DEF Header, first, second
<1>5. AnswerHeader(m) = head \o result
  BY DEF AnswerHeader
<1> HIDE DEF hop, end, command, result
<1>6. ASSUME NEW avps \in Seq(Nat)
      PROVE  LET a == FixLength(AnswerHeader(m) \o avps)
             IN  Says(a, command, 0, hop, end) /\ ~IsRequest(a)
  <2> DEFINE all == result \o avps
  <2>1. all \in Seq(Nat)
    BY <1>3, ConcatProperties
  <2>2. (head \o result) \o avps = head \o all
    <3> HIDE DEF head
    <3> QED
      BY <1>3, <1>4, WordsReassociate
  <2> HIDE DEF all
  <2>3. Says(FixLength(head \o all), command, 0, hop, end) /\ ~IsRequest(FixLength(head \o all))
    BY <1>1, <2>1, AnswerBuilt
  <2> QED
    BY <1>5, <2>2, <2>3
<1> HIDE DEF head
<1>7. /\ Says(BuildCEA(c, m), command, 0, hop, end) /\ ~IsRequest(BuildCEA(c, m))
      /\ Says(BuildBaseAnswer(c, m), command, 0, hop, end) /\ ~IsRequest(BuildBaseAnswer(c, m))
  BY <1>2, <1>6 DEF BuildCEA, BuildBaseAnswer
<1> QED
  BY <1>7 DEF hop, end, command

\* The requests of the examples and of the unit tests, before they are sent.
LEMMA ApplicationRequests ==
  /\ \A c \in Config : LET m == BuildRequest(999, 0, c.host)
                       IN  Says(m, 999, 0, 0, 0) /\ IsRequest(m)
  /\ \A avps \in Seq(Nat) : LET m == BuildAppRequest(avps)
                            IN  Says(m, 272, 4, 0, 0) /\ IsRequest(m)
<1>1. /\ 999 \in Nat /\ 999 < HighBit /\ 272 \in Nat /\ 272 < HighBit
      /\ 0 \in Nat /\ 4 \in Nat /\ OriginHost \in Nat
  BY HighBitAssumption DEF OriginHost
<1>2. ASSUME NEW c \in Config
      PROVE  Says(BuildRequest(999, 0, c.host), 999, 0, 0, 0)
             /\ IsRequest(BuildRequest(999, 0, c.host))
  <2> DEFINE avps == Avp(OriginHost, c.host)
             command == 999
             app == 0
             m == FixLength(Header(TRUE, command, app, 0, 0) \o avps)
  <2>1. avps \in Seq(Nat) /\ command \in Nat /\ command < HighBit /\ app \in Nat
    BY <1>1, AvpTypes DEF Config
  <2> HIDE DEF avps, command, app
  <2>2. Says(m, command, app, 0, 0) /\ IsRequest(m)
    BY <1>1, <2>1, RequestBuilt
  <2>3. BuildRequest(999, 0, c.host) = m
    BY DEF BuildRequest, avps, command, app
  <2> HIDE DEF m
  <2> QED
    BY <2>2, <2>3 DEF command, app
<1>3. ASSUME NEW avps \in Seq(Nat)
      PROVE  Says(BuildAppRequest(avps), 272, 4, 0, 0) /\ IsRequest(BuildAppRequest(avps))
  BY <1>1, RequestBuilt, ZenonT(60) DEF BuildAppRequest
<1> QED
  BY <1>2, <1>3

\* Their answers, before they are sent: the request's header without its R bit.
LEMMA ApplicationAnswers ==
  ASSUME NEW m \in Message
  PROVE  /\ Says(BuildAnswer(m), CommandCode(m), ApplicationId(m), HopByHop(m), EndToEnd(m))
         /\ ~IsRequest(BuildAnswer(m))
         /\ Says(AnswerFor(m), CommandCode(m), ApplicationId(m), HopByHop(m), EndToEnd(m))
         /\ ~IsRequest(AnswerFor(m)) /\ Len(AnswerFor(m)) = HeaderWords
<1>1. m \in Seq(Nat) /\ Len(m) \in Nat /\ Len(m) >= 5 /\ \A i \in 1 .. 5 : m[i] \in Nat
  BY HeaderTypes
<1> DEFINE low == Low(m[2])
           second == Pack(FALSE, low)
<1>2. low \in Nat /\ low < HighBit
  <2>1. m[2] \in Nat
    BY <1>1
  <2> QED
    BY <2>1, HighBitAssumption DEF Low
<1> HIDE DEF low
<1>3. second \in Nat /\ Low(second) = low /\ High(second) = 0
  BY <1>2, PackReads, HighBitAssumption DEF Pack
<1> HIDE DEF second
<1>4. 2 \in 2 .. 5 /\ \A i \in 2 .. 5 : i \in 1 .. Len(m)
  BY <1>1
<1>5. Says(BuildAnswer(m), CommandCode(m), ApplicationId(m), HopByHop(m), EndToEnd(m))
      /\ ~IsRequest(BuildAnswer(m))
  <2> DEFINE head == [m EXCEPT ![2] = second]
             result == Avp(ResultCode, Number(Success))
             a == FixLength(head \o result)
  <2>1. result \in Seq(Nat)
    <3>1. ResultCode \in Nat /\ Success \in Nat
      BY DEF ResultCode, Success
    <3> QED
      BY <3>1, AvpTypes
  <2>2. head \in Message /\ \A i \in 1 .. Len(m) : head[i] = IF i = 2 THEN second ELSE m[i]
    BY <1>3, <1>4, ReplaceWord
  <2> HIDE DEF head, result
  <2>3. head[2] = second /\ head[3] = m[3] /\ head[4] = m[4] /\ head[5] = m[5]
    BY <1>4, <2>2
  <2>4. a \in Message /\ Sized(a) /\ a[2] = second /\ a[3] = m[3] /\ a[4] = m[4] /\ a[5] = m[5]
    BY <2>1, <2>2, <2>3, AvpsBehind
  <2>5. BuildAnswer(m) = a
    BY DEF BuildAnswer, a, head, result, second, low
  <2> HIDE DEF a
  <2> QED
    BY <1>3, <2>4, <2>5
       DEF Says, IsRequest, CommandCode, ApplicationId, HopByHop, EndToEnd, low
<1>6. Says(AnswerFor(m), CommandCode(m), ApplicationId(m), HopByHop(m), EndToEnd(m))
      /\ ~IsRequest(AnswerFor(m)) /\ Len(AnswerFor(m)) = HeaderWords
  <2> DEFINE short == SubSeq(m, 1, HeaderWords)
             head == [short EXCEPT ![2] = second]
             a == FixLength(head)
  <2>1. short \in Seq(Nat) /\ Len(short) = 5 /\ \A i \in 1 .. 5 : short[i] = m[i]
    <3>1. 1 \in 1 .. Len(m) + 1 /\ 5 \in 1 - 1 .. Len(m)
      BY <1>1
    <3> QED
      BY <1>1, <3>1, SubSeqProperties DEF HeaderWords
  <2> HIDE DEF short
  <2>2. short \in Message /\ short[2] = m[2]
    <3>1. short \in Message
      <4>1. Len(short) >= HeaderWords
        BY <2>1 DEF HeaderWords
      <4> QED
        BY <2>1, <4>1 DEF Message
    <3>2. 2 \in 1 .. 5
      OBVIOUS
    <3> QED
      BY <2>1, <3>1, <3>2
  <2>3. head \in Message /\ \A i \in 1 .. Len(short) : head[i] = IF i = 2 THEN second ELSE short[i]
    BY <1>3, <1>4, <2>2, ReplaceWord
  <2>4. Len(head) = 5
    BY <1>3, <1>4, <2>1, <2>2, ReplaceWord
  <2> HIDE DEF head
  <2>5. head[2] = second /\ head[3] = m[3] /\ head[4] = m[4] /\ head[5] = m[5]
    BY <2>1, <2>3
  <2>6. a \in Message /\ Sized(a) /\ Len(a) = 5 /\ \A i \in 2 .. 5 : a[i] = head[i]
    BY <2>3, <2>4, FixLengthSizes
  <2>7. AnswerFor(m) = a
    BY <2>2 DEF AnswerFor, a, head, short, second, low
  <2> HIDE DEF a
  <2>8. a[2] = second /\ a[3] = m[3] /\ a[4] = m[4] /\ a[5] = m[5]
    BY <2>5, <2>6
  <2> QED
    BY <1>3, <2>6, <2>7, <2>8
       DEF Says, IsRequest, CommandCode, ApplicationId, HopByHop, EndToEnd, HeaderWords, low
<1> QED
  BY <1>5, <1>6

(***************************************************************************)
(* The walks, by their recursion.                                          *)
(***************************************************************************)
\* A recursion that goes on to greater numbers only, and stops at the last, has
\* a solution.
Onward(last, Stop, next) ==
  /\ \A i \in Nat : i >= last => i \in Stop
  /\ \A i \in Nat : i \notin Stop => next[i] \in Nat /\ next[i] > i

Solvable(Stop, value, next) ==
  \E f : f = [i \in Nat |-> IF i \in Stop THEN value[i] ELSE f[next[i]]]

LEMMA WalkExists ==
  ASSUME NEW last \in Nat, NEW Stop, NEW value, NEW next, Onward(last, Stop, next)
  PROVE  Solvable(Stop, value, next)
<1>0. /\ \A i \in Nat : i >= last => i \in Stop
      /\ \A i \in Nat : i \notin Stop => next[i] \in Nat /\ next[i] > i
  BY DEF Onward
<1> DEFINE From(k) == {i \in Nat : i + k >= last}
           Go(f, i) == IF i \in Stop THEN value[i] ELSE f[next[i]]
           Partial(f, k) == f = [i \in From(k) |-> Go(f, i)]
           T == {k \in Nat : \E f : Partial(f, k)}
<1>1. 0 \in T
  <2> DEFINE f == [i \in From(0) |-> value[i]]
  <2>1. \A i \in From(0) : i \in Stop
    BY <1>0
  <2>2. f = [i \in From(0) |-> f[i]] /\ \A i \in From(0) : f[i] = value[i]
    OBVIOUS
  <2> HIDE DEF f, From
  <2>3. \A i \in From(0) : f[i] = Go(f, i)
    BY <2>1, <2>2
  <2>4. Partial(f, 0)
    BY <2>2, <2>3
  <2> HIDE DEF Partial
  <2> QED
    BY <2>4
<1>2. ASSUME NEW k \in Nat, k \in T PROVE k + 1 \in T
  <2>1. PICK f : Partial(f, k)
    BY <1>2
  <2>2. \A i \in From(k) : f[i] = Go(f, i)
    BY <2>1
  <2> DEFINE h == [i \in From(k + 1) |-> IF i \in From(k) THEN f[i] ELSE Go(f, i)]
  <2>3. ASSUME NEW i \in From(k + 1) PROVE h[i] = Go(h, i)
    <3>1. h[i] = Go(f, i)
      BY <2>2
    <3>2. CASE i \in Stop
      BY <3>1, <3>2
    <3>3. CASE i \notin Stop
      <4>1. i \in Nat /\ i + k + 1 >= last /\ next[i] \in Nat /\ next[i] > i
        BY <1>0, <3>3
      <4>2. next[i] \in From(k) /\ next[i] \in From(k + 1)
        BY <4>1
      <4>3. h[next[i]] = f[next[i]]
        BY <4>2
      <4> HIDE DEF h
      <4> QED
        BY <3>1, <3>3, <4>3
    <3> QED
      BY <3>2, <3>3
  <2>4. h = [i \in From(k + 1) |-> h[i]]
    OBVIOUS
  <2> HIDE DEF h, From, Go
  <2>5. Partial(h, k + 1)
    BY <2>3, <2>4
  <2> HIDE DEF Partial
  <2> QED
    BY <2>5
<1>3. last \in T
  <2> HIDE DEF T
  <2> QED
    BY <1>1, <1>2, SetInduction
<1>4. PICK f : Partial(f, last)
  BY <1>3
<1>5. From(last) = Nat
  OBVIOUS
<1>6. f = [i \in Nat |-> Go(f, i)]
  <2> HIDE DEF From, Go
  <2> QED
    BY <1>4, <1>5
<1> QED
  BY <1>6 DEF Solvable

\* One step of ExtractString's walk f, at the index i.
StringFails(m, i) ==
  \/ i + 1 > Len(m)
  \/ LET header == IF High(m[i + 1]) = 1 THEN 3 ELSE 2
     IN  Low(m[i + 1]) < 4 * header \/ 4 * (i - 1) + Low(m[i + 1]) > 4 * Len(m)

StringThere(m, i) ==
  LET header == IF High(m[i + 1]) = 1 THEN 3 ELSE 2
  IN  [len |-> Low(m[i + 1]) - 4 * header,
       words |-> SubSeq(m, i + header, i + WordsOf(Low(m[i + 1])) - 1)]

StringStep(m, code, f, i) ==
  IF StringFails(m, i) THEN NoText
  ELSE IF m[i] = code THEN StringThere(m, i) ELSE f[i + WordsOf(Low(m[i + 1]))]

\* One step of ExtractResultCode's, and of PingResultCode's.
ResultFails(m, i) == i + 1 > Len(m) \/ Low(m[i + 1]) < 8

ResultStep(m, f, i) ==
  IF ResultFails(m, i) THEN 0
  ELSE LET header == IF High(m[i + 1]) = 1 THEN 3 ELSE 2
       IN  IF m[i] = ResultCode /\ i + header <= Len(m) THEN m[i + header]
           ELSE f[i + WordsOf(Low(m[i + 1]))]

PingStep(m, f, i) ==
  IF ResultFails(m, i) THEN 0
  ELSE IF m[i] = ResultCode /\ Low(m[i + 1]) >= 12 THEN m[i + 2]
  ELSE f[i + WordsOf(Low(m[i + 1]))]

\* A length that is not less than 8 takes the walks forward.
LEMMA Forward ==
  ASSUME NEW m \in Message, NEW i \in Nat, ~ (i + 1 > Len(m)), ~ (Low(m[i + 1]) < 8)
  PROVE  i + WordsOf(Low(m[i + 1])) \in Nat /\ i + WordsOf(Low(m[i + 1])) > i
<1>1. m \in Seq(Nat) /\ Len(m) \in Nat
  BY HeaderTypes
<1>2. i + 1 \in 1 .. Len(m)
  BY <1>1
<1>3. m[i + 1] \in Nat
  BY <1>1, <1>2
<1> DEFINE n == Low(m[i + 1])
<1>4. n \in Nat /\ n >= 8
  <2>1. n \in Nat
    BY <1>3, WordTypes
  <2>2. ~ (n < 8)
    OBVIOUS
  <2> HIDE DEF n
  <2> QED
    BY <2>1, <2>2
<1> HIDE DEF n
<1>5. WordsOf(n) \in Nat /\ WordsOf(n) > 0
  BY <1>4 DEF WordsOf
<1> QED
  BY <1>5 DEF n

\* The walks are what their steps say.
LEMMA StringWalk ==
  ASSUME NEW m \in Message, NEW code
  PROVE  \E w : /\ ExtractString(m, code) = w[HeaderWords + 1]
                /\ \A i \in Nat : w[i] = StringStep(m, code, w, i)
<1> DEFINE Stop == {i \in Nat : StringFails(m, i) \/ m[i] = code}
           value == [i \in Nat |-> IF StringFails(m, i) THEN NoText ELSE StringThere(m, i)]
           next == [i \in Nat |-> i + WordsOf(Low(m[i + 1]))]
<1>1. m \in Seq(Nat) /\ Len(m) \in Nat
  BY HeaderTypes
<1>2. \A i \in Nat : i >= Len(m) => i \in Stop
  BY <1>1 DEF StringFails
<1>3. ASSUME NEW i \in Nat, i \notin Stop PROVE next[i] \in Nat /\ next[i] > i
  <2>1. ~StringFails(m, i)
    BY <1>3
  <2>2. i + 1 \in 1 .. Len(m)
    BY <1>1, <2>1 DEF StringFails
  <2>3. m[i + 1] \in Nat
    BY <1>1, <2>2
  <2> DEFINE n == Low(m[i + 1])
  <2>4. n \in Nat
    BY <2>3, WordTypes
  <2>5. ~ (n < 8)
    <3>1. ~ (n < 4 * (IF High(m[i + 1]) = 1 THEN 3 ELSE 2))
      BY <2>1 DEF StringFails
    <3> HIDE DEF n
    <3> QED
      BY <2>4, <3>1
  <2>6. ~ (i + 1 > Len(m))
    BY <1>1, <2>2
  <2> QED
    BY <2>5, <2>6, Forward
<1>4. ASSUME NEW f, NEW i \in Nat
      PROVE  StringStep(m, code, f, i) = IF i \in Stop THEN value[i] ELSE f[next[i]]
  BY DEF StringStep
<1> HIDE DEF Stop, value, next
<1>5. PICK f : f = [i \in Nat |-> IF i \in Stop THEN value[i] ELSE f[next[i]]]
  <2>1. Onward(Len(m), Stop, next)
    BY <1>2, <1>3 DEF Onward
  <2>2. Solvable(Stop, value, next)
    BY <1>1, <2>1, WalkExists
  <2> QED
    BY <2>2 DEF Solvable
<1>6. f = [i \in Nat |-> StringStep(m, code, f, i)]
  BY <1>4, <1>5
<1> DEFINE w == CHOOSE g : g = [i \in Nat |-> StringStep(m, code, g, i)]
<1>7. ExtractString(m, code) = w[HeaderWords + 1]
  BY DEF ExtractString, StringStep, StringFails, StringThere
<1>8. w = [i \in Nat |-> StringStep(m, code, w, i)]
  BY <1>6
<1> HIDE DEF w
<1>9. \A i \in Nat : w[i] = StringStep(m, code, w, i)
  BY <1>8
<1> QED
  BY <1>7, <1>9

LEMMA ResultWalk ==
  ASSUME NEW m \in Message
  PROVE  \E w : /\ ExtractResultCode(m) = w[HeaderWords + 1]
                /\ \A i \in Nat : w[i] = ResultStep(m, w, i)
<1> DEFINE found(i) == m[i] = ResultCode /\ i + (IF High(m[i + 1]) = 1 THEN 3 ELSE 2) <= Len(m)
           Stop == {i \in Nat : ResultFails(m, i) \/ found(i)}
           value == [i \in Nat |-> IF ResultFails(m, i) THEN 0 ELSE m[i + (IF High(m[i + 1]) = 1 THEN 3 ELSE 2)]]
           next == [i \in Nat |-> i + WordsOf(Low(m[i + 1]))]
<1>1. m \in Seq(Nat) /\ Len(m) \in Nat
  BY HeaderTypes
<1>2. \A i \in Nat : i >= Len(m) => i \in Stop
  BY <1>1 DEF ResultFails
<1>3. ASSUME NEW i \in Nat, i \notin Stop PROVE next[i] \in Nat /\ next[i] > i
  <2>1. ~ (i + 1 > Len(m)) /\ ~ (Low(m[i + 1]) < 8)
    BY <1>3 DEF ResultFails
  <2> QED
    BY <2>1, Forward
<1>4. ASSUME NEW f, NEW i \in Nat
      PROVE  ResultStep(m, f, i) = IF i \in Stop THEN value[i] ELSE f[next[i]]
  BY DEF ResultStep
<1> HIDE DEF Stop, value, next
<1>5. PICK f : f = [i \in Nat |-> IF i \in Stop THEN value[i] ELSE f[next[i]]]
  <2>1. Onward(Len(m), Stop, next)
    BY <1>2, <1>3 DEF Onward
  <2>2. Solvable(Stop, value, next)
    BY <1>1, <2>1, WalkExists
  <2> QED
    BY <2>2 DEF Solvable
<1>6. f = [i \in Nat |-> ResultStep(m, f, i)]
  BY <1>4, <1>5
<1> DEFINE w == CHOOSE g : g = [i \in Nat |-> ResultStep(m, g, i)]
<1>7. ExtractResultCode(m) = w[HeaderWords + 1]
  BY DEF ExtractResultCode, ResultStep, ResultFails
<1>8. w = [i \in Nat |-> ResultStep(m, w, i)]
  BY <1>6
<1> HIDE DEF w
<1>9. \A i \in Nat : w[i] = ResultStep(m, w, i)
  BY <1>8
<1> QED
  BY <1>7, <1>9

LEMMA PingWalk ==
  ASSUME NEW m \in Message
  PROVE  \E w : /\ PingResultCode(m) = w[HeaderWords + 1]
                /\ \A i \in Nat : w[i] = PingStep(m, w, i)
<1> DEFINE found(i) == m[i] = ResultCode /\ Low(m[i + 1]) >= 12
           Stop == {i \in Nat : ResultFails(m, i) \/ found(i)}
           value == [i \in Nat |-> IF ResultFails(m, i) THEN 0 ELSE m[i + 2]]
           next == [i \in Nat |-> i + WordsOf(Low(m[i + 1]))]
<1>1. m \in Seq(Nat) /\ Len(m) \in Nat
  BY HeaderTypes
<1>2. \A i \in Nat : i >= Len(m) => i \in Stop
  BY <1>1 DEF ResultFails
<1>3. ASSUME NEW i \in Nat, i \notin Stop PROVE next[i] \in Nat /\ next[i] > i
  <2>1. ~ (i + 1 > Len(m)) /\ ~ (Low(m[i + 1]) < 8)
    BY <1>3 DEF ResultFails
  <2> QED
    BY <2>1, Forward
<1>4. ASSUME NEW f, NEW i \in Nat
      PROVE  PingStep(m, f, i) = IF i \in Stop THEN value[i] ELSE f[next[i]]
  BY DEF PingStep
<1> HIDE DEF Stop, value, next
<1>5. PICK f : f = [i \in Nat |-> IF i \in Stop THEN value[i] ELSE f[next[i]]]
  <2>1. Onward(Len(m), Stop, next)
    BY <1>2, <1>3 DEF Onward
  <2>2. Solvable(Stop, value, next)
    BY <1>1, <2>1, WalkExists
  <2> QED
    BY <2>2 DEF Solvable
<1>6. f = [i \in Nat |-> PingStep(m, f, i)]
  BY <1>4, <1>5
<1> DEFINE w == CHOOSE g : g = [i \in Nat |-> PingStep(m, g, i)]
<1>7. PingResultCode(m) = w[HeaderWords + 1]
  BY DEF PingResultCode, PingStep, ResultFails
<1>8. w = [i \in Nat |-> PingStep(m, w, i)]
  BY <1>6
<1> HIDE DEF w
<1>9. \A i \in Nat : w[i] = PingStep(m, w, i)
  BY <1>8
<1> QED
  BY <1>7, <1>9

(***************************************************************************)
(* AVPs in a message, and the Result-Code behind them.                     *)
(***************************************************************************)
\* What an AVP behind the place a of the message m is to the walks for a result
\* that step over it: it is no Result-Code, and ends at b.
Skips(m, a, b) ==
  /\ a \in Nat /\ a >= HeaderWords /\ a + 2 <= Len(m)
  /\ m[a + 1] # ResultCode /\ ~ (Low(m[a + 2]) < 8)
  /\ b = a + WordsOf(Low(m[a + 2]))

\* AVPs behind the header, each of which they step over, to the end at off[n].
Chain(m, n, off) ==
  off[0] = HeaderWords /\ \A k \in 1 .. n : Skips(m, off[k - 1], off[k])

\* A request to whose AVPs an answer may put its Result-Code.
Walkable(m) == \E n \in Nat : \E off : Chain(m, n, off) /\ off[n] = Len(m)

\* A Result-Code of success behind the place a.
ResultBehind(m, a) ==
  /\ a \in Nat /\ a >= HeaderWords /\ a + 3 <= Len(m)
  /\ m[a + 1] = ResultCode /\ Low(m[a + 2]) = 12 /\ High(m[a + 2]) = 0
  /\ m[a + 3] = Success

\* What an answer says: success, or nothing if it has no AVPs.
Understood(m) ==
  LET result == IF Len(m) = HeaderWords THEN 0 ELSE Success
  IN  ExtractResultCode(m) = result /\ PingResultCode(m) = result

\* The words of a message are numbers, and so are what they are taken apart to.
LEMMA WordAt ==
  ASSUME NEW m \in Message, NEW k \in 1 .. Len(m)
  PROVE  m[k] \in Nat /\ Low(m[k]) \in Nat /\ High(m[k]) \in Nat /\ WordsOf(Low(m[k])) \in Nat
<1>1. m[k] \in Nat
  BY HeaderTypes, ElementOfSeq
<1> DEFINE low == Low(m[k])
<1>2. low \in Nat /\ High(m[k]) \in Nat
  BY <1>1, WordTypes
<1> HIDE DEF low
<1>3. WordsOf(low) \in Nat
  BY <1>2 DEF WordsOf
<1> QED
  BY <1>1, <1>2, <1>3 DEF low

\* The walks step over an AVP, ...
LEMMA StepsOver ==
  ASSUME NEW m \in Message, NEW a, NEW b, Skips(m, a, b)
  PROVE  /\ \A w : w[a + 1] = ResultStep(m, w, a + 1) => w[a + 1] = w[b + 1]
         /\ \A w : w[a + 1] = PingStep(m, w, a + 1) => w[a + 1] = w[b + 1]
         /\ a + 1 \in Nat
<1>1. /\ a \in Nat /\ a + 2 <= Len(m) /\ Len(m) \in Nat
      /\ m[a + 1] # ResultCode /\ ~ (Low(m[a + 2]) < 8)
      /\ b = a + WordsOf(Low(m[a + 2]))
  BY HeaderTypes DEF Skips
<1> DEFINE n == WordsOf(Low(m[a + 2]))
<1>2. a + 2 \in 1 .. Len(m)
  BY <1>1
<1>3. n \in Nat
  BY <1>2, WordAt
<1>4. (a + 1) + 1 = a + 2
  BY <1>1
<1>5. ~ ResultFails(m, a + 1)
  BY <1>1, <1>4 DEF ResultFails
<1>6. (a + 1) + WordsOf(Low(m[(a + 1) + 1])) = b + 1
  <2> HIDE DEF n
  <2>1. b = a + n
    BY <1>1 DEF n
  <2>2. (a + 1) + n = b + 1
    BY <1>1, <1>3, <2>1
  <2> QED
    BY <1>4, <2>2 DEF n
<1>7. ASSUME NEW w PROVE ResultStep(m, w, a + 1) = w[b + 1] /\ PingStep(m, w, a + 1) = w[b + 1]
  BY <1>1, <1>5, <1>6 DEF ResultStep, PingStep
<1> QED
  BY <1>1, <1>7

\* ... and find a Result-Code.
LEMMA ResultStands ==
  ASSUME NEW m \in Message, NEW a, ResultBehind(m, a)
  PROVE  /\ \A w : w[a + 1] = ResultStep(m, w, a + 1) => w[a + 1] = Success
         /\ \A w : w[a + 1] = PingStep(m, w, a + 1) => w[a + 1] = Success
         /\ a + 1 \in Nat
<1>1. /\ a \in Nat /\ a + 3 <= Len(m) /\ Len(m) \in Nat
      /\ m[a + 1] = ResultCode /\ Low(m[a + 2]) = 12 /\ High(m[a + 2]) = 0
      /\ m[a + 3] = Success
  BY HeaderTypes DEF ResultBehind
<1>2. (a + 1) + 1 = a + 2 /\ (a + 1) + 2 = a + 3
  BY <1>1
<1>3. ~ ResultFails(m, a + 1)
  BY <1>1, <1>2 DEF ResultFails
<1>4. ASSUME NEW w PROVE ResultStep(m, w, a + 1) = Success /\ PingStep(m, w, a + 1) = Success
  BY <1>1, <1>2, <1>3 DEF ResultStep, PingStep
<1>5. a + 1 \in Nat
  BY <1>1
<1> HIDE DEF ResultStep, PingStep
<1>6. ASSUME NEW w PROVE ResultStep(m, w, a + 1) = Success
  BY <1>4
<1>7. ASSUME NEW w PROVE PingStep(m, w, a + 1) = Success
  BY <1>4
<1> QED
  BY <1>5, <1>6, <1>7

\* A Result-Code behind a chain of AVPs, or behind the header, is understood.
LEMMA ChainFound ==
  ASSUME NEW m \in Message, NEW n \in Nat, NEW off, Chain(m, n, off), ResultBehind(m, off[n])
  PROVE  Understood(m)
<1>1. ASSUME NEW w, \A k \in 1 .. n : w[off[k - 1] + 1] = w[off[k] + 1],
             w[off[n] + 1] = Success
      PROVE  w[HeaderWords + 1] = Success
  <2> DEFINE T == {k \in Nat : k <= n => w[off[k] + 1] = w[off[0] + 1]}
  <2>1. 0 \in T
    OBVIOUS
  <2>2. ASSUME NEW k \in Nat, k \in T PROVE k + 1 \in T
    <3> SUFFICES ASSUME k + 1 <= n PROVE w[off[k + 1] + 1] = w[off[0] + 1]
      OBVIOUS
    <3>1. k + 1 \in 1 .. n /\ (k + 1) - 1 = k /\ k <= n
      OBVIOUS
    <3> QED
      BY <1>1, <2>2, <3>1
  <2>3. n \in T
    <3> HIDE DEF T
    <3> QED
      BY <2>1, <2>2, SetInduction
  <2>4. w[off[n] + 1] = w[off[0] + 1]
    BY <2>3
  <2> QED
    BY <1>1, <2>4 DEF Chain
<1>2. ExtractResultCode(m) = Success
  <2>1. PICK w : /\ ExtractResultCode(m) = w[HeaderWords + 1]
                 /\ \A i \in Nat : w[i] = ResultStep(m, w, i)
    BY ResultWalk
  <2>2. ASSUME NEW k \in 1 .. n PROVE w[off[k - 1] + 1] = w[off[k] + 1]
    BY <2>1, StepsOver DEF Chain
  <2>3. w[off[n] + 1] = Success
    BY <2>1, ResultStands
  <2> QED
    BY <1>1, <2>1, <2>2, <2>3
<1>3. PingResultCode(m) = Success
  <2>1. PICK w : /\ PingResultCode(m) = w[HeaderWords + 1]
                 /\ \A i \in Nat : w[i] = PingStep(m, w, i)
    BY PingWalk
  <2>2. ASSUME NEW k \in 1 .. n PROVE w[off[k - 1] + 1] = w[off[k] + 1]
    BY <2>1, StepsOver DEF Chain
  <2>3. w[off[n] + 1] = Success
    BY <2>1, ResultStands
  <2> QED
    BY <1>1, <2>1, <2>2, <2>3
<1>4. Len(m) # HeaderWords
  <2> DEFINE a == off[n]
  <2> HIDE DEF a
  <2>1. a \in Nat /\ a >= HeaderWords /\ a + 3 <= Len(m) /\ HeaderWords \in Nat
    BY DEF ResultBehind, a, HeaderWords
  <2>2. Len(m) \in Nat
    BY HeaderTypes
  <2> QED
    BY <2>1, <2>2
<1> QED
  BY <1>2, <1>3, <1>4 DEF Understood

(***************************************************************************)
(* What one side puts in an AVP is what the other finds there.             *)
(***************************************************************************)
\* The length of an AVP in words, and that of its data.
LEMMA WordsOfMore ==
  ASSUME NEW n \in Nat
  PROVE  /\ WordsOf(n) \in Nat /\ n <= 4 * WordsOf(n)
         /\ WordsOf(8 + n) = 2 + WordsOf(n) /\ WordsOf(12 + n) = 3 + WordsOf(n)
BY DEF WordsOf

\* A message that is short enough for its lengths to be read.
Short(m) == 4 * Len(m) < HighBit

\* The header of an AVP behind the place a, and of one with a vendor.
AvpAt(m, a, code, data) ==
  /\ m[a + 1] = code /\ Low(m[a + 2]) = 8 + data.len /\ High(m[a + 2]) = 0
  /\ a + 2 + WordsOf(data.len) <= Len(m)
  /\ \A j \in 1 .. WordsOf(data.len) : m[a + 2 + j] = data.words[j]

LEMMA AvpReads ==
  ASSUME NEW m \in Message, Short(m), NEW a \in Nat, NEW code \in Nat, NEW data \in Data,
         Follows(m, a, Avp(code, data))
  PROVE  AvpAt(m, a, code, data) /\ Len(Avp(code, data)) = 2 + WordsOf(data.len)
<1>1. data.len \in Nat /\ data.words \in Seq(Nat) /\ Len(data.words) = WordsOf(data.len)
  BY DEF Data
<1> DEFINE len == data.len
           words == data.words
           n == WordsOf(len)
           pack == Pack(FALSE, 8 + len)
           head == <<code, pack>>
           avp == head \o words
<1>2. n \in Nat /\ len <= 4 * n /\ Len(words) = n /\ words \in Seq(Nat) /\ len \in Nat
  BY <1>1, WordsOfMore
<1> HIDE DEF len, words, n
<1>3. pack \in Nat
  BY <1>2, HighBitAssumption DEF Pack
<1> HIDE DEF pack
<1>4. head \in Seq(Nat) /\ Len(head) = 2 /\ head[1] = code /\ head[2] = pack
  BY <1>3
<1> HIDE DEF head
<1>5. /\ Len(avp) = 2 + n
      /\ \A i \in 1 .. 2 + n : avp[i] = IF i <= 2 THEN head[i] ELSE words[i - 2]
  <2>1. /\ Len(avp) = Len(head) + Len(words)
        /\ \A i \in 1 .. Len(head) + Len(words) :
             avp[i] = IF i <= Len(head) THEN head[i] ELSE words[i - Len(head)]
    BY <1>2, <1>4, ConcatProperties
  <2> HIDE DEF avp
  <2> QED
    BY <1>2, <1>4, <2>1
<1>6. Follows(m, a, avp)
  BY DEF Avp, avp, head, pack, len, words
<1> HIDE DEF avp
<1>7. a + (2 + n) <= Len(m) /\ \A j \in 1 .. 2 + n : avp[j] = m[a + j]
  BY <1>5, <1>6 DEF Follows
<1>8. m[a + 1] = code /\ m[a + 2] = pack
  <2>1. 1 \in 1 .. 2 + n /\ 2 \in 1 .. 2 + n
    BY <1>2
  <2> QED
    BY <1>4, <1>5, <1>7, <2>1
<1>9. ASSUME NEW j \in 1 .. n PROVE m[a + 2 + j] = words[j]
  <2>1. 2 + j \in 1 .. 2 + n /\ ~ (2 + j <= 2) /\ (2 + j) - 2 = j /\ a + (2 + j) = a + 2 + j
    BY <1>2
  <2> QED
    BY <1>5, <1>7, <2>1
<1>10. 8 + len \in Nat /\ 8 + len < HighBit
  <2>1. 4 * Len(m) < HighBit /\ Len(m) \in Nat /\ HighBit \in Nat
    BY HeaderTypes, HighBitAssumption DEF Short
  <2> QED
    BY <1>2, <1>7, <2>1
<1>11. Low(pack) = 8 + len /\ High(pack) = 0
  BY <1>10, PackReads DEF pack
<1>12. a + 2 + n <= Len(m)
  BY <1>2, <1>7, HeaderTypes
<1>13. AvpAt(m, a, code, data)
  BY <1>8, <1>9, <1>11, <1>12 DEF AvpAt, len, words, n
<1>14. Len(Avp(code, data)) = 2 + WordsOf(data.len)
  BY <1>5 DEF Avp, avp, head, pack, len, words, n
<1> QED
  BY <1>13, <1>14

VendorAvpAt(m, a, code, data) ==
  /\ m[a + 1] = code /\ Low(m[a + 2]) = 12 + data.len
  /\ a + 3 + WordsOf(data.len) <= Len(m)

LEMMA VendorAvpReads ==
  ASSUME NEW m \in Message, Short(m), NEW a \in Nat, NEW code \in Nat, NEW vendor \in Nat,
         NEW data \in Data, Follows(m, a, VendorAvp(code, vendor, data))
  PROVE  /\ VendorAvpAt(m, a, code, data)
         /\ Len(VendorAvp(code, vendor, data)) = 3 + WordsOf(data.len)
<1>1. data.len \in Nat /\ data.words \in Seq(Nat) /\ Len(data.words) = WordsOf(data.len)
  BY DEF Data
<1> DEFINE len == data.len
           words == data.words
           n == WordsOf(len)
           pack == Pack(TRUE, 12 + len)
           head == <<code, pack, vendor>>
           avp == head \o words
<1>2. n \in Nat /\ len <= 4 * n /\ Len(words) = n /\ words \in Seq(Nat) /\ len \in Nat
  BY <1>1, WordsOfMore
<1> HIDE DEF len, words, n
<1>3. pack \in Nat
  BY <1>2, HighBitAssumption DEF Pack
<1> HIDE DEF pack
<1>4. head \in Seq(Nat) /\ Len(head) = 3 /\ head[1] = code /\ head[2] = pack
  BY <1>3
<1> HIDE DEF head
<1>5. /\ Len(avp) = 3 + n
      /\ \A i \in 1 .. 3 + n : avp[i] = IF i <= 3 THEN head[i] ELSE words[i - 3]
  <2>1. /\ Len(avp) = Len(head) + Len(words)
        /\ \A i \in 1 .. Len(head) + Len(words) :
             avp[i] = IF i <= Len(head) THEN head[i] ELSE words[i - Len(head)]
    BY <1>2, <1>4, ConcatProperties
  <2> HIDE DEF avp
  <2> QED
    BY <1>2, <1>4, <2>1
<1>6. Follows(m, a, avp)
  BY DEF VendorAvp, avp, head, pack, len, words
<1> HIDE DEF avp
<1>7. a + (3 + n) <= Len(m) /\ \A j \in 1 .. 3 + n : avp[j] = m[a + j]
  BY <1>5, <1>6 DEF Follows
<1>8. m[a + 1] = code /\ m[a + 2] = pack
  <2>1. 1 \in 1 .. 3 + n /\ 2 \in 1 .. 3 + n
    BY <1>2
  <2> QED
    BY <1>4, <1>5, <1>7, <2>1
<1>9. 12 + len \in Nat /\ 12 + len < HighBit
  <2>1. 4 * Len(m) < HighBit /\ Len(m) \in Nat /\ HighBit \in Nat
    BY HeaderTypes, HighBitAssumption DEF Short
  <2> QED
    BY <1>2, <1>7, <2>1
<1>10. Low(pack) = 12 + len
  BY <1>9, PackReads DEF pack
<1>11. a + 3 + n <= Len(m)
  BY <1>2, <1>7, HeaderTypes
<1>12. VendorAvpAt(m, a, code, data)
  BY <1>8, <1>10, <1>11 DEF VendorAvpAt, len, n
<1>13. Len(VendorAvp(code, vendor, data)) = 3 + WordsOf(data.len)
  BY <1>5 DEF VendorAvp, avp, head, pack, len, words, n
<1> QED
  BY <1>12, <1>13

\* The walks for a result step over every AVP that is no Result-Code ...
LEMMA AvpSkips ==
  ASSUME NEW m \in Message, Short(m), NEW a \in Nat, a >= HeaderWords,
         NEW code \in Nat, code # ResultCode, NEW data \in Data
  PROVE  /\ Follows(m, a, Avp(code, data)) => Skips(m, a, a + Len(Avp(code, data)))
         /\ \A vendor \in Nat : Follows(m, a, VendorAvp(code, vendor, data)) =>
                                  Skips(m, a, a + Len(VendorAvp(code, vendor, data)))
<1> DEFINE len == data.len
           n == WordsOf(len)
<1>1. /\ len \in Nat /\ n \in Nat /\ WordsOf(8 + len) = 2 + n /\ WordsOf(12 + len) = 3 + n
      /\ Len(m) \in Nat
  BY WordsOfMore, HeaderTypes DEF Data
<1>2. ASSUME Follows(m, a, Avp(code, data)) PROVE Skips(m, a, a + Len(Avp(code, data)))
  <2>1. AvpAt(m, a, code, data) /\ Len(Avp(code, data)) = 2 + n
    BY <1>2, AvpReads
  <2>2. m[a + 1] = code /\ Low(m[a + 2]) = 8 + len /\ a + 2 + n <= Len(m)
    BY <2>1 DEF AvpAt
  <2> HIDE DEF len, n
  <2>3. a + 2 <= Len(m) /\ ~ (8 + len < 8)
    BY <1>1, <2>2
  <2>4. a + WordsOf(Low(m[a + 2])) = a + Len(Avp(code, data))
    BY <1>1, <2>1, <2>2
  <2> QED
    BY <2>2, <2>3, <2>4 DEF Skips
<1>3. ASSUME NEW vendor \in Nat, Follows(m, a, VendorAvp(code, vendor, data))
      PROVE  Skips(m, a, a + Len(VendorAvp(code, vendor, data)))
  <2>1. VendorAvpAt(m, a, code, data) /\ Len(VendorAvp(code, vendor, data)) = 3 + n
    BY <1>3, VendorAvpReads
  <2>2. m[a + 1] = code /\ Low(m[a + 2]) = 12 + len /\ a + 3 + n <= Len(m)
    BY <2>1 DEF VendorAvpAt
  <2> HIDE DEF len, n
  <2>3. a + 2 <= Len(m) /\ ~ (12 + len < 8)
    BY <1>1, <2>2
  <2>4. a + WordsOf(Low(m[a + 2])) = a + Len(VendorAvp(code, vendor, data))
    BY <1>1, <2>1, <2>2
  <2> QED
    BY <2>2, <2>3, <2>4 DEF Skips
<1> QED
  BY <1>2, <1>3

\* ... and that one they read.
Result == Avp(ResultCode, Number(Success))

LEMMA ResultReads ==
  ASSUME NEW m \in Message, Short(m), NEW a \in Nat, Follows(m, a, Result)
  PROVE  /\ a >= HeaderWords => ResultBehind(m, a)
         /\ AvpAt(m, a, ResultCode, Number(Success)) /\ Len(Result) = 3
<1>1. ResultCode \in Nat /\ Success \in Nat
  BY DEF ResultCode, Success
<1> DEFINE data == Number(Success)
<1>2. data \in Data
  BY <1>1, AvpTypes
<1>3. data.len = 4 /\ data.words[1] = Success /\ WordsOf(4) = 1
  BY DEF Number, WordsOf
<1> HIDE DEF data
<1>4. AvpAt(m, a, ResultCode, data) /\ Len(Result) = 2 + 1
  <2>1. Follows(m, a, Avp(ResultCode, data))
    BY DEF Result, data
  <2>2. AvpAt(m, a, ResultCode, data) /\ Len(Avp(ResultCode, data)) = 2 + WordsOf(data.len)
    BY <1>1, <1>2, <2>1, AvpReads
  <2> QED
    BY <1>3, <2>2 DEF Result, data
<1>5. /\ m[a + 1] = ResultCode /\ Low(m[a + 2]) = 12 /\ High(m[a + 2]) = 0
      /\ a + 2 + 1 <= Len(m) /\ m[a + 2 + 1] = data.words[1]
  <2>1. 1 \in 1 .. 1 /\ 8 + 4 = 12
    OBVIOUS
  <2> QED
    BY <1>3, <1>4, <2>1 DEF AvpAt
<1>6. a + 2 + 1 = a + 3
  OBVIOUS
<1> QED
  BY <1>3, <1>4, <1>5, <1>6 DEF ResultBehind, data

\* A walk of extractStringAvp.
Walks(w, m, code) == \A i \in Nat : w[i] = StringStep(m, code, w, i)

\* The walk for a string steps over other AVPs without a vendor, and finds what
\* the one it looks for holds.
LEMMA StringReads ==
  ASSUME NEW m \in Message, NEW a \in Nat, NEW there \in Nat, NEW data \in Data,
         AvpAt(m, a, there, data), NEW code, NEW w, Walks(w, m, code)
  PROVE  w[a + 1] = IF there = code THEN data ELSE w[a + 2 + WordsOf(data.len) + 1]
<1>00. \A i \in Nat : w[i] = StringStep(m, code, w, i)
  BY DEF Walks
<1> DEFINE len == data.len
           n == WordsOf(len)
           i == a + 1
<1>1. /\ len \in Nat /\ n \in Nat /\ WordsOf(8 + len) = 2 + n /\ len <= 4 * n /\ Len(m) \in Nat
      /\ m \in Seq(Nat)
  BY WordsOfMore, HeaderTypes DEF Data
<1>2. /\ m[a + 1] = there /\ Low(m[a + 2]) = 8 + len /\ High(m[a + 2]) = 0
      /\ a + 2 + n <= Len(m) /\ \A j \in 1 .. n : m[a + 2 + j] = data.words[j]
  BY DEF AvpAt
<1>3. data = [len |-> len, words |-> data.words] /\ data.words \in Seq(Nat) /\ Len(data.words) = n
  BY DEF Data
<1> HIDE DEF len, n
<1>4. i \in Nat /\ i + 1 = a + 2 /\ i = a + 1
  OBVIOUS
<1> HIDE DEF i
<1> DEFINE size == Len(m)
           words == data.words
<1>0. size \in Nat /\ a + 2 + n <= size
  BY <1>1, <1>2
<1>5. ~ StringFails(m, i)
  <2>1. ~ (i + 1 > size) /\ ~ (8 + len < 4 * 2) /\ ~ (4 * (i - 1) + (8 + len) > 4 * size)
    <3>1. len \in Nat /\ n \in Nat /\ len <= 4 * n
      BY <1>1
    <3> HIDE DEF size
    <3> QED
      BY <1>0, <1>4, <3>1
  <2>2. High(m[i + 1]) # 1 /\ Low(m[i + 1]) = 8 + len
    BY <1>2, <1>4
  <2> QED
    BY <2>1, <2>2 DEF StringFails
<1>6. CASE there = code
  <2>1. w[i] = StringThere(m, i)
    BY <1>00, <1>2, <1>4, <1>5, <1>6 DEF StringStep
  <2>2. StringThere(m, i) = [len |-> (8 + len) - 4 * 2,
                             words |-> SubSeq(m, i + 2, i + WordsOf(8 + len) - 1)]
    <3>1. High(m[i + 1]) # 1 /\ Low(m[i + 1]) = 8 + len
      BY <1>2, <1>4
    <3> QED
      BY <3>1 DEF StringThere
  <2>3. (8 + len) - 4 * 2 = len /\ i + 2 = a + 3 /\ i + WordsOf(8 + len) - 1 = a + 2 + n
    BY <1>1, <1>4
  <2>4. SubSeq(m, a + 3, a + 2 + n) = data.words
    <3> DEFINE first == a + 3
               last == a + 2 + n
               s == SubSeq(m, first, last)
    <3>1. /\ first \in Int /\ last \in Int /\ last - first + 1 = n
          /\ ~ (first <= last) => n = 0
          /\ first >= 1 /\ last <= size
          /\ \A j \in 1 .. n : first + j - 1 = a + 2 + j
      <4>1. n \in Nat
        BY <1>1
      <4> HIDE DEF size
      <4> QED
        BY <1>0, <4>1
    <3> HIDE DEF first, last
    <3>2. ASSUME NEW k \in first .. last PROVE m[k] \in Nat
      <4>1. k \in 1 .. size
        <5> HIDE DEF size
        <5> QED
          BY <1>0, <3>1
      <4> QED
        BY <4>1, WordAt
    <3>3. /\ s \in Seq(Nat) /\ Len(s) = IF first <= last THEN last - first + 1 ELSE 0
          /\ \A j \in 1 .. last - first + 1 : s[j] = m[first + j - 1]
      BY <3>1, <3>2, SubSeqProperties
    <3> HIDE DEF s
    <3>4. /\ s \in Seq(Nat) /\ Len(s) = n /\ \A j \in 1 .. n : s[j] = m[a + 2 + j]
      BY <3>1, <3>3
    <3>5. words \in Seq(Nat) /\ Len(words) = n /\ \A j \in 1 .. n : m[a + 2 + j] = words[j]
      BY <1>2, <1>3
    <3> HIDE DEF words
    <3>6. s = words
      BY <3>4, <3>5, SeqEqual
    <3> QED
      BY <3>6 DEF s, first, last, words
  <2> QED
    BY <1>3, <1>4, <1>6, <2>1, <2>2, <2>3, <2>4
<1>7. CASE there # code
  <2>1. w[i] = w[i + WordsOf(Low(m[i + 1]))]
    BY <1>00, <1>2, <1>4, <1>5, <1>7 DEF StringStep
  <2>2. i + WordsOf(Low(m[i + 1])) = a + 2 + n + 1
    <3>1. i + (2 + n) = a + 2 + n + 1
      BY <1>1, <1>4
    <3> QED
      BY <1>1, <1>2, <1>4, <3>1
  <2> QED
    BY <1>4, <1>7, <2>1, <2>2 DEF n, len
<1> QED
  BY <1>6, <1>7

(***************************************************************************)
(* The AVPs of the messages that are built.                                *)
(***************************************************************************)
\* What stands in a sequence that stands in another stands there too.
LEMMA FollowsWithin ==
  ASSUME NEW m \in Seq(Nat), NEW c \in Nat, NEW w \in Seq(Nat), NEW k \in Nat, NEW v \in Seq(Nat),
         Follows(m, c, w), Follows(w, k, v)
  PROVE  Follows(m, c + k, v)
<1>1. Len(m) \in Nat /\ Len(w) \in Nat /\ Len(v) \in Nat
  OBVIOUS
<1>2. c + Len(w) <= Len(m) /\ \A j \in 1 .. Len(w) : w[j] = m[c + j]
  BY DEF Follows
<1>3. k + Len(v) <= Len(w) /\ \A j \in 1 .. Len(v) : v[j] = w[k + j]
  BY DEF Follows
<1>4. ASSUME NEW j \in 1 .. Len(v) PROVE v[j] = m[c + k + j]
  <2>1. k + j \in 1 .. Len(w) /\ c + (k + j) = c + k + j
    BY <1>1, <1>3
  <2> QED
    BY <1>2, <1>3, <2>1
<1>5. c + k + Len(v) <= Len(m)
  BY <1>1, <1>2, <1>3
<1> QED
  BY <1>4, <1>5 DEF Follows

\* The AVPs of a message stand behind its header.
LEMMA AvpsStand ==
  ASSUME NEW head \in Message, NEW avps \in Seq(Nat)
  PROVE  LET m == FixLength(head \o avps)
         IN  /\ Len(m) = Len(head) + Len(avps) /\ Follows(m, Len(head), avps)
             /\ \A i \in 3 .. Len(head) : m[i] = head[i]
<1>1. head \in Seq(Nat) /\ Len(head) \in Nat /\ Len(head) >= 5 /\ Len(avps) \in Nat
  BY HeaderTypes
<1> DEFINE whole == head \o avps
           m == FixLength(whole)
<1>2. /\ whole \in Seq(Nat) /\ Len(whole) = Len(head) + Len(avps)
      /\ \A i \in 1 .. Len(head) + Len(avps) :
           whole[i] = IF i <= Len(head) THEN head[i] ELSE avps[i - Len(head)]
  BY <1>1, ConcatProperties
<1> HIDE DEF whole
<1>3. whole \in Message
  BY <1>1, <1>2 DEF Message, HeaderWords
<1>4. Len(m) = Len(whole) /\ \A i \in 2 .. Len(whole) : m[i] = whole[i]
  BY <1>3, FixLengthSizes
<1> HIDE DEF m
<1>5. ASSUME NEW j \in 1 .. Len(avps) PROVE avps[j] = m[Len(head) + j]
  <2> DEFINE i == Len(head) + j
  <2>1. /\ i \in 2 .. Len(whole) /\ i \in 1 .. Len(head) + Len(avps)
        /\ ~ (i <= Len(head)) /\ i - Len(head) = j
    BY <1>1, <1>2
  <2> HIDE DEF i
  <2> QED
    BY <1>2, <1>4, <2>1 DEF i
<1>6. Follows(m, Len(head), avps)
  BY <1>1, <1>2, <1>4, <1>5 DEF Follows
<1>7. ASSUME NEW i \in 3 .. Len(head) PROVE m[i] = head[i]
  <2>1. i \in 2 .. Len(whole) /\ i \in 1 .. Len(head) + Len(avps) /\ i <= Len(head)
    BY <1>1, <1>2
  <2> QED
    BY <1>2, <1>4, <2>1
<1> QED
  BY <1>2, <1>4, <1>6, <1>7 DEF m, whole

\* The same for a message whose header is written anew.
LEMMA AvpsStandBehindHeader ==
  ASSUME NEW request \in BOOLEAN, NEW command \in Nat, NEW app \in Nat, NEW hop \in Nat,
         NEW end \in Nat, NEW avps \in Seq(Nat)
  PROVE  LET m == FixLength(Header(request, command, app, hop, end) \o avps)
         IN  Len(m) = HeaderWords + Len(avps) /\ Follows(m, HeaderWords, avps)
<1> DEFINE first == Pack(TRUE, 0)
           second == Pack(request, command)
           head == <<first, second, app, hop, end>>
<1>1. first \in Nat /\ second \in Nat
  BY WordTypes
<1> HIDE DEF first, second
<1>2. head \in Message
  BY <1>1, HeaderAlone
<1>3. Len(head) = HeaderWords
  BY DEF HeaderWords
<1>4. Header(request, command, app, hop, end) = head
  BY DEF Header, head, first, second
<1> HIDE DEF head
<1> QED
  BY <1>2, <1>3, <1>4, AvpsStand

\* What a node says of itself, as the other side finds it.
Names(m, c) == ExtractString(m, OriginHost) = c.host /\ ExtractString(m, OriginRealm) = c.realm

\* It is found behind the header, or behind a Result-Code.
LEMMA IdentityReads ==
  ASSUME NEW m \in Message, Short(m), NEW c \in Config, NEW a \in Nat, Follows(m, a, Identity(c)),
         a = HeaderWords \/ (a = HeaderWords + 3 /\ Follows(m, HeaderWords, Result))
  PROVE  Names(m, c)
<1> DEFINE host == c.host
           realm == c.realm
           H == Avp(OriginHost, host)
           R == Avp(OriginRealm, realm)
           b == a + 2 + WordsOf(host.len)
<1>1. host \in Data /\ realm \in Data
  BY DEF Config
<1>2. /\ OriginHost \in Nat /\ OriginRealm \in Nat /\ ResultCode \in Nat /\ HeaderWords \in Nat
      /\ ResultCode # OriginHost /\ ResultCode # OriginRealm /\ OriginHost # OriginRealm
  BY DEF OriginHost, OriginRealm, ResultCode, HeaderWords
<1>3. Identity(c) = H \o R
  BY DEF Identity
<1> HIDE DEF host, realm
<1>4. H \in Seq(Nat) /\ R \in Seq(Nat)
  BY <1>1, <1>2, AvpTypes
<1>5. m \in Seq(Nat) /\ H \o R \in Seq(Nat) /\ Len(H) \in Nat
  BY <1>4, HeaderTypes, ConcatProperties
<1>6. Follows(H \o R, 0, H) /\ Follows(H \o R, Len(H), R)
  BY <1>4, FollowsTwo
<1>7. Follows(m, a, H) /\ Follows(m, a + Len(H), R)
  <2>1. Follows(m, a, H \o R) /\ a + 0 = a
    BY <1>3
  <2> HIDE DEF H, R
  <2>2. Follows(m, a + 0, H) /\ Follows(m, a + Len(H), R)
    BY <1>4, <1>5, <1>6, <2>1, FollowsWithin
  <2> QED
    BY <2>1, <2>2
<1>8. AvpAt(m, a, OriginHost, host) /\ a + Len(H) = b
  <2>1. AvpAt(m, a, OriginHost, host) /\ Len(H) = 2 + WordsOf(host.len)
    BY <1>1, <1>2, <1>7, AvpReads
  <2>2. WordsOf(host.len) \in Nat
    BY <1>1, WordsOfMore DEF Data
  <2> HIDE DEF H
  <2> QED
    BY <2>1, <2>2
<1>9. b \in Nat /\ AvpAt(m, b, OriginRealm, realm)
  <2>1. b \in Nat
    BY <1>5, <1>8
  <2>2. Follows(m, b, R)
    BY <1>7, <1>8
  <2> HIDE DEF b
  <2> QED
    BY <1>1, <1>2, <2>1, <2>2, AvpReads
<1> HIDE DEF H, R
<1>10. ASSUME NEW code \in {OriginHost, OriginRealm}, NEW w, Walks(w, m, code)
       PROVE  w[HeaderWords + 1] = IF code = OriginHost THEN host ELSE realm
  <2>1. w[HeaderWords + 1] = w[a + 1]
    <3>1. CASE a = HeaderWords
      BY <3>1
    <3>2. CASE a = HeaderWords + 3 /\ Follows(m, HeaderWords, Result)
      <4> DEFINE data == Number(Success)
      <4>1. data \in Data /\ WordsOf(data.len) = 1
        <5>1. Success \in Nat /\ WordsOf(4) = 1 /\ data.len = 4
          BY DEF Success, WordsOf, Number
        <5> QED
          BY <5>1, AvpTypes
      <4>2. AvpAt(m, HeaderWords, ResultCode, data)
        BY <1>2, <3>2, ResultReads
      <4> HIDE DEF data
      <4>3. ResultCode # code
        BY <1>2
      <4>4. w[HeaderWords + 1] = w[HeaderWords + 2 + WordsOf(data.len) + 1]
        BY <1>2, <1>10, <4>1, <4>2, <4>3, StringReads
      <4>5. HeaderWords + 2 + WordsOf(data.len) + 1 = a + 1
        BY <1>2, <3>2, <4>1
      <4> QED
        BY <4>4, <4>5
    <3> QED
      BY <3>1, <3>2
  <2>2. w[a + 1] = IF OriginHost = code THEN host ELSE w[b + 1]
    <3>1. w[a + 1] = IF OriginHost = code THEN host ELSE w[a + 2 + WordsOf(host.len) + 1]
      BY <1>1, <1>2, <1>8, <1>10, StringReads
    <3> QED
      BY <3>1
  <2>3. code = OriginRealm => w[b + 1] = realm
    <3> HIDE DEF b
    <3> QED
      BY <1>1, <1>2, <1>9, <1>10, StringReads
  <2> HIDE DEF b
  <2> QED
    BY <2>1, <2>2, <2>3
<1>11. ExtractString(m, OriginHost) = host
  <2>1. PICK w : /\ ExtractString(m, OriginHost) = w[HeaderWords + 1]
                 /\ \A i \in Nat : w[i] = StringStep(m, OriginHost, w, i)
    BY StringWalk
  <2> QED
    BY <1>2, <1>10, <2>1 DEF Walks
<1>12. ExtractString(m, OriginRealm) = realm
  <2>1. PICK w : /\ ExtractString(m, OriginRealm) = w[HeaderWords + 1]
                 /\ \A i \in Nat : w[i] = StringStep(m, OriginRealm, w, i)
    BY StringWalk
  <2> QED
    BY <1>2, <1>10, <2>1 DEF Walks
<1> QED
  BY <1>11, <1>12 DEF Names, host, realm

\* A message with the AVPs of another one, or with more behind them.
Extends(r, m) == Len(m) <= Len(r) /\ \A i \in HeaderWords + 1 .. Len(m) : r[i] = m[i]

\* An answer in which a result is found, or which is a header alone.
Readable(m) ==
  \/ Len(m) = HeaderWords
  \/ \E n \in Nat : \E off : Chain(m, n, off) /\ ResultBehind(m, off[n])

\* The walks find the same in it.
LEMMA ChainKept ==
  ASSUME NEW m \in Message, NEW r \in Message, Extends(r, m)
  PROVE  /\ \A n \in Nat : \A off : Chain(m, n, off) => Chain(r, n, off)
         /\ \A a : ResultBehind(m, a) => ResultBehind(r, a)
<1>1. /\ Len(m) \in Nat /\ Len(r) \in Nat /\ Len(m) <= Len(r)
      /\ \A i \in HeaderWords + 1 .. Len(m) : r[i] = m[i]
  BY HeaderTypes DEF Extends
<1>2. HeaderWords \in Nat
  BY DEF HeaderWords
<1>3. ASSUME NEW a, NEW b, Skips(m, a, b) PROVE Skips(r, a, b)
  <2>1. a \in Nat /\ a >= HeaderWords /\ a + 2 <= Len(m)
    BY <1>3 DEF Skips
  <2>2. a + 1 \in HeaderWords + 1 .. Len(m) /\ a + 2 \in HeaderWords + 1 .. Len(m)
        /\ a + 2 <= Len(r)
    BY <1>1, <1>2, <2>1
  <2>3. r[a + 1] = m[a + 1] /\ r[a + 2] = m[a + 2]
    BY <1>1, <2>2
  <2> QED
    BY <1>3, <2>2, <2>3 DEF Skips
<1>4. ASSUME NEW a, ResultBehind(m, a) PROVE ResultBehind(r, a)
  <2>1. a \in Nat /\ a >= HeaderWords /\ a + 3 <= Len(m)
    BY <1>4 DEF ResultBehind
  <2>2. /\ a + 1 \in HeaderWords + 1 .. Len(m) /\ a + 2 \in HeaderWords + 1 .. Len(m)
        /\ a + 3 \in HeaderWords + 1 .. Len(m) /\ a + 3 <= Len(r)
    BY <1>1, <1>2, <2>1
  <2>3. r[a + 1] = m[a + 1] /\ r[a + 2] = m[a + 2] /\ r[a + 3] = m[a + 3]
    BY <1>1, <2>2
  <2> QED
    BY <1>4, <2>2, <2>3 DEF ResultBehind
<1> QED
  BY <1>3, <1>4 DEF Chain

LEMMA ReadableUnderstood ==
  ASSUME NEW m \in Message, Readable(m)
  PROVE  Understood(m)
<1>1. CASE Len(m) = HeaderWords
  <2>1. ResultFails(m, HeaderWords + 1)
    BY <1>1 DEF ResultFails, HeaderWords
  <2>2. HeaderWords + 1 \in Nat
    BY DEF HeaderWords
  <2>3. ExtractResultCode(m) = 0
    <3>1. PICK w : /\ ExtractResultCode(m) = w[HeaderWords + 1]
                   /\ \A i \in Nat : w[i] = ResultStep(m, w, i)
      BY ResultWalk
    <3> QED
      BY <2>1, <2>2, <3>1 DEF ResultStep
  <2>4. PingResultCode(m) = 0
    <3>1. PICK w : /\ PingResultCode(m) = w[HeaderWords + 1]
                   /\ \A i \in Nat : w[i] = PingStep(m, w, i)
      BY PingWalk
    <3> QED
      BY <2>1, <2>2, <3>1 DEF PingStep
  <2> QED
    BY <1>1, <2>3, <2>4 DEF Understood
<1>2. CASE Len(m) # HeaderWords
  BY <1>2, ChainFound DEF Readable
<1> QED
  BY <1>1, <1>2

(***************************************************************************)
(* What is found in each message that is built.                            *)
(***************************************************************************)
\* The numbers that name AVPs and results.
LEMMA CodeTypes ==
  /\ OriginHost \in Nat /\ OriginRealm \in Nat /\ ResultCode \in Nat /\ Success \in Nat
  /\ HeaderWords \in Nat /\ OriginHost # ResultCode /\ Result \in Seq(Nat)
<1>1. /\ OriginHost \in Nat /\ OriginRealm \in Nat /\ ResultCode \in Nat /\ Success \in Nat
      /\ HeaderWords \in Nat /\ OriginHost # ResultCode
  BY DEF OriginHost, OriginRealm, ResultCode, Success, HeaderWords
<1> QED
  BY <1>1, AvpTypes DEF Result

\* The capabilities of a node begin with who it is.
LEMMA IdentityFirst ==
  ASSUME NEW c \in Config
  PROVE  /\ Identity(c) \in Seq(Nat) /\ Capabilities(c) \in Seq(Nat)
         /\ Follows(Capabilities(c), 0, Identity(c))
<1>1. Identity(c) \in Seq(Nat) /\ Capabilities(c) \in Seq(Nat)
  BY NodeAvps
<1> DEFINE identity == Identity(c)
           address == Avp(HostIpAddress, Address(c.address))
           vendor == Avp(VendorId, Number(c.vendor))
           product == Avp(ProductName, c.product)
           applications == Applications(c)
<1>2. /\ address \in Seq(Nat) /\ vendor \in Seq(Nat) /\ product \in Seq(Nat)
      /\ applications \in Seq(Nat)
  <2>1. c.product \in Data /\ c.address \in Nat /\ c.vendor \in Nat
    BY DEF Config
  <2>2. HostIpAddress \in Nat /\ VendorId \in Nat /\ ProductName \in Nat
    BY DEF HostIpAddress, VendorId, ProductName
  <2> QED
    BY <2>1, <2>2, AvpTypes, ApplicationsType
<1>3. Capabilities(c) = (((identity \o address) \o vendor) \o product) \o applications
  BY DEF Capabilities
<1> HIDE DEF identity, address, vendor, product, applications
<1>4. identity \in Seq(Nat) /\ 0 \in Nat
  BY <1>1 DEF identity
<1>5. identity \o address \in Seq(Nat) /\ Follows(identity \o address, 0, identity)
  BY <1>2, <1>4, FollowsTwo, ConcatProperties
<1> DEFINE two == identity \o address
           three == two \o vendor
           four == three \o product
<1>6. two \in Seq(Nat) /\ Follows(two, 0, identity)
  BY <1>5
<1> HIDE DEF two
<1>7. three \in Seq(Nat) /\ Follows(three, 0, identity)
  BY <1>2, <1>4, <1>6, FollowsLonger, ConcatProperties
<1> HIDE DEF three
<1>8. four \in Seq(Nat) /\ Follows(four, 0, identity)
  BY <1>2, <1>4, <1>7, FollowsLonger, ConcatProperties
<1> HIDE DEF four
<1>9. Follows(four \o applications, 0, identity)
  BY <1>2, <1>4, <1>8, FollowsLonger
<1> QED
  BY <1>1, <1>3, <1>9 DEF two, three, four, identity

\* A CER names the node that sends it.
LEMMA RequestNames ==
  ASSUME NEW c \in Config, NEW hop \in Nat, NEW end \in Nat, Short(BuildCER(c, hop, end))
  PROVE  Names(BuildCER(c, hop, end), c)
<1> DEFINE avps == Capabilities(c)
           m == FixLength(Header(TRUE, CER, 0, hop, end) \o avps)
<1>1. avps \in Seq(Nat) /\ Identity(c) \in Seq(Nat) /\ Follows(avps, 0, Identity(c))
  BY IdentityFirst
<1> HIDE DEF avps
<1>2. BuildCER(c, hop, end) = m
  BY DEF BuildCER, avps
<1>3. CER \in Nat /\ 0 \in Nat /\ TRUE \in BOOLEAN
  BY DEF CER
<1>4. Follows(m, HeaderWords, avps)
  BY <1>1, <1>3, AvpsStandBehindHeader
<1>5. m \in Message
  <2>1. Says(m, CER, 0, hop, end)
    BY <1>2, BaseRequests
  <2> QED
    BY <2>1 DEF Says
<1> HIDE DEF m
<1>6. Follows(m, HeaderWords, Identity(c))
  <2>1. m \in Seq(Nat) /\ HeaderWords \in Nat /\ HeaderWords + 0 = HeaderWords
    BY <1>5, HeaderTypes, CodeTypes
  <2>2. Follows(m, HeaderWords + 0, Identity(c))
    BY <1>1, <1>3, <1>4, <2>1, FollowsWithin
  <2> QED
    BY <2>1, <2>2
<1>7. Short(m)
  BY <1>2
<1>8. Names(m, c)
  BY <1>5, <1>6, <1>7, CodeTypes, IdentityReads
<1> QED
  BY <1>2, <1>8

\* An answer of the base protocol begins with its result; what it says of the
\* node comes next.
LEMMA ResultFirst ==
  ASSUME NEW request \in Message, NEW avps \in Seq(Nat),
         NEW m \in Message, m = FixLength(AnswerHeader(request) \o avps), Short(m)
  PROVE  /\ Readable(m)
         /\ Follows(m, HeaderWords, Result)
         /\ Follows(m, HeaderWords + 3, avps)
<1> DEFINE hop == HopByHop(request)
           end == EndToEnd(request)
           command == CommandCode(request)
           head == Header(FALSE, command, 0, hop, end)
           all == Result \o avps
<1>1. hop \in Nat /\ end \in Nat /\ command \in Nat /\ 0 \in Nat /\ FALSE \in BOOLEAN
  BY HeaderTypes
<1> HIDE DEF hop, end, command
<1>2. head \in Seq(Nat)
  <2> DEFINE first == Pack(TRUE, 0)
             second == Pack(FALSE, command)
  <2>1. first \in Nat /\ second \in Nat
    BY <1>1, WordTypes
  <2> HIDE DEF first, second
  <2>2. <<first, second, 0, hop, end>> \in Seq(Nat)
    BY <1>1, <2>1
  <2> QED
    BY <2>2 DEF Header, first, second
<1>3. AnswerHeader(request) = head \o Result
  BY DEF AnswerHeader, Result, head, hop, end, command
<1> HIDE DEF head
<1>4. m = FixLength(head \o all)
  <2>1. (head \o Result) \o avps = head \o (Result \o avps)
    BY <1>2, CodeTypes, WordsReassociate
  <2> QED
    BY <1>3, <2>1
<1>5. all \in Seq(Nat) /\ Follows(all, 0, Result) /\ Follows(all, Len(Result), avps)
  BY CodeTypes, FollowsTwo, ConcatProperties
<1> HIDE DEF all
<1>6. Follows(m, HeaderWords, all)
  <2> DEFINE whole == FixLength(Header(FALSE, command, 0, hop, end) \o all)
  <2>1. Follows(whole, HeaderWords, all)
    BY <1>1, <1>5, AvpsStandBehindHeader
  <2>2. m = whole
    BY <1>4 DEF head
  <2> HIDE DEF whole
  <2> QED
    BY <2>1, <2>2
<1>7. m \in Seq(Nat) /\ HeaderWords \in Nat /\ HeaderWords + 0 = HeaderWords
  BY HeaderTypes, CodeTypes
<1>8. Follows(m, HeaderWords, Result)
  <2>1. Follows(m, HeaderWords + 0, Result)
    BY <1>1, <1>5, <1>6, <1>7, CodeTypes, FollowsWithin
  <2> QED
    BY <1>7, <2>1
<1>9. Len(Result) = 3 /\ ResultBehind(m, HeaderWords)
  BY <1>7, <1>8, ResultReads
<1>10. Follows(m, HeaderWords + 3, avps)
  <2>1. Follows(all, 3, avps) /\ 3 \in Nat
    BY <1>5, <1>9
  <2> QED
    BY <1>5, <1>6, <1>7, <2>1, FollowsWithin
<1>11. Readable(m)
  <2> DEFINE off == [k \in {0} |-> HeaderWords]
  <2>1. off[0] = HeaderWords /\ 0 \in Nat /\ 1 .. 0 = {}
    OBVIOUS
  <2> HIDE DEF off
  <2>2. Chain(m, 0, off)
    BY <2>1 DEF Chain
  <2> QED
    BY <1>9, <2>1, <2>2 DEF Readable
<1> QED
  BY <1>8, <1>10, <1>11

\* So the result of an answer of the base protocol is found, and a CEA names
\* the node that sends it.
LEMMA BaseAnswersRead ==
  ASSUME NEW c \in Config, NEW request \in Message
  PROVE  /\ Short(BuildCEA(c, request)) =>
              Readable(BuildCEA(c, request)) /\ Names(BuildCEA(c, request), c)
         /\ Short(BuildBaseAnswer(c, request)) => Readable(BuildBaseAnswer(c, request))
<1>1. Identity(c) \in Seq(Nat) /\ Capabilities(c) \in Seq(Nat)
      /\ Follows(Capabilities(c), 0, Identity(c))
  BY IdentityFirst
<1>2. BuildCEA(c, request) \in Message /\ BuildBaseAnswer(c, request) \in Message
  BY BaseAnswers DEF Says
<1>3. ASSUME Short(BuildBaseAnswer(c, request)) PROVE Readable(BuildBaseAnswer(c, request))
  BY <1>1, <1>2, <1>3, ResultFirst DEF BuildBaseAnswer
<1>4. ASSUME Short(BuildCEA(c, request))
      PROVE  Readable(BuildCEA(c, request)) /\ Names(BuildCEA(c, request), c)
  <2> DEFINE m == BuildCEA(c, request)
             avps == Capabilities(c)
  <2>1. m \in Message /\ Short(m) /\ m = FixLength(AnswerHeader(request) \o avps)
    BY <1>2, <1>4 DEF BuildCEA
  <2> HIDE DEF m, avps
  <2>2. avps \in Seq(Nat) /\ Follows(avps, 0, Identity(c))
    BY <1>1 DEF avps
  <2>3. Readable(m) /\ Follows(m, HeaderWords, Result) /\ Follows(m, HeaderWords + 3, avps)
    BY <2>1, <2>2, ResultFirst
  <2> DEFINE a == HeaderWords + 3
  <2>4. m \in Seq(Nat) /\ a \in Nat /\ a + 0 = a /\ 0 \in Nat
    BY <2>1, HeaderTypes, CodeTypes
  <2>5. a = HeaderWords + 3
    OBVIOUS
  <2> HIDE DEF a
  <2>6. Follows(m, a + 0, Identity(c))
    BY <1>1, <2>2, <2>3, <2>4, <2>5, FollowsWithin
  <2>7. Follows(m, a, Identity(c))
    BY <2>4, <2>6
  <2>8. Names(m, c)
    BY <2>1, <2>3, <2>4, <2>5, <2>7, IdentityReads
  <2> QED
    BY <2>3, <2>8 DEF m
<1> QED
  BY <1>3, <1>4

\* A message with other identifiers is walked like the one without.
LEMMA WalksKept ==
  ASSUME NEW m \in Message, NEW r \in Message, Extends(r, m), Len(r) = Len(m)
  PROVE  (Readable(m) => Readable(r)) /\ (Walkable(m) => Walkable(r))
BY ChainKept DEF Readable, Walkable

\* An AVP as a request has it: a result is what answers say.
Askable(v) ==
  \E code \in Nat \ {ResultCode}, data \in Data :
    v = Avp(code, data) \/ \E vendor \in Nat : v = VendorAvp(code, vendor, data)

\* The walks step over it.
LEMMA AskableSkips ==
  ASSUME NEW m \in Message, Short(m), NEW a \in Nat, a >= HeaderWords, NEW v, Askable(v),
         Follows(m, a, v)
  PROVE  v \in Seq(Nat) /\ Skips(m, a, a + Len(v))
<1>1. PICK code \in Nat \ {ResultCode}, data \in Data :
        v = Avp(code, data) \/ \E vendor \in Nat : v = VendorAvp(code, vendor, data)
  BY DEF Askable
<1>2. code \in Nat /\ code # ResultCode
  OBVIOUS
<1>3. CASE v = Avp(code, data)
  BY <1>2, <1>3, AvpSkips, AvpTypes
<1>4. ASSUME NEW vendor \in Nat, v = VendorAvp(code, vendor, data)
      PROVE  v \in Seq(Nat) /\ Skips(m, a, a + Len(v))
  BY <1>2, <1>4, AvpSkips, AvpTypes
<1> QED
  BY <1>1, <1>3, <1>4

\* So does one walk over all that stand behind a header.
LEMMA AvpsWalkable ==
  ASSUME NEW m \in Message, Short(m), NEW seqs, Len(seqs) \in Nat, Len(seqs) = 0 => seqs = <<>>,
         \A i \in 1 .. Len(seqs) : seqs[i] \in Seq(Nat) /\ Askable(seqs[i]),
         Len(m) = HeaderWords + Len(FlattenSeq(seqs)),
         Follows(m, HeaderWords, FlattenSeq(seqs))
  PROVE  Walkable(m)
<1> DEFINE flat == FlattenSeq(seqs)
           n == Len(seqs)
<1>1. flat \in Seq(Nat) /\ n \in Nat /\ Follows(m, HeaderWords, flat)
      /\ Len(m) = HeaderWords + Len(flat) /\ Len(flat) \in Nat
      /\ \A i \in 1 .. n : seqs[i] \in Seq(Nat) /\ Askable(seqs[i])
  BY FlattenType
<1>2. PICK off \in [0 .. n -> Nat] :
        /\ off[0] = 0 /\ off[n] = Len(flat)
        /\ \A k \in 1 .. n : /\ off[k] = off[k - 1] + Len(seqs[k])
                             /\ Follows(flat, off[k - 1], seqs[k])
  BY FlattenLaid
<1> HIDE DEF flat, n
<1>3. m \in Seq(Nat) /\ HeaderWords \in Nat
  BY HeaderTypes, CodeTypes
<1> DEFINE place == [k \in 0 .. n |-> HeaderWords + off[k]]
<1>4. \A k \in 0 .. n : place[k] = HeaderWords + off[k] /\ place[k] \in Nat
                        /\ place[k] >= HeaderWords
  <2>1. \A k \in 0 .. n : off[k] \in Nat
    OBVIOUS
  <2> QED
    BY <1>3, <2>1
<1> HIDE DEF place
<1>5. ASSUME NEW k \in 1 .. n PROVE Skips(m, place[k - 1], place[k])
  <2> DEFINE l == k - 1
  <2>1. l \in 0 .. n /\ k \in 0 .. n /\ off[l] \in Nat /\ off[k] \in Nat /\ l = k - 1
    BY <1>1
  <2> HIDE DEF l
  <2>2. off[k] = off[l] + Len(seqs[k]) /\ Follows(flat, off[l], seqs[k])
    BY <1>2, <2>1
  <2>3. seqs[k] \in Seq(Nat) /\ Askable(seqs[k])
    BY <1>1
  <2>4. Follows(m, HeaderWords + off[l], seqs[k])
    BY <1>1, <1>3, <2>1, <2>2, <2>3, FollowsWithin
  <2>5. Follows(m, place[l], seqs[k])
    BY <1>4, <2>1, <2>4
  <2>6. place[l] \in Nat /\ place[l] >= HeaderWords
    BY <1>4, <2>1
  <2>7. Skips(m, place[l], place[l] + Len(seqs[k]))
    BY <2>3, <2>5, <2>6, AskableSkips
  <2>8. place[l] + Len(seqs[k]) = place[k]
    <3> DEFINE size == Len(seqs[k])
    <3>1. size \in Nat /\ off[k] = off[l] + size
      BY <2>2, <2>3
    <3>2. place[k] = HeaderWords + off[k] /\ place[l] = HeaderWords + off[l]
      BY <1>4, <2>1
    <3> HIDE DEF size
    <3>3. place[l] + size = place[k]
      BY <1>3, <2>1, <3>1, <3>2
    <3> QED
      BY <3>3 DEF size
  <2> QED
    BY <2>1, <2>7, <2>8
<1>6. place[0] = HeaderWords /\ place[n] = Len(m)
  <2>1. 0 \in 0 .. n /\ n \in 0 .. n
    BY <1>1
  <2>2. place[0] = HeaderWords + off[0] /\ place[n] = HeaderWords + off[n]
    BY <1>4, <2>1
  <2>3. off[0] = 0 /\ off[n] = Len(flat) /\ Len(m) = HeaderWords + Len(flat)
    BY <1>1, <1>2
  <2>4. HeaderWords + 0 = HeaderWords
    BY <1>3
  <2>5. place[0] = HeaderWords
    BY <2>2, <2>3, <2>4
  <2>6. HeaderWords + off[n] = Len(m)
    BY <2>3
  <2> QED
    BY <2>2, <2>5, <2>6
<1>7. Chain(m, n, place)
  BY <1>5, <1>6 DEF Chain
<1> QED
  BY <1>1, <1>6, <1>7 DEF Walkable

\* The requests of the example programs and of the unit tests can be answered
\* by what puts a result behind their AVPs.
LEMMA ApplicationRequestsWalk ==
  /\ \A c \in Config : LET m == BuildRequest(999, 0, c.host) IN Short(m) => Walkable(m)
  /\ \A seqs : /\ Len(seqs) \in Nat
               /\ Len(seqs) = 0 => seqs = <<>>
               /\ \A i \in 1 .. Len(seqs) : seqs[i] \in Seq(Nat) /\ Askable(seqs[i])
               => LET m == BuildAppRequest(FlattenSeq(seqs)) IN Short(m) => Walkable(m)
<1>1. /\ 999 \in Nat /\ 272 \in Nat /\ 0 \in Nat /\ 4 \in Nat /\ TRUE \in BOOLEAN
      /\ HeaderWords \in Nat
  BY CodeTypes
<1>2. ASSUME NEW c \in Config, Short(BuildRequest(999, 0, c.host))
      PROVE  Walkable(BuildRequest(999, 0, c.host))
  <2> DEFINE v == Avp(OriginHost, c.host)
             command == 999
             app == 0
             m == FixLength(Header(TRUE, command, app, 0, 0) \o v)
  <2>1. c.host \in Data
    BY DEF Config
  <2>2. v \in Seq(Nat) /\ Askable(v)
    <3>1. v \in Seq(Nat)
      BY <2>1, CodeTypes, AvpTypes
    <3>2. OriginHost \in Nat \ {ResultCode}
      BY CodeTypes
    <3> QED
      BY <2>1, <3>1, <3>2 DEF Askable
  <2> HIDE DEF v
  <2>3. BuildRequest(999, 0, c.host) = m
    BY DEF BuildRequest, v
  <2>4. command \in Nat /\ app \in Nat
    OBVIOUS
  <2>5. m \in Message
    <3> HIDE DEF m
    <3>1. Says(m, 999, 0, 0, 0)
      BY <2>3, ApplicationRequests
    <3> QED
      BY <3>1 DEF Says
  <2> HIDE DEF command, app
  <2>6. Len(m) = HeaderWords + Len(v) /\ Follows(m, HeaderWords, v)
    BY <1>1, <2>2, <2>4, AvpsStandBehindHeader
  <2> HIDE DEF m
  <2>7. Skips(m, HeaderWords, Len(m))
    <3>1. HeaderWords >= HeaderWords /\ Short(m)
      BY <1>1, <1>2, <2>3
    <3> QED
      BY <1>1, <2>2, <2>5, <2>6, <3>1, AskableSkips
  <2> DEFINE off == [k \in 0 .. 1 |-> IF k = 0 THEN HeaderWords ELSE Len(m)]
  <2>8. off[0] = HeaderWords /\ off[1] = Len(m) /\ 1 .. 1 = {1} /\ 1 - 1 = 0 /\ 1 \in Nat
    OBVIOUS
  <2> HIDE DEF off
  <2>9. Chain(m, 1, off)
    BY <2>7, <2>8 DEF Chain
  <2>10. Walkable(m)
    BY <2>8, <2>9 DEF Walkable
  <2> QED
    BY <2>3, <2>10
<1>3. ASSUME NEW seqs, Len(seqs) \in Nat, Len(seqs) = 0 => seqs = <<>>,
             \A i \in 1 .. Len(seqs) : seqs[i] \in Seq(Nat) /\ Askable(seqs[i]),
             Short(BuildAppRequest(FlattenSeq(seqs)))
      PROVE  Walkable(BuildAppRequest(FlattenSeq(seqs)))
  <2> DEFINE avps == FlattenSeq(seqs)
             command == 272
             app == 4
             m == FixLength(Header(TRUE, command, app, 0, 0) \o avps)
  <2>1. avps \in Seq(Nat)
    BY <1>3, FlattenType
  <2>2. BuildAppRequest(avps) = m
    BY DEF BuildAppRequest
  <2>3. m \in Message
    <3> HIDE DEF m
    <3>1. Says(m, 272, 4, 0, 0)
      BY <2>1, <2>2, ApplicationRequests
    <3> QED
      BY <3>1 DEF Says
  <2>4. command \in Nat /\ app \in Nat
    OBVIOUS
  <2> HIDE DEF command, app
  <2>5. Len(m) = HeaderWords + Len(avps) /\ Follows(m, HeaderWords, avps)
    <3> HIDE DEF avps
    <3> QED
      BY <1>1, <2>1, <2>4, AvpsStandBehindHeader
  <2>6. Short(m)
    BY <1>3, <2>2
  <2> HIDE DEF m
  <2>7. Walkable(m)
    BY <1>3, <2>3, <2>5, <2>6, AvpsWalkable
  <2> QED
    BY <2>2, <2>7
<1> QED
  BY <1>2, <1>3

\* What echo_server answers says its result behind the AVPs of the request, and
\* the unit tests' answer is a header alone.
LEMMA ApplicationAnswersRead ==
  ASSUME NEW m \in Message
  PROVE  /\ Walkable(m) /\ Short(BuildAnswer(m)) => Readable(BuildAnswer(m))
         /\ Readable(AnswerFor(m))
<1>1. /\ BuildAnswer(m) \in Message /\ AnswerFor(m) \in Message /\ Len(AnswerFor(m)) = HeaderWords
      /\ Len(m) \in Nat /\ Len(m) >= 5
  BY ApplicationAnswers, HeaderTypes DEF Says
<1>2. ASSUME Walkable(m), Short(BuildAnswer(m)) PROVE Readable(BuildAnswer(m))
  <2> DEFINE second == Pack(FALSE, Low(m[2]))
             head == [m EXCEPT ![2] = second]
             a == FixLength(head \o Result)
  <2>1. second \in Nat /\ 2 \in 2 .. 5
    <3> DEFINE low == Low(m[2])
    <3>1. m[2] \in Nat
      BY HeaderTypes
    <3>2. low \in Nat
      BY <3>1, WordTypes
    <3> HIDE DEF low
    <3>3. Pack(FALSE, low) \in Nat
      BY <3>2, WordTypes
    <3>4. second \in Nat
      BY <3>3 DEF low
    <3>5. 2 \in 2 .. 5
      OBVIOUS
    <3> HIDE DEF second
    <3> QED
      BY <3>4, <3>5
  <2>2. a = BuildAnswer(m)
    BY DEF BuildAnswer, Result
  <2> HIDE DEF second
  <2>3. /\ head \in Message /\ Len(head) = Len(m)
        /\ \A i \in 1 .. Len(m) : head[i] = IF i = 2 THEN second ELSE m[i]
    BY <2>1, ReplaceWord
  <2> HIDE DEF head
  <2>4. /\ Len(a) = Len(head) + Len(Result) /\ Follows(a, Len(head), Result)
        /\ \A i \in 3 .. Len(head) : a[i] = head[i]
    BY <2>3, CodeTypes, AvpsStand
  <2>5. a \in Message /\ Short(a)
    BY <1>1, <1>2, <2>2
  <2> HIDE DEF a
  <2>6. Follows(a, Len(m), Result) /\ Len(m) >= HeaderWords /\ Len(Result) \in Nat
    BY <1>1, <2>3, <2>4, CodeTypes DEF HeaderWords
  <2>7. ResultBehind(a, Len(m))
    BY <1>1, <2>5, <2>6, ResultReads
  <2>8. Extends(a, m)
    <3>1. ASSUME NEW i \in HeaderWords + 1 .. Len(m) PROVE a[i] = m[i]
      <4>1. i \in 3 .. Len(head) /\ i \in 1 .. Len(m) /\ i # 2
        BY <2>3 DEF HeaderWords
      <4> QED
        BY <2>3, <2>4, <4>1
    <3>2. Len(m) <= Len(a)
      BY <1>1, <2>3, <2>4, <2>6
    <3> QED
      BY <3>1, <3>2 DEF Extends
  <2>9. PICK n \in Nat : \E off : Chain(m, n, off) /\ off[n] = Len(m)
    BY <1>2 DEF Walkable
  <2>10. PICK off : Chain(m, n, off) /\ off[n] = Len(m)
    BY <2>9
  <2>11. Chain(a, n, off)
    BY <2>5, <2>8, <2>10, ChainKept
  <2>12. Readable(a)
    BY <2>7, <2>10, <2>11 DEF Readable
  <2> QED
    BY <2>2, <2>12
<1>3. Readable(AnswerFor(m))
  BY <1>1 DEF Readable
<1> QED
  BY <1>2, <1>3
=============================================================================
