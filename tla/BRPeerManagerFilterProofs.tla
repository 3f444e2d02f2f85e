---------------------- MODULE BRPeerManagerFilterProofs ----------------------
(***************************************************************************)
(* Theorems about the bloom filter update protocol, for every chain of     *)
(* payments that keeps to the gap limit and every gap limit, batch size    *)
(* and number of peers: types, and with a fixed peer no payment is missed. *)
(*                                                                         *)
(* The argument for the second one follows the messages between the        *)
(* manager and its only peer, which arrive in order:                       *)
(*   - while manager->bloomFilter is not NULL it covers the next gap limit *)
(*     addresses, every block in flight was or will be matched with it,    *)
(*     and so was every orphan (FilterAgrees);                             *)
(*   - behind the first ping of an update nothing is requested, so nothing *)
(*     that was matched with the old filter is in flight when its pong     *)
(*     comes and the new filter is set (InOrder, OutOrder, Crossing);      *)
(*   - until the pong of the second ping no block comes at all             *)
(*     (SecondWaits), so the new filter is not used up before blocks are   *)
(*     requested again.                                                    *)
(* A block that is accepted was matched with a filter that covers what the *)
(* wallet has received, including the block's own payments: by the gap     *)
(* limit, nothing of the block is left out (CompleteBlock).                *)
(***************************************************************************)
EXTENDS BRPeerManagerFilter, InductionLemmas

(***************************************************************************)
(* Payments.                                                               *)
(***************************************************************************)
LEMMA PaysType ==
    /\ MaxHeight \in Nat
    /\ \A h \in 1..MaxHeight : Pays[h] \subseteq Nat /\ IsFiniteSet(Pays[h]) /\ \A a \in Pays[h] : a > 0
<1>1. MaxHeight \in Nat /\ \A h \in 1..MaxHeight : Pays[h] \in SUBSET (Nat \ {0})
  BY FilterAssumption DEF MaxHeight
<1> QED BY <1>1, FilterAssumption

\* More blocks pay more addresses.
LEMMA PaidGrows ==
    ASSUME NEW m \in Nat, NEW n \in Nat, m <= n
    PROVE  PaidBefore(m) \subseteq PaidBefore(n)
  BY DEF PaidBefore

\* One more block pays its addresses too.
LEMMA PaidNext ==
    ASSUME NEW n \in Nat
    PROVE  PaidBefore(n + 1) = PaidBefore(n) \cup Pays[n + 1]
<1>1. 1..(n + 1) = 1..n \cup {n + 1}
  OBVIOUS
<1> QED BY <1>1 DEF PaidBefore

\* The addresses the chain pays have a greatest one.
LEMMA PaidBounded == \E n \in Nat : \A a \in PaidBefore(MaxHeight) : a \in Nat /\ a <= n
<1> DEFINE Bounded(h) == \E n \in Nat : \A a \in PaidBefore(h) : a \in Nat /\ a <= n
           T == {h \in Nat : h <= MaxHeight => Bounded(h)}
<1>1. 0 \in T
  <2>1. PaidBefore(0) = {}
    BY DEF PaidBefore
  <2> QED BY <2>1
<1>2. ASSUME NEW h \in Nat, h \in T
      PROVE  h + 1 \in T
  <2>1. SUFFICES ASSUME h + 1 <= MaxHeight PROVE Bounded(h + 1)
    <3> HIDE DEF Bounded
    <3> QED OBVIOUS
  <2>2. Bounded(h)
    <3> HIDE DEF Bounded
    <3> QED BY <1>2, <2>1, PaysType
  <2>3. PICK n \in Nat : \A a \in PaidBefore(h) : a \in Nat /\ a <= n
    BY <2>2
  <2>4. Pays[h + 1] \subseteq Nat /\ IsFiniteSet(Pays[h + 1])
    BY <2>1, PaysType
  <2>5. PICK k \in Nat : \A a \in Pays[h + 1] : a <= k
    BY <2>4, FiniteIsBounded
  <2>6. ASSUME NEW a \in PaidBefore(h + 1)
        PROVE  a \in Nat /\ a <= n + k
    <3>1. a \in PaidBefore(h) \/ a \in Pays[h + 1]
      BY PaidNext
    <3>2. a \in Nat /\ (a <= n \/ a <= k)
      BY <2>3, <2>4, <2>5, <3>1
    <3> QED BY <3>2
  <2> WITNESS n + k \in Nat
  <2> QED BY <2>6
<1>3. MaxHeight \in T
  <2> HIDE DEF T
  <2> QED BY <1>1, <1>2, PaysType, SetInduction
<1>4. Bounded(MaxHeight)
  <2> HIDE DEF Bounded
  <2> QED BY <1>3, PaysType
<1> QED BY <1>4

\* Used is the highest of the addresses.
LEMMA UsedIsHighest ==
    ASSUME NEW S, S \subseteq PaidBefore(MaxHeight)
    PROVE  Used(S) \in Nat /\ \A b \in S : b \in Nat /\ b <= Used(S)
<1>1. PICK n \in Nat : \A a \in S : a \in Nat /\ a <= n
  BY PaidBounded
<1>2. CASE S = {}
  BY <1>2 DEF Used
<1>3. CASE S # {}
  <2>1. PICK x \in S : \A b \in S : b <= x
    BY <1>1, <1>3, GreatestNumber
  <2>2. Used(S) \in S /\ \A b \in S : b <= Used(S)
    BY <1>3, <2>1 DEF Used
  <2> QED BY <1>1, <2>2
<1> QED BY <1>2, <1>3

\* A block that was matched with a filter that covers what the wallet has: its lowest payment that is missing
\* would be within the gap limit of one the wallet has, hence matched.
LEMMA CompleteBlock ==
    ASSUME NEW h \in 1..MaxHeight, NEW S, S \subseteq PaidBefore(MaxHeight), PaidBefore(h - 1) \subseteq S,
           NEW f \in Nat, Covers(f, S), Matched(h, f) \subseteq S
    PROVE  PaidBefore(h) \subseteq S
<1>1. h - 1 \in Nat /\ (h - 1) + 1 = h /\ Gap \in Nat /\ MaxHeight \in Nat
  BY PaysType, FilterAssumption
<1>2. PaidBefore(h) = PaidBefore(h - 1) \cup Pays[h]
  BY <1>1, PaidNext
<1>3. Pays[h] \subseteq Nat
  BY PaysType
<1> DEFINE T == {a \in Pays[h] : a \notin S}
<1>4. SUFFICES ASSUME T # {} PROVE FALSE
  BY <1>2
<1>5. PICK a \in T : \A b \in T : a <= b
  <2>1. T \subseteq Nat
    BY <1>3
  <2> HIDE DEF T
  <2> QED BY <1>4, <2>1, LeastNumber
<1>6. a \in Nat /\ a \in Pays[h] /\ a \notin S
  BY <1>3, <1>5
<1>7. ~(a <= f)
  BY <1>6 DEF Matched
<1>8. Used(S) \in Nat /\ Used(S) + Gap <= f /\ \A b \in S : b \in Nat /\ b <= Used(S)
  BY UsedIsHighest DEF Covers
<1>9. ~(a <= Gap)
  BY <1>1, <1>6, <1>7, <1>8
<1>10. PICK b \in PaidBefore(h) : b < a /\ a <= b + Gap
  BY <1>6, <1>9, FilterAssumption
<1>11. b \in S
  <2> SUFFICES ASSUME b \notin S PROVE FALSE
    OBVIOUS
  <2>1. b \in T
    BY <1>2
  <2>2. a <= b /\ b \in Nat
    BY <1>3, <1>5, <2>1
  <2> QED BY <1>6, <1>10, <2>2
<1> QED BY <1>1, <1>6, <1>7, <1>8, <1>10, <1>11

(***************************************************************************)
(* Sequences: a set in some order, and sequences one after the other.      *)
(***************************************************************************)
LEMMA SetToSeqType ==
    ASSUME NEW S, IsFiniteSet(S)
    PROVE  /\ Cardinality(S) \in Nat /\ SetToSeq(S) \in [1..Cardinality(S) -> S]
           /\ \A x \in S : \E i \in 1..Cardinality(S) : SetToSeq(S)[i] = x
<1> DEFINE n == Cardinality(S)
           f == SetToSeq(S)
<1>1. n \in Nat /\ ExistsBijection(1..n, S)
  BY FS_CardinalityType
<1>2. PICK g \in Bijection(1..n, S) : TRUE
  BY <1>1 DEF ExistsBijection
<1>3. g \in [1..n -> S] /\ IsInjective(g)
  BY <1>2 DEF Bijection, Injection, IsInjective
<1>4. f \in [1..n -> S] /\ IsInjective(f)
  <2> HIDE DEF n
  <2> QED BY <1>3 DEF SetToSeq, n
<1> HIDE DEF f, n
<1> DEFINE T == {f[i] : i \in 1..n}
<1>5. T \subseteq S
  BY <1>4
<1>6. f \in Bijection(1..n, T)
  <2>1. f \in [1..n -> T]
    BY <1>4
  <2>2. f \in Surjection(1..n, T)
    BY <2>1 DEF Surjection
  <2>3. f \in Injection(1..n, T)
    BY <1>4, <2>1 DEF Injection, IsInjective
  <2> QED BY <2>2, <2>3 DEF Bijection
<1>7. Cardinality(T) = n
  <2> HIDE DEF T
  <2>1. ExistsBijection(1..n, T)
    BY <1>6 DEF ExistsBijection
  <2> QED BY <1>1, <2>1, FS_CountingElements
<1>8. T = S
  <2> HIDE DEF T
  <2> QED BY <1>5, <1>7, FS_Subset DEF n
<1> QED BY <1>1, <1>4, <1>8 DEF f, n

\* FlattenSeq stays in a set that is closed under concatenation.
LEMMA FlattenType ==
    ASSUME NEW W, <<>> \in W, \A q \in W, r \in W : q \o r \in W, NEW s \in Seq(W)
    PROVE  FlattenSeq(s) \in W
<1> DEFINE n == Len(s)
           Def(g, i) == IF i = 1 THEN s[i] ELSE g[i - 1] \o s[i]
           flatten == CHOOSE g : g = [i \in 1..n |-> Def(g, i)]
           Exists(m) == \E g \in [1..m -> W] : \A i \in 1..m : g[i] = Def(g, i)
           S == {m \in Nat : m < n => Exists(m + 1)}
           U == {m \in Nat : m < n => flatten[m + 1] \in W}
<1>1. n \in Nat /\ \A i \in 1..n : s[i] \in W
  OBVIOUS
<1>2. CASE n = 0
  <2>1. s = <<>>
    BY <1>2
  <2> QED BY <1>2, <2>1 DEF FlattenSeq
<1>3. CASE n # 0
  <2> HIDE DEF n
  <2>1. 0 \in S
    <3> SUFFICES ASSUME 0 < n PROVE Exists(1)
      <4> HIDE DEF Exists
      <4> QED OBVIOUS
    <3>1. [i \in 1..1 |-> s[1]] \in [1..1 -> W]
      BY <1>1
    <3> WITNESS [i \in 1..1 |-> s[1]] \in [1..1 -> W]
    <3> QED OBVIOUS
  <2>2. ASSUME NEW m \in Nat, m \in S
        PROVE  m + 1 \in S
    <3>1. SUFFICES ASSUME m + 1 < n PROVE Exists(m + 2)
      <4>1. (m + 1) + 1 = m + 2
        OBVIOUS
      <4> HIDE DEF Exists
      <4> QED BY <4>1
    <3>2. Exists(m + 1)
      <4> HIDE DEF Exists
      <4> QED BY <1>1, <2>2, <3>1
    <3>3. PICK g \in [1..m + 1 -> W] : \A i \in 1..m + 1 : g[i] = Def(g, i)
      BY <3>2
    <3> DEFINE last == g[m + 1] \o s[m + 2]
               h == [i \in 1..m + 2 |-> IF i = m + 2 THEN last ELSE g[i]]
    <3>4. last \in W
      <4>1. g[m + 1] \in W /\ s[m + 2] \in W
        BY <1>1, <3>1
      <4> QED BY <4>1
    <3>5. h \in [1..m + 2 -> W]
      <4> HIDE DEF last
      <4> QED BY <3>4
    <3>6. ASSUME NEW i \in 1..m + 2
          PROVE  h[i] = Def(h, i)
      <4>1. CASE i = m + 2
        <5>1. i - 1 = m + 1 /\ i - 1 \in 1..m + 2 /\ i - 1 # m + 2 /\ i # 1
          BY <4>1
        <5>2. h[i - 1] = g[m + 1] /\ h[i] = last
          <6> HIDE DEF last
          <6> QED BY <4>1, <5>1
        <5> QED BY <4>1, <5>1, <5>2
      <4>2. CASE i \in 1..m + 1
        <5>1. h[i] = g[i] /\ (i # 1 => h[i - 1] = g[i - 1])
          <6>1. i # m + 2 /\ (i # 1 => i - 1 \in 1..m + 2 /\ i - 1 # m + 2)
            BY <4>2
          <6> HIDE DEF last
          <6> QED BY <6>1
        <5>2. g[i] = Def(g, i)
          BY <3>3, <4>2
        <5> QED BY <4>2, <5>1, <5>2
      <4> QED BY <4>1, <4>2
    <3> HIDE DEF h
    <3> QED BY <3>5, <3>6
  <2>3. \A m \in Nat : m \in S
    <3> HIDE DEF S
    <3> QED BY <2>1, <2>2, SetInduction
  <2>4. Exists(n)
    <3>1. n - 1 \in S /\ n - 1 < n /\ (n - 1) + 1 = n
      <4> HIDE DEF S
      <4> QED BY <1>1, <1>3, <2>3
    <3> HIDE DEF Exists
    <3> QED BY <3>1
  <2>5. PICK g \in [1..n -> W] : \A i \in 1..n : g[i] = Def(g, i)
    BY <2>4
  <2>6. g = [i \in 1..n |-> Def(g, i)]
    BY <2>5
  <2>7. flatten = [i \in 1..n |-> Def(flatten, i)]
    <3> HIDE DEF Def
    <3> QED BY <2>6
  <2> HIDE DEF flatten
  <2>8. \A i \in 1..n : flatten[i] = Def(flatten, i)
    BY <2>7
  <2>9. 0 \in U
    <3> SUFFICES ASSUME 0 < n PROVE flatten[0 + 1] \in W
      OBVIOUS
    <3>1. flatten[1] = s[1]
      BY <1>1, <2>8
    <3> QED BY <1>1, <3>1
  <2>10. ASSUME NEW m \in Nat, m \in U
         PROVE  m + 1 \in U
    <3>1. SUFFICES ASSUME m + 1 < n PROVE flatten[(m + 1) + 1] \in W
      OBVIOUS
    <3>2. flatten[m + 1] \in W /\ s[m + 2] \in W
      BY <1>1, <2>10, <3>1
    <3>3. flatten[m + 2] = flatten[m + 1] \o s[m + 2]
      <4>1. m + 2 \in 1..n /\ m + 2 # 1 /\ (m + 2) - 1 = m + 1
        BY <1>1, <3>1
      <4> QED BY <2>8, <4>1
    <3>4. (m + 1) + 1 = m + 2
      OBVIOUS
    <3> QED BY <3>2, <3>3, <3>4
  <2>11. n - 1 \in U
    <3> HIDE DEF U
    <3> QED BY <1>1, <1>3, <2>9, <2>10, SetInduction
  <2>12. flatten[n] \in W
    <3>1. n - 1 < n /\ (n - 1) + 1 = n
      BY <1>1
    <3> QED BY <2>11, <3>1
  <2> QED BY <1>3, <2>12 DEF FlattenSeq, flatten, n
<1> QED BY <1>2, <1>3

(***************************************************************************)
(* Types.                                                                  *)
(***************************************************************************)
Contexts(n) ==
    [status : {"none", "connected", "closing"}, lastblock : 0..n, sentFilter : BOOLEAN, needsUpdate : BOOLEAN,
     knownBlocks : Seq(1..n), lastBlockHash : 0..n, currentBlock : 0..n, currentTx : SUBSET PaidBefore(n),
     out : Seq(Requests(n)), in : Seq(Replies(n)), remote : Nat]

\* the conjuncts of TypeOK that are not about ctx
Scalars ==
    /\ maxConnectCount \in {1, MaxConnect}
    /\ tip \in 0..MaxHeight /\ lastBlock \in 0..tip /\ estimated \in 0..tip
    /\ received \subseteq PaidBefore(tip) /\ filter \in Nat
    /\ downloadPeer \in Peers \cup {NoPeer}
    /\ orphans \subseteq 1..tip /\ lastOrphan \in 0..tip
    /\ degraded \in 0..MaxDegrade /\ faults \in 0..MaxFaults

\* The type invariant, with the peers apart from the rest.
LEMMA Types == TypeOK <=> Scalars /\ ctx \in [Peers -> Contexts(tip)]
  BY DEF TypeOK, Scalars, Contexts

\* The same in the next state.
LEMMA TypesNext == TypeOK' <=> Scalars' /\ ctx' \in [Peers -> Contexts(tip')]
  BY DEF TypeOK, Scalars, Contexts

\* A new filter covers the addresses that are needed after what has been received.
LEMMA CoverageType ==
    ASSUME Scalars
    PROVE  Used(received) \in Nat /\ Coverage \in Nat \ {0} /\ Covers(Coverage, received)
<1>1. PaidBefore(tip) \subseteq PaidBefore(MaxHeight)
  BY PaidGrows, PaysType DEF Scalars
<1>2. Used(received) \in Nat
  BY <1>1, UsedIsHighest DEF Scalars
<1> QED BY <1>2, FilterAssumption DEF Coverage, Covers

\* A peer without a connection has its type.
LEMMA NoContextType ==
    ASSUME NEW n \in Nat
    PROVE  NoContext \in Contexts(n) /\ NoContext.status = "none"
  BY DEF NoContext, Contexts

\* Messages of a shorter chain are messages of a longer one.
LEMMA ContextGrows ==
    ASSUME NEW n \in Nat, NEW c \in Contexts(n)
    PROVE  c \in Contexts(n + 1)
<1>1. 0..n \subseteq 0..(n + 1) /\ 1..n \subseteq 1..(n + 1)
  OBVIOUS
<1>2. PaidBefore(n) \subseteq PaidBefore(n + 1)
  BY PaidGrows
<1>3. Seq(1..n) \subseteq Seq(1..(n + 1))
  BY <1>1
<1>4. Requests(n) \subseteq Requests(n + 1)
  <2>1. [msg : {"getblocks"}, from : 0..n] \subseteq [msg : {"getblocks"}, from : 0..(n + 1)]
    BY <1>1
  <2>2. [msg : {"getdata"}, blocks : Seq(1..n)] \subseteq [msg : {"getdata"}, blocks : Seq(1..(n + 1))]
    BY <1>3
  <2> QED BY <2>1, <2>2 DEF Requests
<1>5. Replies(n) \subseteq Replies(n + 1)
  <2>1. [msg : {"inv"}, blocks : Seq(1..n)] \subseteq [msg : {"inv"}, blocks : Seq(1..(n + 1))]
    BY <1>3
  <2>2. [msg : {"merkleblock"}, block : 1..n, txs : SUBSET PaidBefore(n)]
            \subseteq [msg : {"merkleblock"}, block : 1..(n + 1), txs : SUBSET PaidBefore(n + 1)]
    BY <1>1, <1>2
  <2>3. [msg : {"relayed"}, block : 1..n] \subseteq [msg : {"relayed"}, block : 1..(n + 1)]
    BY <1>1
  <2>4. [msg : {"tx"}, tx : PaidBefore(n)] \subseteq [msg : {"tx"}, tx : PaidBefore(n + 1)]
    BY <1>2
  <2> QED BY <2>1, <2>2, <2>3, <2>4 DEF Replies
<1>6. c.out \in Seq(Requests(n + 1)) /\ c.in \in Seq(Replies(n + 1))
  <2>1. c.out \in Seq(Requests(n)) /\ c.in \in Seq(Replies(n))
    BY DEF Contexts
  <2> QED BY <1>4, <1>5, <2>1
<1>7. c.knownBlocks \in Seq(1..(n + 1)) /\ c.lastblock \in 0..(n + 1) /\ c.lastBlockHash \in 0..(n + 1)
      /\ c.currentBlock \in 0..(n + 1) /\ c.currentTx \in SUBSET PaidBefore(n + 1)
  BY <1>1, <1>2, <1>3 DEF Contexts
<1> QED BY <1>6, <1>7 DEF Contexts

\* What a call on a peer appends to out, when it appends something.
LEMMA OutType ==
    ASSUME NEW n \in Nat, NEW c \in Contexts(n), NEW q \in Seq(Requests(n))
    PROVE  [c EXCEPT !.out = q] \in Contexts(n)
  BY DEF Contexts

\* Messages a peer receives have their type.
LEMMA InType ==
    ASSUME NEW n \in Nat, NEW c \in Contexts(n), NEW q \in Seq(Replies(n))
    PROVE  [c EXCEPT !.in = q] \in Contexts(n)
  BY DEF Contexts

\* Sending a message keeps the type of a peer,
LEMMA SendType ==
    ASSUME NEW n \in Nat, NEW c \in Contexts(n), NEW m \in Requests(n)
    PROVE  Send(c, m) \in Contexts(n)
<1>1. c.out \in Seq(Requests(n))
  BY DEF Contexts
<1>2. Append(c.out, m) \in Seq(Requests(n))
  BY <1>1
<1> QED BY <1>2, OutType DEF Send

\* and so do the requests the peer manager makes,
LEMMA RequestTypes ==
    ASSUME NEW n \in Nat
    PROVE  /\ \A h \in 0..n : [msg |-> "getblocks", from |-> h] \in Requests(n)
           /\ \A b \in Seq(1..n) : [msg |-> "getdata", blocks |-> b] \in Requests(n)
           /\ \A f \in Nat : [msg |-> "filterload", filter |-> f] \in Requests(n)
           /\ \A d \in Callbacks, p \in Peers : [msg |-> "ping", done |-> d, peer |-> p] \in Requests(n)
  BY DEF Requests

\* and each kind of message the manager sends.
LEMMA CallTypes ==
    ASSUME NEW n \in Nat, NEW c \in Contexts(n)
    PROVE  /\ \A d \in Callbacks, p \in Peers : SendPing(c, d, p) \in Contexts(n)
           /\ \A b \in Seq(1..n) : SendGetdata(c, b) \in Contexts(n)
           /\ \A h \in 0..n : SendGetblocks(c, h) \in Contexts(n)
           /\ \A f \in Nat : SendFilterload(c, f) \in Contexts(n)
<1>1. ASSUME NEW d \in Callbacks, NEW p \in Peers
      PROVE  SendPing(c, d, p) \in Contexts(n)
  BY SendType, RequestTypes DEF SendPing
<1>2. ASSUME NEW b \in Seq(1..n)
      PROVE  SendGetdata(c, b) \in Contexts(n)
  BY SendType, RequestTypes DEF SendGetdata
<1>3. ASSUME NEW h \in 0..n
      PROVE  SendGetblocks(c, h) \in Contexts(n)
  BY SendType, RequestTypes DEF SendGetblocks
<1>4. ASSUME NEW f \in Nat
      PROVE  SendFilterload(c, f) \in Contexts(n)
  <2> DEFINE d == Send(c, [msg |-> "filterload", filter |-> f])
  <2>1. d \in Contexts(n)
    BY SendType, RequestTypes
  <2> HIDE DEF d
  <2>2. [d EXCEPT !.sentFilter = TRUE] \in Contexts(n)
    BY <2>1 DEF Contexts
  <2> QED BY <2>2 DEF SendFilterload, d
<1> QED BY <1>1, <1>2, <1>3, <1>4

\* So does a block handed to the manager,
LEMMA RelayType ==
    ASSUME NEW n \in Nat, NEW c \in Contexts(n), NEW h \in 1..n
    PROVE  Relay(c, h) \in Contexts(n)
<1>1. [msg |-> "relayed", block |-> h] \in Replies(n) /\ c.in \in Seq(Replies(n))
  BY DEF Replies, Contexts
<1>2. <<[msg |-> "relayed", block |-> h]>> \o c.in \in Seq(Replies(n))
  BY <1>1
<1> QED BY <1>2, InType DEF Relay

\* and asking for known blocks again.
LEMMA RerequestType ==
    ASSUME NEW n \in Nat, NEW c \in Contexts(n), NEW from
    PROVE  RerequestBlocks(c, from) \in Contexts(n)
<1> DEFINE at == {i \in DOMAIN c.knownBlocks : c.knownBlocks[i] = from}
           k == CHOOSE i \in at : \A j \in at : j <= i
           rest == SubSeq(c.knownBlocks, k, Len(c.knownBlocks))
<1>1. c.knownBlocks \in Seq(1..n)
  BY DEF Contexts
<1>2. CASE at = {}
  BY <1>2 DEF RerequestBlocks
<1>3. CASE at # {}
  <2>1. at \subseteq Nat /\ \A i \in at : i <= Len(c.knownBlocks)
    BY <1>1
  <2>2. Len(c.knownBlocks) \in Nat
    BY <1>1
  <2>3. k \in at
    <3>1. \E i \in at : \A j \in at : j <= i
      <4> HIDE DEF at
      <4> QED BY <1>3, <2>1, <2>2, GreatestNumber
    <3> HIDE DEF at
    <3> QED BY <3>1
  <2>4. k \in 1..Len(c.knownBlocks)
    <3> HIDE DEF k
    <3> QED BY <1>1, <2>3
  <2> HIDE DEF k
  <2>5. rest \in Seq(1..n)
    BY <1>1, <2>4
  <2> HIDE DEF rest
  <2>6. [c EXCEPT !.knownBlocks = rest] \in Contexts(n)
    BY <2>5 DEF Contexts
  <2>7. RerequestBlocks(c, from) = SendGetdata([c EXCEPT !.knownBlocks = rest], rest)
    BY <1>3 DEF RerequestBlocks, rest, k
  <2> QED BY <2>5, <2>6, <2>7, CallTypes
<1> QED BY <1>2, <1>3

\* a filter and a ping behind it
LEMMA LoadType ==
    ASSUME NEW n \in Nat, NEW c \in Contexts(n), Scalars, NEW d \in Callbacks, NEW p \in Peers
    PROVE  SendPing(SendFilterload(c, Coverage), d, p) \in Contexts(n)
  BY CallTypes, CoverageType

\* _BRPeerManagerLoadBloomFilter keeps the types,
LEMMA LoadOnType ==
    ASSUME NEW n \in Nat, NEW cs \in [Peers -> Contexts(n)], Scalars, NEW S, NEW d \in Callbacks
    PROVE  LoadOn(cs, S, d) \in [Peers -> Contexts(n)]
<1>1. \A p \in Peers : SendPing(SendFilterload(cs[p], Coverage), d, p) \in Contexts(n)
  BY LoadType
<1> QED BY <1>1 DEF LoadOn

\* and so does _BRPeerManagerUpdateFilter.
LEMMA UpdateFilterType ==
    ASSUME NEW n \in Nat, NEW cs \in [Peers -> Contexts(n)], Scalars
    PROVE  UpdateFilter(cs) \in [Peers -> Contexts(n)]
<1>1. CASE downloadPeer # NoPeer /\ ~cs[downloadPeer].needsUpdate
  <2> DEFINE c == [cs[downloadPeer] EXCEPT !.needsUpdate = TRUE]
  <2>1. downloadPeer \in Peers
    BY <1>1 DEF Scalars
  <2>2. c \in Contexts(n)
    BY <2>1 DEF Contexts
  <2> HIDE DEF c
  <2>3. SendPing(c, "updateFilterPingDone", downloadPeer) \in Contexts(n)
    BY <2>1, <2>2, CallTypes DEF Callbacks
  <2> QED BY <1>1, <2>1, <2>3 DEF UpdateFilter, c
<1>2. CASE ~(downloadPeer # NoPeer /\ ~cs[downloadPeer].needsUpdate)
  BY <1>2 DEF UpdateFilter
<1> QED BY <1>1, <1>2

\* Taking the first message of a peer keeps its type.
LEMMA TakenType ==
    ASSUME NEW n \in Nat, ctx \in [Peers -> Contexts(n)], NEW p \in Peers, ctx[p].in # <<>>
    PROVE  /\ Head(ctx[p].in) \in Replies(n) /\ Taken(p) \in [Peers -> Contexts(n)]
           /\ Taken(p) = [ctx EXCEPT ![p] = [ctx[p] EXCEPT !.in = Tail(ctx[p].in)]]
<1>1. ctx[p].in \in Seq(Replies(n)) /\ ctx[p] \in Contexts(n)
  BY DEF Contexts
<1>2. Head(ctx[p].in) \in Replies(n) /\ Tail(ctx[p].in) \in Seq(Replies(n))
  BY <1>1
<1>3. [ctx[p] EXCEPT !.in = Tail(ctx[p].in)] \in Contexts(n)
  BY <1>1, <1>2, InType
<1>4. Taken(p) = [ctx EXCEPT ![p] = [ctx[p] EXCEPT !.in = Tail(ctx[p].in)]]
  BY <1>1 DEF Taken
<1> QED BY <1>2, <1>3, <1>4


\* The fields of a message.
LEMMA ReplyFields ==
    ASSUME NEW n \in Nat, NEW m \in Replies(n)
    PROVE  /\ m.msg = "inv" => m.blocks \in Seq(1..n)
           /\ m.msg = "merkleblock" => m.block \in 1..n /\ m.txs \in SUBSET PaidBefore(n)
           /\ m.msg = "relayed" => m.block \in 1..n
           /\ m.msg = "tx" => m.tx \in PaidBefore(n)
           /\ m.msg = "pong" => m.done \in Callbacks /\ m.peer \in Peers
  BY DEF Replies

\* The fields of a request.
LEMMA RequestFields ==
    ASSUME NEW n \in Nat, NEW m \in Requests(n)
    PROVE  /\ m.msg = "getblocks" => m.from \in 0..n
           /\ m.msg = "getdata" => m.blocks \in Seq(1..n)
           /\ m.msg = "filterload" => m.filter \in Nat
           /\ m.msg = "ping" => m.done \in Callbacks /\ m.peer \in Peers
  BY DEF Requests

\* An element of a typed sequence.
LEMMA ElementType ==
    ASSUME NEW S, NEW s \in Seq(S), NEW i \in 1..Len(s)
    PROVE  s[i] \in S
  OBVIOUS

\* The handler of inv keeps the types,
LEMMA AcceptInvType ==
    ASSUME TypeOK, NEW p \in Peers, AcceptInv(p)
    PROVE  TypeOK'
<1>1. Scalars /\ ctx \in [Peers -> Contexts(tip)] /\ tip \in Nat
  BY Types DEF Scalars
<1> DEFINE all == Head(ctx[p].in).blocks
           c == Taken(p)[p]
           blocks == IF ~c.sentFilter \/ (Len(all) = 1 /\ c.lastBlockHash = all[1]) THEN <<>> ELSE all
           last == IF Len(blocks) = 1 THEN blocks[1] ELSE c.lastBlockHash
           known == [c EXCEPT !.lastBlockHash = last, !.knownBlocks = @ \o blocks]
           wanted == Wanted(c, blocks)
           asked == SendGetdata(known, wanted)
           after == IF Len(wanted) >= Batch THEN SendGetblocks(asked, blocks[Len(blocks)]) ELSE asked
<1>2. c \in Contexts(tip) /\ all \in Seq(1..tip)
  <2>1. ctx[p].in # <<>> /\ Head(ctx[p].in).msg = "inv"
    BY DEF AcceptInv, Reads
  <2>2. Taken(p) \in [Peers -> Contexts(tip)] /\ Head(ctx[p].in) \in Replies(tip)
    BY <1>1, <2>1, TakenType
  <2> QED BY <1>1, <2>1, <2>2, ReplyFields
<1>3. ctx' = [ctx EXCEPT ![p] = after]
  BY DEF AcceptInv
<1> HIDE DEF c, all
<1>4. blocks \in Seq(1..tip)
  <2>1. blocks = <<>> \/ blocks = all
    OBVIOUS
  <2>2. <<>> \in Seq(1..tip)
    OBVIOUS
  <2> HIDE DEF blocks
  <2> QED BY <1>2, <2>1, <2>2
<1> HIDE DEF blocks
<1>5. last \in 0..tip
  <2>1. c.lastBlockHash \in 0..tip
    BY <1>2 DEF Contexts
  <2>2. ASSUME Len(blocks) = 1 PROVE blocks[1] \in 0..tip
    <3>1. 1 \in 1..Len(blocks)
      BY <2>2
    <3>2. blocks[1] \in 1..tip
      BY <1>4, <3>1, ElementType
    <3> QED BY <1>1, <3>2
  <2> QED BY <2>1, <2>2
<1> HIDE DEF last
<1>6. known \in Contexts(tip)
  <2>1. c.knownBlocks \o blocks \in Seq(1..tip)
    BY <1>2, <1>4 DEF Contexts
  <2> DEFINE kb == c.knownBlocks \o blocks
  <2>2. known = [c EXCEPT !.lastBlockHash = last, !.knownBlocks = kb]
    BY <1>2 DEF Contexts
  <2> HIDE DEF kb, known
  <2> QED BY <1>2, <1>5, <2>1, <2>2 DEF Contexts, kb
<1>7. wanted \in Seq(1..tip) /\ (Len(wanted) >= Batch => blocks = wanted /\ Len(wanted) >= 1 /\ Len(wanted) \in Nat)
  <2>1. wanted = <<>> \/ wanted = blocks
    BY DEF Wanted
  <2>2. Batch \in Nat \ {0}
    BY FilterAssumption
  <2>3. <<>> \in Seq(1..tip) /\ Len(<<>>) = 0
    OBVIOUS
  <2> HIDE DEF wanted
  <2>4. wanted \in Seq(1..tip)
    BY <1>4, <2>1, <2>3
  <2>5. ASSUME Len(wanted) >= Batch PROVE blocks = wanted /\ Len(wanted) >= 1 /\ Len(wanted) \in Nat
    BY <1>4, <2>1, <2>2, <2>3, <2>4, <2>5
  <2> QED BY <2>4, <2>5
<1> HIDE DEF wanted, known
<1>8. asked \in Contexts(tip)
  BY <1>1, <1>6, <1>7, CallTypes
<1> HIDE DEF asked
<1>9. after \in Contexts(tip)
  <2>1. CASE Len(wanted) >= Batch
    <3>1. blocks[Len(blocks)] \in 0..tip
      BY <1>1, <1>4, <1>7, <2>1
    <3> QED BY <1>1, <1>8, <2>1, <3>1, CallTypes, SMTT(30)
  <2> QED BY <1>8, <2>1
<1> HIDE DEF after
<1>10. ctx' \in [Peers -> Contexts(tip)] /\ Scalars' /\ tip' = tip
  BY <1>1, <1>3, <1>9 DEF AcceptInv, chainVars, Scalars
<1> QED BY <1>10, TypesNext

\* that of merkleblock,
LEMMA AcceptMerkleblockType ==
    ASSUME TypeOK, NEW p \in Peers, AcceptMerkleblock(p)
    PROVE  TypeOK'
<1>1. Scalars /\ ctx \in [Peers -> Contexts(tip)] /\ tip \in Nat
  BY Types DEF Scalars
<1> DEFINE m == Head(ctx[p].in)
           c == Taken(p)[p]
           after == IF m.txs = {} THEN Relay(c, m.block) ELSE [c EXCEPT !.currentBlock = m.block, !.currentTx = m.txs]
<1>2. c \in Contexts(tip) /\ m.block \in 1..tip /\ m.txs \in SUBSET PaidBefore(tip)
  <2>1. ctx[p].in # <<>> /\ Head(ctx[p].in).msg = "merkleblock"
    BY DEF AcceptMerkleblock, Reads
  <2>2. Taken(p) \in [Peers -> Contexts(tip)] /\ Head(ctx[p].in) \in Replies(tip)
    BY <1>1, <2>1, TakenType
  <2> QED BY <1>1, <2>1, <2>2, ReplyFields
<1>3. ctx' = [ctx EXCEPT ![p] = after]
  BY DEF AcceptMerkleblock
<1> HIDE DEF c, m
<1>4. after \in Contexts(tip)
  <2>1. Relay(c, m.block) \in Contexts(tip)
    BY <1>1, <1>2, RelayType
  <2>2. [c EXCEPT !.currentBlock = m.block, !.currentTx = m.txs] \in Contexts(tip)
    <3>1. m.block \in 0..tip
      BY <1>1, <1>2
    <3> QED BY <1>2, <3>1 DEF Contexts
  <2> QED BY <2>1, <2>2
<1> HIDE DEF after
<1>5. ctx' \in [Peers -> Contexts(tip)] /\ Scalars' /\ tip' = tip
  BY <1>1, <1>3, <1>4 DEF AcceptMerkleblock, chainVars, Scalars
<1> QED BY <1>5, TypesNext

\* that of tx,
LEMMA AcceptTxType ==
    ASSUME TypeOK, NEW p \in Peers, AcceptTx(p)
    PROVE  TypeOK'
<1>1. Scalars /\ ctx \in [Peers -> Contexts(tip)] /\ tip \in Nat
  BY Types DEF Scalars
<1> DEFINE t == Head(ctx[p].in).tx
           c == Taken(p)[p]
           left == [c EXCEPT !.currentTx = @ \ {t}]
           after == IF c.currentBlock # 0 /\ left.currentTx = {}
                    THEN Relay([left EXCEPT !.currentBlock = 0], c.currentBlock) ELSE left
           cs == [ctx EXCEPT ![p] = after]
<1>2. c \in Contexts(tip) /\ t \in PaidBefore(tip)
  <2>1. ctx[p].in # <<>> /\ Head(ctx[p].in).msg = "tx"
    BY DEF AcceptTx, Reads
  <2>2. Taken(p) \in [Peers -> Contexts(tip)] /\ Head(ctx[p].in) \in Replies(tip)
    BY <1>1, <2>1, TakenType
  <2> QED BY <1>1, <2>1, <2>2, ReplyFields
<1>3. received' = received \cup {t} /\ (ctx' = cs \/ ctx' = UpdateFilter(cs)) /\ (filter' = 0 \/ filter' = filter)
  BY DEF AcceptTx
<1> HIDE DEF c, t
<1>4. left \in Contexts(tip)
  BY <1>2 DEF Contexts
<1> HIDE DEF left
<1>5. after \in Contexts(tip)
  <2>1. CASE c.currentBlock # 0
    <3>1. c.currentBlock \in 1..tip
      BY <1>2, <2>1 DEF Contexts
    <3>2. [left EXCEPT !.currentBlock = 0] \in Contexts(tip)
      <4>1. 0 \in 0..tip
        BY <1>1
      <4> QED BY <1>4, <4>1 DEF Contexts
    <3>3. Relay([left EXCEPT !.currentBlock = 0], c.currentBlock) \in Contexts(tip)
      BY <1>1, <3>1, <3>2, RelayType
    <3> QED BY <1>4, <3>3
  <2> QED BY <1>4, <2>1
<1> HIDE DEF after
<1>6. cs \in [Peers -> Contexts(tip)]
  BY <1>1, <1>5
<1> HIDE DEF cs
<1>7. UpdateFilter(cs) \in [Peers -> Contexts(tip)]
  BY <1>1, <1>6, UpdateFilterType
<1>8. ctx' \in [Peers -> Contexts(tip)] /\ Scalars' /\ tip' = tip
  BY <1>1, <1>2, <1>3, <1>6, <1>7 DEF AcceptTx, chainVars, Scalars
<1> QED BY <1>8, TypesNext

\* the callbacks a pong runs,
LEMMA PongTypes ==
    ASSUME Scalars, NEW cs \in [Peers -> Contexts(tip)], NEW q \in Peers,
           \/ UpdateFilterPingDone(cs, q)
           \/ UpdateFilterLoadDone(cs, q)
           \/ UpdateFilterRerequestDone(cs, q)
    PROVE  ctx' \in [Peers -> Contexts(tip)] /\ filter' \in Nat /\ orphans' \subseteq 1..tip /\ lastOrphan' \in 0..tip
<1>1. tip \in Nat /\ lastBlock \in 0..tip /\ filter \in Nat /\ orphans \subseteq 1..tip /\ lastOrphan \in 0..tip
  BY DEF Scalars
<1>2. CASE UpdateFilterPingDone(cs, q)
  <2> DEFINE syncing == lastBlock < estimated
             on == IF ~syncing THEN Connected(cs)
                   ELSE IF downloadPeer = NoPeer THEN {} ELSE {downloadPeer}
             load(c, p) == SendPing(SendFilterload(c, Coverage),
                                    "updateFilterLoadDone", IF syncing THEN q ELSE p)
  <2>1. \A p \in Peers : load(cs[p], p) \in Contexts(tip)
    <3>1. "updateFilterLoadDone" \in Callbacks
      BY DEF Callbacks
    <3>2. ASSUME NEW p \in Peers
          PROVE  load(cs[p], p) \in Contexts(tip)
      <4>1. (IF syncing THEN q ELSE p) \in Peers
        OBVIOUS
      <4> HIDE DEF syncing
      <4> QED BY <1>1, <3>1, <4>1, LoadType
    <3> QED BY <3>2
  <2>2. ctx' = [p \in Peers |-> IF p \in on THEN load(cs[p], p) ELSE cs[p]]
    BY <1>2 DEF UpdateFilterPingDone
  <2>3. filter' \in {0, Coverage} /\ (orphans' = orphans \/ orphans' = {}) /\ (lastOrphan' = lastOrphan \/ lastOrphan' = 0)
    BY <1>2 DEF UpdateFilterPingDone
  <2> HIDE DEF on, load
  <2>5. orphans' \subseteq 1..tip /\ lastOrphan' \in 0..tip
    <3>1. orphans' \subseteq 1..tip
      BY <1>1, <2>3
    <3>2. 0 \in 0..tip
      BY <1>1
    <3> QED BY <1>1, <2>3, <3>1, <3>2 
  <2>4. ctx' \in [Peers -> Contexts(tip)]
    <3>1. \A p \in Peers : (IF p \in on THEN load(cs[p], p) ELSE cs[p]) \in Contexts(tip)
      BY <2>1
    <3> QED BY <2>2, <3>1
  <2>6. filter' \in Nat
    BY <2>3, CoverageType
  <2> QED BY <2>4, <2>5, <2>6
<1>3. CASE UpdateFilterLoadDone(cs, q)
  <2> DEFINE done == [cs EXCEPT ![q].needsUpdate = FALSE]
             dc == [cs[q] EXCEPT !.needsUpdate = FALSE]
             rc == RerequestBlocks(done[downloadPeer], lastBlock)
             sc == SendPing(rc, "updateFilterRerequestDone", q)
  <2>1. dc \in Contexts(tip)
    BY DEF Contexts
  <2>2. done = [cs EXCEPT ![q] = dc]
    OBVIOUS
  <2>3. done \in [Peers -> Contexts(tip)]
    <3> HIDE DEF dc, done
    <3> QED BY <2>1, <2>2
  <2> HIDE DEF done, dc
  <2>4. ctx' \in [Peers -> Contexts(tip)]
    <3>1. CASE lastBlock < estimated
      <4>1. downloadPeer \in Peers /\ ctx' = [done EXCEPT ![downloadPeer] = sc]
        BY <1>3, <3>1 DEF UpdateFilterLoadDone, done, Scalars
      <4>2. rc \in Contexts(tip)
        BY <1>1, <2>3, <4>1, RerequestType
      <4> HIDE DEF rc
      <4>3. sc \in Contexts(tip)
        BY <1>1, <4>2, CallTypes DEF Callbacks
      <4> HIDE DEF sc
      <4> QED BY <2>3, <4>1, <4>3
    <3>2. CASE ~(lastBlock < estimated)
      BY <1>3, <2>3, <3>2 DEF UpdateFilterLoadDone, done
    <3> QED BY <3>1, <3>2
  <2> QED BY <1>1, <1>3, <2>4 DEF UpdateFilterLoadDone
<1>4. CASE UpdateFilterRerequestDone(cs, q)
  <2> DEFINE sc == SendGetblocks(cs[q], lastBlock)
  <2>1. sc \in Contexts(tip)
    BY <1>1, CallTypes
  <2>2. ctx' = cs \/ ctx' = [cs EXCEPT ![q] = sc]
    BY <1>4 DEF UpdateFilterRerequestDone
  <2> HIDE DEF sc
  <2>3. ctx' \in [Peers -> Contexts(tip)]
    BY <2>1, <2>2
  <2> QED BY <1>1, <1>4, <2>3 DEF UpdateFilterRerequestDone
<1> QED BY <1>2, <1>3, <1>4

\* and the handler of pong.
LEMMA AcceptPongType ==
    ASSUME TypeOK, NEW p \in Peers, AcceptPong(p)
    PROVE  TypeOK'
<1>1. Scalars /\ ctx \in [Peers -> Contexts(tip)] /\ tip \in Nat
  BY Types DEF Scalars
<1> DEFINE m == Head(ctx[p].in)
<1>2. Taken(p) \in [Peers -> Contexts(tip)] /\ m.peer \in Peers
  <2>1. ctx[p].in # <<>> /\ Head(ctx[p].in).msg = "pong"
    BY DEF AcceptPong, Reads
  <2>2. Taken(p) \in [Peers -> Contexts(tip)] /\ Head(ctx[p].in) \in Replies(tip)
    BY <1>1, <2>1, TakenType
  <2> QED BY <1>1, <2>1, <2>2, ReplyFields
<1>3. \/ UpdateFilterPingDone(Taken(p), m.peer)
      \/ UpdateFilterLoadDone(Taken(p), m.peer)
      \/ UpdateFilterRerequestDone(Taken(p), m.peer)
      \/ ctx' = Taken(p) /\ UNCHANGED <<filter, orphans, lastOrphan>>
  BY DEF AcceptPong
<1> HIDE DEF m
<1>4. ctx' \in [Peers -> Contexts(tip)] /\ filter' \in Nat /\ orphans' \subseteq 1..tip /\ lastOrphan' \in 0..tip
  <2>1. CASE ctx' = Taken(p) /\ UNCHANGED <<filter, orphans, lastOrphan>>
    BY <1>1, <1>2, <2>1 DEF Scalars
  <2> QED BY <1>1, <1>2, <1>3, <2>1, PongTypes
<1>5. Scalars' /\ tip' = tip
  BY <1>1, <1>4 DEF AcceptPong, Scalars
<1> QED BY <1>4, <1>5, TypesNext

\* A block without its predecessor keeps the types,
LEMMA OrphanType ==
    ASSUME Scalars, NEW cs \in [Peers -> Contexts(tip)], NEW p \in Peers, NEW h \in 1..tip, Orphan(p, cs, h)
    PROVE  /\ ctx' \in [Peers -> Contexts(tip)] /\ filter' \in Nat /\ orphans' \subseteq 1..tip
           /\ lastOrphan' \in 0..tip /\ lastBlock' \in 0..tip /\ estimated' \in 0..tip
<1>1. tip \in Nat /\ lastBlock \in 0..tip /\ estimated \in 0..tip /\ filter \in Nat /\ orphans \subseteq 1..tip
  BY DEF Scalars
<1> DEFINE sc == SendGetblocks(cs[p], lastBlock)
<1>2. sc \in Contexts(tip)
  BY <1>1, CallTypes
<1>3. ctx' = cs \/ ctx' = [cs EXCEPT ![p] = sc]
  BY DEF Orphan
<1> HIDE DEF sc
<1>4. ctx' \in [Peers -> Contexts(tip)]
  BY <1>2, <1>3
<1>5. orphans' \subseteq 1..tip /\ lastOrphan' \in 0..tip
  BY <1>1 DEF Orphan
<1> QED BY <1>1, <1>4, <1>5 DEF Orphan

\* and so does one that extends the chain.
LEMMA AcceptedType ==
    ASSUME Scalars, NEW cs \in [Peers -> Contexts(tip)], NEW p \in Peers, NEW h \in 1..tip, Accepted(p, cs, h)
    PROVE  /\ ctx' \in [Peers -> Contexts(tip)] /\ filter' \in Nat /\ orphans' \subseteq 1..tip
           /\ lastOrphan' \in 0..tip /\ lastBlock' \in 0..tip /\ estimated' \in 0..tip
<1>1. tip \in Nat /\ lastBlock \in 0..tip /\ estimated \in 0..tip /\ filter \in Nat /\ orphans \subseteq 1..tip /\ lastOrphan \in 0..tip
  BY DEF Scalars
<1>2. Coverage \in Nat
  BY CoverageType
<1> DEFINE others == IF h = estimated /\ h > lastBlock THEN OtherPeers(cs, downloadPeer) ELSE {}
           new == LoadOn(cs, others, "loadBloomFilterDone")
           waits == IF others = {} THEN orphans ELSE {}
           rc == Relay(new[p], h + 1)
<1>3. new \in [Peers -> Contexts(tip)]
  <2> HIDE DEF others
  <2> QED BY <1>1, LoadOnType DEF Callbacks
<1>4. waits \subseteq 1..tip
  <2> HIDE DEF others
  <2> QED BY <1>1
<1>5. ctx' = IF h + 1 \in waits THEN [new EXCEPT ![p] = rc] ELSE new
  BY DEF Accepted
<1>6. (filter' = filter \/ filter' = Coverage) /\ (lastOrphan' = lastOrphan \/ lastOrphan' = 0) /\ orphans' = waits \ {h + 1}
  BY DEF Accepted
<1>7. (lastBlock' = h \/ lastBlock' = lastBlock) /\ (estimated' = h \/ estimated' = estimated)
  BY DEF Accepted, RaisedEstimate
<1> HIDE DEF waits, new
<1>8. ctx' \in [Peers -> Contexts(tip)]
  <2>1. CASE h + 1 \in waits
    <3>1. rc \in Contexts(tip)
      BY <1>1, <1>3, <1>4, <2>1, RelayType
    <3> HIDE DEF rc
    <3> QED BY <1>3, <1>5, <2>1, <3>1
  <2>2. CASE h + 1 \notin waits
    BY <1>3, <1>5, <2>2
  <2> QED BY <2>1, <2>2
<1>9. filter' \in Nat /\ orphans' \subseteq 1..tip
  BY <1>1, <1>2, <1>4, <1>6
<1>10. 0 \in 0..tip /\ h \in 0..tip
  BY <1>1
<1>11. lastOrphan' \in 0..tip /\ lastBlock' \in 0..tip /\ estimated' \in 0..tip
  BY <1>1, <1>6, <1>7, <1>10
<1> QED BY <1>8, <1>9, <1>11

\* Both, as _peerRelayedBlock does them.
LEMMA RelayedBlockType ==
    ASSUME TypeOK, NEW p \in Peers, RelayedBlock(p)
    PROVE  TypeOK'
<1>1. Scalars /\ ctx \in [Peers -> Contexts(tip)] /\ tip \in Nat
  BY Types DEF Scalars
<1> DEFINE h == Head(ctx[p].in).block
<1>2. Taken(p) \in [Peers -> Contexts(tip)] /\ h \in 1..tip
  <2>1. ctx[p].in # <<>> /\ Head(ctx[p].in).msg = "relayed"
    BY DEF RelayedBlock, Reads
  <2>2. Taken(p) \in [Peers -> Contexts(tip)] /\ Head(ctx[p].in) \in Replies(tip)
    BY <1>1, <2>1, TakenType
  <2> QED BY <1>1, <2>1, <2>2, ReplyFields
<1>3. PICK cs \in {Taken(p)} \cup (IF Degrades(p) THEN {UpdateFilter(Taken(p))} ELSE {}) :
              /\ degraded' = IF cs = Taken(p) THEN degraded ELSE degraded + 1
              /\ \/ Ignored(cs) /\ ctx' = cs /\ UNCHANGED <<chainVars, filter>>
                 \/ ~Ignored(cs) /\ h > lastBlock + 1 /\ Orphan(p, cs, h)
                 \/ ~Ignored(cs) /\ h <= lastBlock + 1 /\ Accepted(p, cs, h)
  BY DEF RelayedBlock
<1>4. UNCHANGED <<maxConnectCount, tip, received, downloadPeer, faults>>
  BY DEF RelayedBlock
<1> HIDE DEF h
<1>5. cs \in [Peers -> Contexts(tip)]
  BY <1>1, <1>2, <1>3, UpdateFilterType
<1>6. degraded' \in 0..MaxDegrade
  <2>1. cs # Taken(p) => degraded < MaxDegrade
    BY <1>3 DEF Degrades
  <2>2. degraded \in 0..MaxDegrade /\ MaxDegrade \in Nat
    BY <1>1, FilterAssumption DEF Scalars
  <2>3. degraded' = degraded \/ (cs # Taken(p) /\ degraded' = degraded + 1)
    BY <1>3
  <2> QED BY <2>1, <2>2, <2>3
<1>7. /\ ctx' \in [Peers -> Contexts(tip)] /\ filter' \in Nat /\ orphans' \subseteq 1..tip
      /\ lastOrphan' \in 0..tip /\ lastBlock' \in 0..tip /\ estimated' \in 0..tip
  <2>1. CASE ctx' = cs /\ UNCHANGED <<chainVars, filter>>
    BY <1>1, <1>5, <2>1 DEF Scalars, chainVars
  <2>2. CASE Orphan(p, cs, h)
    BY <1>1, <1>2, <1>5, <2>2, OrphanType
  <2>3. CASE Accepted(p, cs, h)
    BY <1>1, <1>2, <1>5, <2>3, AcceptedType
  <2> QED BY <1>3, <2>1, <2>2, <2>3
<1>8. Scalars' /\ tip' = tip
  BY <1>1, <1>4, <1>6, <1>7 DEF Scalars
<1> QED BY <1>7, <1>8, TypesNext

\* Closing a connection keeps the types,
LEMMA ClosingType ==
    ASSUME NEW n \in Nat, NEW cs \in [Peers -> Contexts(n)], NEW d \in Peers, NEW k \in 0..1, k <= Len(cs[d].in)
    PROVE  Closing(cs, d, k) \in [Peers -> Contexts(n)]
<1> DEFINE q == SubSeq(cs[d].in, 1, k)
           c == [cs[d] EXCEPT !.status = "closing", !.out = <<>>, !.in = q]
<1>1. cs[d].in \in Seq(Replies(n)) /\ cs[d] \in Contexts(n)
  BY DEF Contexts
<1>2. q \in Seq(Replies(n))
  BY <1>1
<1>3. Closing(cs, d, k) = [cs EXCEPT ![d] = c]
  BY DEF Closing
<1> HIDE DEF q
<1>4. c \in Contexts(n)
  <2>1. <<>> \in Seq(Requests(n))
    OBVIOUS
  <2> QED BY <1>1, <1>2, <2>1 DEF Contexts
<1> HIDE DEF c
<1> QED BY <1>3, <1>4

\* and so does a new one,
LEMMA NewContextType ==
    ASSUME NEW n \in Nat, NEW t \in 0..n
    PROVE  [NoContext EXCEPT !.status = "connected", !.lastblock = t] \in Contexts(n)
<1>1. NoContext \in Contexts(n)
  BY NoContextType
<1> HIDE DEF NoContext
<1> QED BY <1>1 DEF Contexts

\* which _peerConnected takes over.
LEMMA PeerConnectedType ==
    ASSUME TypeOK, NEW p \in Peers, PeerConnected(p)
    PROVE  TypeOK'
<1>1. Scalars /\ ctx \in [Peers -> Contexts(tip)] /\ tip \in Nat /\ lastBlock \in 0..tip /\ tip \in 0..tip
  BY Types DEF Scalars
<1>2. Coverage \in Nat
  BY <1>1, CoverageType
<1> DEFINE nc == [NoContext EXCEPT !.status = "connected", !.lastblock = tip]
           new == [ctx EXCEPT ![p] = nc]
<1>3. nc \in Contexts(tip)
  BY <1>1, NewContextType
<1> HIDE DEF nc
<1>4. new \in [Peers -> Contexts(tip)]
  BY <1>1, <1>3
<1>5. /\ ctx' \in [Peers -> Contexts(tip)] /\ filter' \in Nat /\ orphans' \subseteq 1..tip /\ lastOrphan' \in 0..tip
      /\ downloadPeer' \in Peers \cup {NoPeer} /\ estimated' \in 0..tip
  <2>1. ASSUME \/ filter' = filter /\ orphans' = orphans /\ lastOrphan' = lastOrphan
               \/ filter' = Coverage /\ orphans' = {} /\ lastOrphan' = 0
        PROVE  filter' \in Nat /\ orphans' \subseteq 1..tip /\ lastOrphan' \in 0..tip
    <3>1. filter \in Nat /\ orphans \subseteq 1..tip /\ lastOrphan \in 0..tip
      BY <1>1 DEF Scalars
    <3>2. 0 \in 0..tip
      BY <1>1
    <3> QED BY <1>2, <2>1, <3>1, <3>2
  <2>2. CASE StickWith(tip)
    <3>1. /\ ctx' = IF lastBlock >= tip THEN LoadOn(new, {p}, "loadBloomFilterDone") ELSE new
          /\ Loaded(lastBlock >= tip)
          /\ UNCHANGED <<downloadPeer, estimated>>
      BY <2>2 DEF PeerConnected, nc
    <3> HIDE DEF new
    <3>2. LoadOn(new, {p}, "loadBloomFilterDone") \in [Peers -> Contexts(tip)]
      BY <1>1, <1>4, LoadOnType DEF Callbacks
    <3>3. ctx' \in [Peers -> Contexts(tip)]
      BY <1>4, <3>1, <3>2
    <3>4. filter' \in Nat /\ orphans' \subseteq 1..tip /\ lastOrphan' \in 0..tip
      BY <2>1, <3>1 DEF Loaded
    <3> QED BY <1>1, <3>1, <3>3, <3>4 DEF Scalars
  <2>3. CASE ~StickWith(tip)
    <3> DEFINE old(n) == IF downloadPeer = NoPeer THEN new
                         ELSE Closing(new, downloadPeer, IF new[downloadPeer].in = <<>> THEN 0 ELSE n)
    <3>1. PICK n \in 0..1, d \in Fastest(new, tip) :
                LET mine == [old(n) EXCEPT ![d] = SendFilterload(@, Coverage)]
                IN  /\ downloadPeer' = d /\ estimated' = tip
                    /\ Loaded(TRUE)
                    /\ ctx' = IF lastBlock < tip THEN [mine EXCEPT ![d] = SendGetblocks(@, lastBlock)]
                              ELSE LoadOn(mine, OtherPeers(mine, d), "loadBloomFilterDone")
      BY <2>3 DEF PeerConnected, nc
    <3> DEFINE o == old(n)
               fc == SendFilterload(o[d], Coverage)
               mine == [o EXCEPT ![d] = fc]
               gc == SendGetblocks(mine[d], lastBlock)
    <3>2. d \in Peers
      BY DEF Fastest, Connected
    <3>3. o \in [Peers -> Contexts(tip)]
      <4>1. CASE downloadPeer = NoPeer
        BY <1>4, <4>1
      <4>2. CASE downloadPeer # NoPeer
        <5> DEFINE k == IF new[downloadPeer].in = <<>> THEN 0 ELSE n
        <5>1. downloadPeer \in Peers
          BY <1>1, <4>2 DEF Scalars
        <5>2. k \in 0..1
          OBVIOUS
        <5>3. k <= Len(new[downloadPeer].in)
          <6>1. new[downloadPeer].in \in Seq(Replies(tip))
            BY <1>4, <5>1 DEF Contexts
          <6> HIDE DEF new
          <6> QED BY <6>1
        <5> HIDE DEF k, new
        <5>4. Closing(new, downloadPeer, k) \in [Peers -> Contexts(tip)]
          BY <1>1, <1>4, <5>1, <5>2, <5>3, ClosingType
        <5> QED BY <4>2, <5>4 DEF k
      <4> QED BY <4>1, <4>2
    <3>4. /\ downloadPeer' = d /\ estimated' = tip /\ Loaded(TRUE)
          /\ ctx' = IF lastBlock < tip THEN [mine EXCEPT ![d] = gc]
                    ELSE LoadOn(mine, OtherPeers(mine, d), "loadBloomFilterDone")
      BY <3>1
    <3> HIDE DEF o
    <3>5. fc \in Contexts(tip)
      BY <1>1, <1>2, <3>2, <3>3, CallTypes
    <3> HIDE DEF fc
    <3>6. mine \in [Peers -> Contexts(tip)]
      BY <3>2, <3>3, <3>5
    <3> HIDE DEF mine
    <3>7. gc \in Contexts(tip)
      BY <1>1, <3>2, <3>6, CallTypes
    <3> HIDE DEF gc
    <3>8. LoadOn(mine, OtherPeers(mine, d), "loadBloomFilterDone") \in [Peers -> Contexts(tip)]
      BY <1>1, <3>6, LoadOnType DEF Callbacks
    <3>9. ctx' \in [Peers -> Contexts(tip)]
      BY <3>2, <3>4, <3>6, <3>7, <3>8
    <3>10. filter' \in Nat /\ orphans' \subseteq 1..tip /\ lastOrphan' \in 0..tip
      BY <2>1, <3>4 DEF Loaded
    <3> QED BY <1>1, <3>2, <3>4, <3>9, <3>10, SMTT(30)
  <2> QED BY <2>2, <2>3
<1>6. Scalars' /\ tip' = tip
  BY <1>1, <1>5 DEF PeerConnected, Scalars
<1> QED BY <1>5, <1>6, TypesNext

\* A lost connection keeps the types.
LEMMA GoneType ==
    ASSUME TypeOK, NEW p \in Peers, Gone(p), faults' \in 0..MaxFaults
    PROVE  TypeOK'
<1>1. Scalars /\ ctx \in [Peers -> Contexts(tip)] /\ tip \in Nat
  BY Types DEF Scalars
<1>2. NoContext \in Contexts(tip)
  BY <1>1, NoContextType
<1> HIDE DEF NoContext
<1>3. ctx' \in [Peers -> Contexts(tip)]
  BY <1>1, <1>2 DEF Gone
<1>4. Scalars' /\ tip' = tip
  BY <1>1 DEF Gone, chainVars, Scalars
<1> QED BY <1>3, <1>4, TypesNext

\* every transaction of a filtered block that is not yet handled comes behind the block
Followed(q) ==
    \A i \in DOMAIN q : q[i].msg = "merkleblock" =>
        \A t \in q[i].txs : \E j \in DOMAIN q : j > i /\ q[j] = [msg |-> "tx", tx |-> t]

\* filtered blocks that were matched with filter f
Answers(n, f) ==
    {q \in Seq(Replies(n)) :
        /\ Followed(q)
        /\ \A i \in DOMAIN q : /\ q[i].msg \in {"merkleblock", "tx"}
                               /\ q[i].msg = "merkleblock" => q[i].txs = Matched(q[i].block, f)}

\* A function on 1..n is a sequence.
LEMMA FunctionIsSeq ==
    ASSUME NEW S, NEW k \in Nat, NEW f \in [1..k -> S]
    PROVE  f \in Seq(S) /\ Len(f) = k
  OBVIOUS

\* Every element of two sequences put together is one of theirs.
LEMMA JoinElements ==
    ASSUME NEW S, NEW q \in Seq(S), NEW r \in Seq(S)
    PROVE  /\ q \o r \in Seq(S) /\ Len(q \o r) = Len(q) + Len(r) /\ Len(q) \in Nat /\ Len(r) \in Nat
           /\ DOMAIN q = 1..Len(q) /\ DOMAIN r = 1..Len(r) /\ DOMAIN (q \o r) = 1..(Len(q) + Len(r))
           /\ \A i \in 1..Len(q) : (q \o r)[i] = q[i]
           /\ \A i \in 1..Len(r) : (q \o r)[Len(q) + i] = r[i]
           /\ \A i \in 1..(Len(q) + Len(r)) : i \in 1..Len(q) \/ (i - Len(q) \in 1..Len(r) /\ i = Len(q) + (i - Len(q)))
  OBVIOUS

\* Blocks of a reply that is put together from two follow each other when those of the parts do.
LEMMA JoinFollowed ==
    ASSUME NEW S, NEW q \in Seq(S), NEW r \in Seq(S), Followed(q), Followed(r)
    PROVE  Followed(q \o r)
<1> DEFINE s == q \o r
<1>1. /\ Len(q) \in Nat /\ Len(r) \in Nat
      /\ DOMAIN q = 1..Len(q) /\ DOMAIN r = 1..Len(r) /\ DOMAIN s = 1..(Len(q) + Len(r))
      /\ \A i \in 1..Len(q) : s[i] = q[i]
      /\ \A i \in 1..Len(r) : s[Len(q) + i] = r[i]
      /\ \A i \in 1..(Len(q) + Len(r)) : i \in 1..Len(q) \/ (i - Len(q) \in 1..Len(r) /\ i = Len(q) + (i - Len(q)))
  BY JoinElements
<1> HIDE DEF s
<1>2. SUFFICES ASSUME NEW i \in DOMAIN s, s[i].msg = "merkleblock", NEW t \in s[i].txs
               PROVE  \E j \in DOMAIN s : j > i /\ s[j] = [msg |-> "tx", tx |-> t]
  BY DEF Followed, s
<1>3. CASE i \in 1..Len(q)
  <2>1. PICK j \in DOMAIN q : j > i /\ q[j] = [msg |-> "tx", tx |-> t]
    BY <1>1, <1>2, <1>3 DEF Followed
  <2>2. j \in DOMAIN s /\ s[j] = q[j]
    BY <1>1, <2>1
  <2> QED BY <2>1, <2>2
<1>4. CASE i \notin 1..Len(q)
  <2> DEFINE k == i - Len(q)
  <2>1. k \in 1..Len(r) /\ i = Len(q) + k
    BY <1>1, <1>4
  <2>2. s[i] = r[k]
    BY <1>1, <2>1
  <2>3. PICK j \in DOMAIN r : j > k /\ r[j] = [msg |-> "tx", tx |-> t]
    BY <1>1, <1>2, <2>1, <2>2 DEF Followed
  <2>4. Len(q) + j \in DOMAIN s /\ s[Len(q) + j] = r[j] /\ Len(q) + j > i
    BY <1>1, <2>1, <2>3
  <2> QED BY <2>3, <2>4
<1> QED BY <1>3, <1>4

\* A reply put together from two.
LEMMA JoinAnswers ==
    ASSUME NEW n \in Nat, NEW f, NEW q \in Answers(n, f), NEW r \in Answers(n, f)
    PROVE  q \o r \in Answers(n, f)
<1> DEFINE s == q \o r
<1>1. q \in Seq(Replies(n)) /\ r \in Seq(Replies(n)) /\ Followed(q) /\ Followed(r)
  BY DEF Answers
<1>2. /\ s \in Seq(Replies(n)) /\ Len(q) \in Nat /\ Len(r) \in Nat
      /\ DOMAIN q = 1..Len(q) /\ DOMAIN r = 1..Len(r) /\ DOMAIN s = 1..(Len(q) + Len(r))
      /\ \A i \in 1..Len(q) : s[i] = q[i]
      /\ \A i \in 1..Len(r) : s[Len(q) + i] = r[i]
      /\ \A i \in 1..(Len(q) + Len(r)) : i \in 1..Len(q) \/ (i - Len(q) \in 1..Len(r) /\ i = Len(q) + (i - Len(q)))
  BY <1>1, JoinElements
<1>3. Followed(s)
  BY <1>1, JoinFollowed
<1> HIDE DEF s
<1>4. ASSUME NEW i \in DOMAIN s
      PROVE  /\ s[i].msg \in {"merkleblock", "tx"}
             /\ s[i].msg = "merkleblock" => s[i].txs = Matched(s[i].block, f)
  <2>1. CASE i \in 1..Len(q)
    BY <1>2, <2>1 DEF Answers
  <2>2. CASE i \notin 1..Len(q)
    <3>1. i - Len(q) \in 1..Len(r) /\ s[i] = r[i - Len(q)]
      BY <1>2, <2>2
    <3> QED BY <1>2, <3>1 DEF Answers
  <2> QED BY <2>1, <2>2
<1>5. s \in Answers(n, f)
  BY <1>2, <1>3, <1>4 DEF Answers
<1> QED BY <1>5 DEF s

\* A block as a peer filters it.
LEMMA FilteredType ==
    ASSUME NEW n \in 0..MaxHeight, NEW h \in 1..n, NEW f \in Nat
    PROVE  Filtered(h, f) \in Answers(n, f)
<1> DEFINE M == Matched(h, f)
           k == Cardinality(M)
           block == [msg |-> "merkleblock", block |-> h, txs |-> M]
           txs == [i \in 1..k |-> [msg |-> "tx", tx |-> SetToSeq(M)[i]]]
           b == <<block>>
<1>1. MaxHeight \in Nat /\ n \in Nat /\ h \in 1..MaxHeight /\ h \in Nat
  BY PaysType
<1>2. M \subseteq Pays[h] /\ Pays[h] \subseteq PaidBefore(n) /\ IsFiniteSet(Pays[h])
  BY <1>1, PaysType DEF Matched, PaidBefore
<1>3. IsFiniteSet(M)
  BY <1>2, FS_Subset
<1> HIDE DEF M
<1>4. /\ k \in Nat /\ SetToSeq(M) \in [1..k -> M]
      /\ \A x \in M : \E i \in 1..k : SetToSeq(M)[i] = x
  BY <1>3, SetToSeqType
<1> HIDE DEF k
<1>5. txs \in Seq(Replies(n)) /\ Len(txs) = k
  <2>1. \A i \in 1..k : [msg |-> "tx", tx |-> SetToSeq(M)[i]] \in Replies(n)
    <3>1. ASSUME NEW i \in 1..k
          PROVE  SetToSeq(M)[i] \in PaidBefore(n)
      BY <1>2, <1>4
    <3> QED BY <3>1 DEF Replies
  <2>2. txs \in [1..k -> Replies(n)]
    BY <2>1
  <2> HIDE DEF txs
  <2> QED BY <1>4, <2>2
<1>6. \A i \in 1..k : txs[i] = [msg |-> "tx", tx |-> SetToSeq(M)[i]]
  OBVIOUS
<1> HIDE DEF txs
<1>7. block \in Replies(n) /\ block.msg = "merkleblock" /\ block.block = h /\ block.txs = M
  BY <1>2 DEF Replies
<1> HIDE DEF block
<1>8. b \in Seq(Replies(n)) /\ Len(b) = 1 /\ b[1] = block
  BY <1>7
<1>9. Filtered(h, f) = b \o txs
  BY DEF Filtered, block, txs, k, M
<1> HIDE DEF b
<1> DEFINE s == b \o txs
<1>10. /\ s \in Seq(Replies(n)) /\ DOMAIN s = 1..(1 + k) /\ s[1] = block
       /\ \A i \in 1..k : s[1 + i] = txs[i]
  <2>1. /\ b \o txs \in Seq(Replies(n)) /\ DOMAIN (b \o txs) = 1..(Len(b) + Len(txs))
        /\ \A i \in 1..Len(b) : (b \o txs)[i] = b[i]
        /\ \A i \in 1..Len(txs) : (b \o txs)[Len(b) + i] = txs[i]
    <3>1. b \in Seq(Replies(n)) /\ txs \in Seq(Replies(n))
      BY <1>5, <1>8
    <3>2. /\ b \o txs \in Seq(Replies(n)) /\ Len(b \o txs) = Len(b) + Len(txs) /\ Len(b) \in Nat /\ Len(txs) \in Nat
          /\ DOMAIN b = 1..Len(b) /\ DOMAIN txs = 1..Len(txs) /\ DOMAIN (b \o txs) = 1..(Len(b) + Len(txs))
          /\ \A i \in 1..Len(b) : (b \o txs)[i] = b[i]
          /\ \A i \in 1..Len(txs) : (b \o txs)[Len(b) + i] = txs[i]
      BY <3>1, JoinElements
    <3> QED BY <3>2
  <2>2. 1 \in 1..Len(b)
    BY <1>8
  <2> HIDE DEF s
  <2> QED BY <1>5, <1>8, <2>1, <2>2 DEF s
<1> HIDE DEF s
<1>11. \A i \in 1..(1 + k) : i = 1 \/ (i - 1 \in 1..k /\ i = 1 + (i - 1))
  BY <1>4
<1>12. ASSUME NEW i \in DOMAIN s
       PROVE  /\ s[i].msg \in {"merkleblock", "tx"}
              /\ s[i].msg = "merkleblock" => s[i].txs = Matched(s[i].block, f) /\ i = 1
  <2>1. CASE i = 1
    BY <1>7, <1>10, <2>1 DEF M
  <2>2. CASE i # 1
    <3>1. i - 1 \in 1..k /\ s[i] = txs[i - 1]
      BY <1>10, <1>11, <2>2
    <3>2. txs[i - 1] = [msg |-> "tx", tx |-> SetToSeq(M)[i - 1]]
      BY <1>6, <3>1
    <3> QED BY <3>1, <3>2
  <2> QED BY <2>1, <2>2
<1>13. ASSUME NEW i \in DOMAIN s, s[i].msg = "merkleblock", NEW t \in s[i].txs
       PROVE  \E j \in DOMAIN s : j > i /\ s[j] = [msg |-> "tx", tx |-> t]
  <2>1. i = 1 /\ t \in M
    BY <1>7, <1>10, <1>12, <1>13
  <2>2. PICK j \in 1..k : SetToSeq(M)[j] = t
    BY <1>4, <2>1
  <2>3. 1 + j \in DOMAIN s /\ 1 + j > i
    BY <1>4, <1>10, <2>1, <2>2
  <2>4. s[1 + j] = txs[j] /\ txs[j] = [msg |-> "tx", tx |-> SetToSeq(M)[j]]
    BY <1>6, <1>10
  <2>5. s[1 + j] = [msg |-> "tx", tx |-> t]
    BY <2>2, <2>4
  <2> QED BY <2>3, <2>5
<1>14. s \in Answers(n, f)
  BY <1>10, <1>12, <1>13 DEF Answers, Followed
<1> QED BY <1>9, <1>14 DEF s

\* what a node answers to getdata, with its filter
LEMMA DataAnswers ==
    ASSUME NEW n \in 0..MaxHeight, NEW blocks \in Seq(1..n), NEW f \in Nat
    PROVE  FlattenSeq([i \in DOMAIN blocks |-> Filtered(blocks[i], f)]) \in Answers(n, f)
<1> DEFINE W == Answers(n, f)
           s == [i \in DOMAIN blocks |-> Filtered(blocks[i], f)]
<1>1. n \in Nat /\ Len(blocks) \in Nat /\ DOMAIN blocks = 1..Len(blocks)
  BY PaysType
<1>2. <<>> \in W
  <2>1. <<>> \in Seq(Replies(n)) /\ DOMAIN <<>> = {}
    OBVIOUS
  <2> QED BY <2>1 DEF Answers, Followed
<1>3. \A q \in W, r \in W : q \o r \in W
  BY <1>1, JoinAnswers
<1>4. \A i \in 1..Len(blocks) : Filtered(blocks[i], f) \in W
  <2>1. ASSUME NEW i \in 1..Len(blocks)
        PROVE  Filtered(blocks[i], f) \in W
    <3>1. blocks[i] \in 1..n
      BY ElementType
    <3> QED BY <3>1, FilteredType
  <2> QED BY <2>1
<1> HIDE DEF W
<1>5. s \in Seq(W)
  <2>1. s \in [1..Len(blocks) -> W]
    BY <1>1, <1>4
  <2> HIDE DEF s
  <2> QED BY <1>1, <2>1
<1> HIDE DEF s
<1>6. FlattenSeq(s) \in W
  BY <1>2, <1>3, <1>5, FlattenType
<1> QED BY <1>6 DEF s, W

\* The reply of a remote peer to a request has its type.
LEMMA ReplyType ==
    ASSUME Scalars, NEW c \in Contexts(tip), NEW m \in Requests(tip)
    PROVE  /\ Reply(c, m) \in Seq(Replies(tip))
           /\ m.msg = "getblocks" => Len(Reply(c, m)) <= 1 /\ \A i \in DOMAIN Reply(c, m) : Reply(c, m)[i].msg = "inv"
           /\ m.msg = "getdata" => Reply(c, m) \in Answers(tip, c.remote)
           /\ m.msg = "ping" => Reply(c, m) = <<[msg |-> "pong", done |-> m.done, peer |-> m.peer]>>
           /\ m.msg = "filterload" => Reply(c, m) = <<>>
<1>1. tip \in 0..MaxHeight /\ tip \in Nat /\ c.remote \in Nat
  BY PaysType DEF Scalars, Contexts
<1>2. m.msg \in {"getblocks", "getdata", "filterload", "ping"}
  BY DEF Requests
<1>3. CASE m.msg = "getblocks"
  <2> DEFINE last == IF m.from + Batch < tip THEN m.from + Batch ELSE tip
             b == [i \in 1..(last - m.from) |-> m.from + i]
             r == <<[msg |-> "inv", blocks |-> b]>>
  <2>1. m.from \in 0..tip /\ Batch \in Nat
    BY <1>1, <1>3, RequestFields, FilterAssumption
  <2>2. Reply(c, m) = IF last > m.from THEN r ELSE <<>>
    BY <1>3 DEF Reply
  <2>3. CASE last > m.from
    <3>1. last \in 0..tip /\ last - m.from \in Nat
      BY <1>1, <2>1, <2>3
    <3> HIDE DEF last
    <3>2. b \in [1..(last - m.from) -> 1..tip]
      BY <1>1, <2>1, <2>3, <3>1
    <3> HIDE DEF b
    <3>3. b \in Seq(1..tip)
      BY <3>1, <3>2, FunctionIsSeq
    <3>4. [msg |-> "inv", blocks |-> b] \in Replies(tip)
      BY <3>3 DEF Replies
    <3>5. r \in Seq(Replies(tip)) /\ Len(r) = 1 /\ DOMAIN r = 1..1 /\ r[1] = [msg |-> "inv", blocks |-> b]
      BY <3>4
    <3>6. Reply(c, m) = r
      BY <2>2, <2>3
    <3>7. \A i \in DOMAIN r : r[i].msg = "inv"
      BY <3>5
    <3> HIDE DEF r
    <3>8. Reply(c, m) \in Seq(Replies(tip)) /\ Len(Reply(c, m)) = 1
      BY <3>5, <3>6
    <3>9. \A i \in DOMAIN Reply(c, m) : Reply(c, m)[i].msg = "inv"
      BY <3>6, <3>7
    <3>10. Len(Reply(c, m)) <= 1
      BY <3>8
    <3> QED BY <1>3, <3>8, <3>9, <3>10
  <2>4. CASE ~(last > m.from)
    <3>1. Reply(c, m) = <<>>
      BY <2>2, <2>4
    <3>2. <<>> \in Seq(Replies(tip)) /\ Len(<<>>) = 0 /\ DOMAIN <<>> = {}
      OBVIOUS
    <3> QED BY <1>3, <3>1, <3>2
  <2> QED BY <2>3, <2>4
<1>4. CASE m.msg = "getdata"
  <2>1. Reply(c, m) = FlattenSeq([i \in DOMAIN m.blocks |-> Filtered(m.blocks[i], c.remote)])
    BY <1>4 DEF Reply
  <2>2. m.blocks \in Seq(1..tip)
    BY <1>1, <1>4, RequestFields
  <2>3. Reply(c, m) \in Answers(tip, c.remote)
    BY <1>1, <2>1, <2>2, DataAnswers
  <2>4. Reply(c, m) \in Seq(Replies(tip))
    BY <2>3 DEF Answers
  <2> QED BY <1>4, <2>3, <2>4
<1>5. CASE m.msg = "ping"
  <2>1. Reply(c, m) = <<[msg |-> "pong", done |-> m.done, peer |-> m.peer]>>
    BY <1>5 DEF Reply
  <2>2. m.done \in Callbacks /\ m.peer \in Peers
    BY <1>1, <1>5, RequestFields
  <2>3. [msg |-> "pong", done |-> m.done, peer |-> m.peer] \in Replies(tip)
    BY <2>2 DEF Replies
  <2>4. Reply(c, m) \in Seq(Replies(tip))
    BY <2>1, <2>3
  <2> QED BY <1>5, <2>1, <2>4
<1>6. CASE m.msg = "filterload"
  <2>1. Reply(c, m) = <<>>
    BY <1>6 DEF Reply
  <2> QED BY <1>6, <2>1
<1> QED BY <1>2, <1>3, <1>4, <1>5, <1>6

\* what a request leaves with p
Served(p) ==
    LET m == Head(ctx[p].out)
    IN  [ctx[p] EXCEPT !.out = Tail(ctx[p].out), !.in = ctx[p].in \o Reply(ctx[p], m),
                       !.remote = IF m.msg = "filterload" THEN m.filter ELSE ctx[p].remote]

\* A remote peer answers its first request.
LEMMA ServeIsServed ==
    ASSUME TypeOK, NEW p \in Peers, Serve(p)
    PROVE  /\ ctx' = [ctx EXCEPT ![p] = Served(p)] /\ Served(p) \in Contexts(tip)
           /\ Head(ctx[p].out) \in Requests(tip) /\ Tail(ctx[p].out) \in Seq(Requests(tip))
           /\ Reply(ctx[p], Head(ctx[p].out)) \in Seq(Replies(tip))
           /\ Served(p).out = Tail(ctx[p].out) /\ Served(p).in = ctx[p].in \o Reply(ctx[p], Head(ctx[p].out))
           /\ Served(p).remote = IF Head(ctx[p].out).msg = "filterload" THEN Head(ctx[p].out).filter ELSE ctx[p].remote
           /\ Served(p).status = ctx[p].status /\ Served(p).needsUpdate = ctx[p].needsUpdate
           /\ Served(p).currentBlock = ctx[p].currentBlock /\ Served(p).currentTx = ctx[p].currentTx
<1>1. Scalars /\ ctx \in [Peers -> Contexts(tip)] /\ tip \in Nat /\ ctx[p] \in Contexts(tip)
  BY Types DEF Scalars
<1> DEFINE c == ctx[p]
           m == Head(c.out)
           o == Tail(c.out)
           i == c.in \o Reply(c, m)
           f == IF m.msg = "filterload" THEN m.filter ELSE c.remote
<1>2. c.out \in Seq(Requests(tip)) /\ c.in \in Seq(Replies(tip)) /\ c.remote \in Nat /\ c.out # <<>>
  BY <1>1 DEF Contexts, Serve
<1>3. m \in Requests(tip) /\ o \in Seq(Requests(tip))
  BY <1>2
<1>4. Reply(c, m) \in Seq(Replies(tip))
  BY <1>1, <1>3, ReplyType
<1>5. i \in Seq(Replies(tip)) /\ f \in Nat
  <2>1. f \in Nat
    BY <1>1, <1>2, <1>3, RequestFields
  <2>2. i \in Seq(Replies(tip))
    BY <1>2, <1>4
  <2> QED BY <2>1, <2>2
<1>6. Served(p) = [c EXCEPT !.out = o, !.in = i, !.remote = f]
  BY DEF Served
<1>7. ctx' = [ctx EXCEPT ![p] = [c EXCEPT !.out = o, !.in = i, !.remote = f]]
  <2> DEFINE r == Reply(c, m)
             b == m.msg = "filterload"
             g == m.filter
  <2>1. ctx' = [ctx EXCEPT ![p].out = o, ![p].in = @ \o r, ![p].remote = IF b THEN g ELSE @]
    BY DEF Serve
  <2> HIDE DEF r, b, g, o
  <2>2. [ctx EXCEPT ![p].out = o, ![p].in = @ \o r, ![p].remote = IF b THEN g ELSE @]
          = [ctx EXCEPT ![p] = [ctx[p] EXCEPT !.out = o, !.in = ctx[p].in \o r, !.remote = IF b THEN g ELSE ctx[p].remote]]
    BY <1>1 DEF Contexts
  <2> QED BY <2>1, <2>2 DEF r, b, g, o
<1> HIDE DEF i, f, o, m
<1>8. [c EXCEPT !.out = o, !.in = i, !.remote = f] \in Contexts(tip)
  BY <1>1, <1>3, <1>5 DEF Contexts
<1>9. /\ Served(p).out = o /\ Served(p).in = i /\ Served(p).remote = f /\ Served(p).status = c.status
      /\ Served(p).needsUpdate = c.needsUpdate /\ Served(p).currentBlock = c.currentBlock /\ Served(p).currentTx = c.currentTx
  BY <1>1, <1>6 DEF Contexts
<1>10. ctx' = [ctx EXCEPT ![p] = Served(p)] /\ Served(p) \in Contexts(tip)
  BY <1>6, <1>7, <1>8
<1> QED BY <1>3, <1>4, <1>9, <1>10 DEF i, f, o, m

\* That keeps the types,
LEMMA ServeType ==
    ASSUME TypeOK, NEW p \in Peers, Serve(p)
    PROVE  TypeOK'
<1>1. Scalars /\ ctx \in [Peers -> Contexts(tip)] /\ tip \in Nat
  BY Types DEF Scalars
<1>2. ctx' \in [Peers -> Contexts(tip)]
  BY <1>1, ServeIsServed
<1>3. Scalars' /\ tip' = tip
  BY <1>1 DEF Serve, chainVars, Scalars
<1> QED BY <1>2, <1>3, TypesNext

\* and so does a new block.
LEMMA MineType ==
    ASSUME TypeOK, Mine
    PROVE  TypeOK'
<1>1. Scalars /\ ctx \in [Peers -> Contexts(tip)] /\ tip \in Nat /\ tip' = tip + 1
  BY Types DEF Scalars, Mine
<1> DEFINE m == [msg |-> "inv", blocks |-> <<tip + 1>>]
<1>2. m \in Replies(tip + 1)
  <2>1. <<tip + 1>> \in Seq(1..(tip + 1))
    <3>1. tip + 1 \in 1..(tip + 1)
      BY <1>1
    <3> QED BY <3>1
  <2> QED BY <2>1 DEF Replies
<1> HIDE DEF m
<1>3. ASSUME NEW p \in Peers
      PROVE  ctx[p] \in Contexts(tip + 1) /\ [ctx[p] EXCEPT !.in = Append(ctx[p].in, m)] \in Contexts(tip + 1)
  <2>1. ctx[p] \in Contexts(tip + 1)
    BY <1>1, ContextGrows
  <2>2. ctx[p].in \in Seq(Replies(tip + 1))
    BY <2>1 DEF Contexts
  <2>3. Append(ctx[p].in, m) \in Seq(Replies(tip + 1))
    BY <1>2, <2>2
  <2>4. tip + 1 \in Nat
    BY <1>1
  <2> QED BY <2>1, <2>3, <2>4, InType
<1>4. ctx' = [p \in Peers |-> IF p \in Online THEN [ctx[p] EXCEPT !.in = Append(ctx[p].in, m)] ELSE ctx[p]]
  BY DEF Mine, m
<1>5. ctx' \in [Peers -> Contexts(tip')]
  BY <1>1, <1>3, <1>4
<1>6. Scalars'
  <2>1. PaidBefore(tip) \subseteq PaidBefore(tip + 1)
    BY <1>1, PaidGrows
  <2>2. tip' \in 0..MaxHeight
    BY <1>1, PaysType DEF Mine, Scalars
  <2>3. 0..tip \subseteq 0..(tip + 1) /\ 1..tip \subseteq 1..(tip + 1)
    BY <1>1
  <2> QED BY <1>1, <2>1, <2>2, <2>3 DEF Mine, chainVars, Scalars
<1> QED BY <1>5, <1>6, TypesNext

\* The first state has its type.
LEMMA TypeInit == Init => TypeOK
<1> SUFFICES ASSUME Init PROVE TypeOK
  OBVIOUS
<1>1. MaxHeight \in Nat /\ Mined \in 0..MaxHeight /\ Mined \in Nat
  BY PaysType, FilterAssumption
<1>2. ctx \in [Peers -> Contexts(tip)]
  <2>1. NoContext \in Contexts(tip)
    BY <1>1, NoContextType DEF Init
  <2> HIDE DEF NoContext
  <2> QED BY <2>1 DEF Init
<1>3. Scalars
  BY <1>1, FilterAssumption DEF Init, Scalars
<1> QED BY <1>2, <1>3, Types

\* Every step keeps the types.
LEMMA TypeStep == TypeOK /\ [Next]_vars => TypeOK'
<1> SUFFICES ASSUME TypeOK, [Next]_vars PROVE TypeOK'
  OBVIOUS
<1>1. CASE UNCHANGED vars
  BY <1>1 DEF vars, chainVars, TypeOK
<1>2. CASE Mine
  BY <1>2, MineType
<1>3. ASSUME NEW p \in Peers, PeerConnected(p) \/ Closed(p) \/ SyncTimeout(p) \/ Breaks(p) \/ Handle(p) \/ Serve(p)
      PROVE  TypeOK'
  <2>1. CASE PeerConnected(p)
    BY <2>1, PeerConnectedType
  <2>2. CASE Closed(p) \/ SyncTimeout(p) \/ Breaks(p)
    <3>1. Gone(p) /\ faults' \in 0..MaxFaults
      <4>1. faults \in 0..MaxFaults /\ MaxFaults \in Nat
        BY FilterAssumption DEF TypeOK
      <4> QED BY <2>2, <4>1 DEF Closed, SyncTimeout, Breaks
    <3> QED BY <3>1, GoneType
  <2>3. CASE Handle(p)
    BY <2>3, AcceptInvType, AcceptMerkleblockType, AcceptTxType, AcceptPongType, RelayedBlockType DEF Handle
  <2>4. CASE Serve(p)
    BY <2>4, ServeType
  <2> QED BY <1>3, <2>1, <2>2, <2>3, <2>4
<1> QED BY <1>1, <1>2, <1>3 DEF Next

\* Types, for every chain, number of peers and size of a batch: what is in flight is about blocks and
\* transactions of the network's chain, and a handler leaves the manager in a state of its type. 
THEOREM FilterTypeCorrect == Spec => []TypeOK
<1>1. Init => TypeOK
  BY TypeInit
<1>2. TypeOK /\ [Next]_vars => TypeOK'
  BY TypeStep
<1> QED BY <1>1, <1>2, PTL DEF Spec

(***************************************************************************)
(* With a fixed peer: the messages between the manager and its only peer.  *)
(***************************************************************************)
Pending(m) == m.msg \in {"ping", "pong"} /\ m.done \in {"updateFilterPingDone", "updateFilterLoadDone"}
First(m) == m.msg \in {"ping", "pong"} /\ m.done = "updateFilterPingDone"
Second(m) == m.msg \in {"ping", "pong"} /\ m.done = "updateFilterLoadDone"
Carrier(m) == m.msg \in {"merkleblock", "tx", "relayed"}

\* b may be sent behind a
OutPair(a, b) ==
    /\ a.msg = "getdata" => b.msg # "filterload"
    /\ First(a) => b.msg \notin {"getdata", "filterload"}
    /\ Pending(a) => ~Pending(b)
OutOrder(q) == \A i, j \in DOMAIN q : i < j => OutPair(q[i], q[j])

\* b may arrive behind a
InPair(a, b) == (First(a) => ~Carrier(b)) /\ (Pending(a) => ~Pending(b))
InOrder(q) == \A i, j \in DOMAIN q : i < j => InPair(q[i], q[j])

\* the request b may be unserved while the answer a has not been handled
CrossPair(a, b) == (First(a) => b.msg \notin {"getdata", "filterload"}) /\ (Pending(a) => ~Pending(b))
Crossing(c) == \A a \in ToSet(c.in), b \in ToSet(c.out) : CrossPair(a, b)

\* there is no second ping of an update, or pong of it, in flight
NoSecond(c) == (\A m \in ToSet(c.in) : ~Second(m)) /\ (\A m \in ToSet(c.out) : ~Second(m))
NoPending(c) == (\A m \in ToSet(c.in) : ~Pending(m)) /\ (\A m \in ToSet(c.out) : ~Pending(m))

SecondWaits(c, f) ==
    NoSecond(c) \/ /\ f # 0 /\ c.currentBlock = 0
                   /\ \A m \in ToSet(c.in) : ~Carrier(m)
                   /\ \A m \in ToSet(c.out) : m.msg # "getdata"

PendingWaits(c) == NoPending(c) \/ c.needsUpdate

\* a block that waits for transactions gets them
BlockWaits(c) ==
    c.currentBlock # 0 => c.currentTx # {} /\ \A t \in c.currentTx : [msg |-> "tx", tx |-> t] \in ToSet(c.in)

\* what is in flight was matched with filter f, or will be
FilterAgrees(c, f, R) ==
    f # 0 => /\ c.currentBlock # 0 => Matched(c.currentBlock, f) \subseteq R \cup c.currentTx
             /\ \A m \in ToSet(c.in) : /\ m.msg = "merkleblock" => m.txs = Matched(m.block, f)
                                       /\ m.msg = "relayed" => Matched(m.block, f) \subseteq R
             /\ \A m \in ToSet(c.out) : m.msg = "filterload" => m.filter = f
             /\ (\A m \in ToSet(c.out) : m.msg # "filterload") => c.remote = f

OwnPings(c, p) ==
    /\ \A m \in ToSet(c.in) : m.msg = "pong" => m.peer = p
    /\ \A m \in ToSet(c.out) : m.msg = "ping" => m.peer = p

\* the context c of the only peer p agrees with the filter f and the transactions R of the wallet
InStep(c, p, f, R) ==
    /\ f = 0 => c.needsUpdate
    /\ OutOrder(c.out) /\ InOrder(c.in) /\ Followed(c.in)
    /\ Crossing(c) /\ SecondWaits(c, f) /\ PendingWaits(c) /\ BlockWaits(c) /\ FilterAgrees(c, f, R) /\ OwnPings(c, p)

\* The elements of two sequences put together.
LEMMA Elements ==
    ASSUME NEW S, NEW q \in Seq(S), NEW r \in Seq(S)
    PROVE  ToSet(q \o r) = ToSet(q) \cup ToSet(r)
<1> DEFINE s == q \o r
<1>1. /\ Len(q) \in Nat /\ Len(r) \in Nat
      /\ DOMAIN q = 1..Len(q) /\ DOMAIN r = 1..Len(r) /\ DOMAIN s = 1..(Len(q) + Len(r))
      /\ \A i \in 1..Len(q) : s[i] = q[i]
      /\ \A i \in 1..Len(r) : s[Len(q) + i] = r[i]
      /\ \A i \in 1..(Len(q) + Len(r)) : i \in 1..Len(q) \/ (i - Len(q) \in 1..Len(r) /\ i = Len(q) + (i - Len(q)))
  BY JoinElements
<1> HIDE DEF s
<1>2. ASSUME NEW x \in ToSet(s) PROVE x \in ToSet(q) \cup ToSet(r)
  <2>1. PICK i \in 1..(Len(q) + Len(r)) : x = s[i]
    BY <1>1 DEF ToSet
  <2>2. CASE i \in 1..Len(q)
    BY <1>1, <2>1, <2>2 DEF ToSet
  <2>3. CASE i \notin 1..Len(q)
    <3>1. i - Len(q) \in 1..Len(r) /\ s[i] = r[i - Len(q)]
      BY <1>1, <2>3
    <3> QED BY <1>1, <2>1, <3>1 DEF ToSet
  <2> QED BY <2>2, <2>3
<1>3. ASSUME NEW x \in ToSet(q) PROVE x \in ToSet(s)
  <2>1. PICK i \in 1..Len(q) : x = q[i]
    BY <1>1 DEF ToSet
  <2>2. i \in DOMAIN s /\ s[i] = x
    BY <1>1, <2>1
  <2> QED BY <2>2 DEF ToSet
<1>4. ASSUME NEW x \in ToSet(r) PROVE x \in ToSet(s)
  <2>1. PICK i \in 1..Len(r) : x = r[i]
    BY <1>1 DEF ToSet
  <2>2. Len(q) + i \in DOMAIN s /\ s[Len(q) + i] = x
    BY <1>1, <2>1
  <2> QED BY <2>2 DEF ToSet
<1>5. ToSet(s) = ToSet(q) \cup ToSet(r)
  BY <1>2, <1>3, <1>4
<1> QED BY <1>5 DEF s

\* A sequence of one.
LEMMA OneElement ==
    ASSUME NEW S, NEW m \in S
    PROVE  /\ <<m>> \in Seq(S) /\ ToSet(<<m>>) = {m} /\ OutOrder(<<m>>) /\ InOrder(<<m>>)
           /\ (m.msg # "merkleblock" => Followed(<<m>>))
<1>1. <<m>> \in Seq(S) /\ DOMAIN <<m>> = {1} /\ <<m>>[1] = m
  OBVIOUS
<1>2. ToSet(<<m>>) = {m}
  BY <1>1 DEF ToSet
<1>3. OutOrder(<<m>>) /\ InOrder(<<m>>)
  BY <1>1 DEF OutOrder, InOrder
<1> QED BY <1>1, <1>2, <1>3 DEF Followed

\* Appending is putting together with a sequence of one.
LEMMA AppendIsJoin ==
    ASSUME NEW S, NEW q \in Seq(S), NEW m \in S
    PROVE  Append(q, m) = q \o <<m>>
  OBVIOUS

\* The elements of a sequence with one more at either end.
LEMMA MoreElements ==
    ASSUME NEW S, NEW q \in Seq(S), NEW m \in S
    PROVE  ToSet(q \o <<m>>) = ToSet(q) \cup {m} /\ ToSet(<<m>> \o q) = {m} \cup ToSet(q)
<1> DEFINE r == <<m>>
<1>1. r \in Seq(S) /\ ToSet(r) = {m}
  BY OneElement
<1> HIDE DEF r
<1>2. ToSet(q \o r) = ToSet(q) \cup ToSet(r) /\ ToSet(r \o q) = ToSet(r) \cup ToSet(q)
  BY <1>1, Elements
<1>3. ToSet(q \o r) = ToSet(q) \cup {m} /\ ToSet(r \o q) = {m} \cup ToSet(q)
  BY <1>1, <1>2
<1> QED BY <1>3 DEF r

\* A sequence is its head and its tail.
LEMMA HeadTail ==
    ASSUME NEW S, NEW q \in Seq(S), q # <<>>
    PROVE  /\ Head(q) \in S /\ Tail(q) \in Seq(S) /\ Len(q) \in Nat \ {0} /\ Len(Tail(q)) = Len(q) - 1
           /\ DOMAIN q = 1..Len(q) /\ DOMAIN Tail(q) = 1..(Len(q) - 1) /\ q[1] = Head(q)
           /\ \A i \in 1..(Len(q) - 1) : Tail(q)[i] = q[i + 1]
  OBVIOUS

\* Two queues of requests in order make one when no pair across them is out of order.
LEMMA OutJoin ==
    ASSUME NEW S, NEW q \in Seq(S), NEW r \in Seq(S), OutOrder(q), OutOrder(r),
           \A a \in ToSet(q), b \in ToSet(r) : OutPair(a, b)
    PROVE  OutOrder(q \o r)
<1> DEFINE s == q \o r
<1>1. /\ Len(q) \in Nat /\ Len(r) \in Nat
      /\ DOMAIN q = 1..Len(q) /\ DOMAIN r = 1..Len(r) /\ DOMAIN s = 1..(Len(q) + Len(r))
      /\ \A i \in 1..Len(q) : s[i] = q[i]
      /\ \A i \in 1..Len(r) : s[Len(q) + i] = r[i]
      /\ \A i \in 1..(Len(q) + Len(r)) : i \in 1..Len(q) \/ (i - Len(q) \in 1..Len(r) /\ i = Len(q) + (i - Len(q)))
  BY JoinElements
<1> HIDE DEF s
<1>2. ASSUME NEW i \in DOMAIN s, NEW j \in DOMAIN s, i < j PROVE OutPair(s[i], s[j])
  <2>1. CASE i \in 1..Len(q) /\ j \in 1..Len(q)
    BY <1>1, <1>2, <2>1 DEF OutOrder
  <2>2. CASE i \in 1..Len(q) /\ j \notin 1..Len(q)
    <3>1. s[i] \in ToSet(q)
      BY <1>1, <2>2 DEF ToSet
    <3>2. s[j] \in ToSet(r)
      <4>1. j - Len(q) \in 1..Len(r) /\ s[j] = r[j - Len(q)]
        BY <1>1, <2>2
      <4> QED BY <1>1, <4>1 DEF ToSet
    <3> QED BY <3>1, <3>2
  <2>3. CASE i \notin 1..Len(q)
    <3>1. i - Len(q) \in 1..Len(r) /\ s[i] = r[i - Len(q)]
      BY <1>1, <2>3
    <3>2. j \notin 1..Len(q)
      BY <1>1, <1>2, <2>3
    <3>3. j - Len(q) \in 1..Len(r) /\ s[j] = r[j - Len(q)] /\ i - Len(q) < j - Len(q)
      BY <1>1, <1>2, <3>2
    <3> QED BY <1>1, <3>1, <3>3 DEF OutOrder
  <2> QED BY <2>1, <2>2, <2>3
<1> QED BY <1>2 DEF OutOrder, s

\* The same of two queues of replies.
LEMMA InJoin ==
    ASSUME NEW S, NEW q \in Seq(S), NEW r \in Seq(S), InOrder(q), InOrder(r),
           \A a \in ToSet(q), b \in ToSet(r) : InPair(a, b)
    PROVE  InOrder(q \o r)
<1> DEFINE s == q \o r
<1>1. /\ Len(q) \in Nat /\ Len(r) \in Nat
      /\ DOMAIN q = 1..Len(q) /\ DOMAIN r = 1..Len(r) /\ DOMAIN s = 1..(Len(q) + Len(r))
      /\ \A i \in 1..Len(q) : s[i] = q[i]
      /\ \A i \in 1..Len(r) : s[Len(q) + i] = r[i]
      /\ \A i \in 1..(Len(q) + Len(r)) : i \in 1..Len(q) \/ (i - Len(q) \in 1..Len(r) /\ i = Len(q) + (i - Len(q)))
  BY JoinElements
<1> HIDE DEF s
<1>2. ASSUME NEW i \in DOMAIN s, NEW j \in DOMAIN s, i < j PROVE InPair(s[i], s[j])
  <2>1. CASE i \in 1..Len(q) /\ j \in 1..Len(q)
    BY <1>1, <1>2, <2>1 DEF InOrder
  <2>2. CASE i \in 1..Len(q) /\ j \notin 1..Len(q)
    <3>1. s[i] \in ToSet(q)
      BY <1>1, <2>2 DEF ToSet
    <3>2. s[j] \in ToSet(r)
      <4>1. j - Len(q) \in 1..Len(r) /\ s[j] = r[j - Len(q)]
        BY <1>1, <2>2
      <4> QED BY <1>1, <4>1 DEF ToSet
    <3> QED BY <3>1, <3>2
  <2>3. CASE i \notin 1..Len(q)
    <3>1. i - Len(q) \in 1..Len(r) /\ s[i] = r[i - Len(q)]
      BY <1>1, <2>3
    <3>2. j \notin 1..Len(q)
      BY <1>1, <1>2, <2>3
    <3>3. j - Len(q) \in 1..Len(r) /\ s[j] = r[j - Len(q)] /\ i - Len(q) < j - Len(q)
      BY <1>1, <1>2, <3>2
    <3> QED BY <1>1, <3>1, <3>3 DEF InOrder
  <2> QED BY <2>1, <2>2, <2>3
<1> QED BY <1>2 DEF InOrder, s

\* Without its first message a sequence keeps its order.
LEMMA TailKeeps ==
    ASSUME NEW S, NEW q \in Seq(S), q # <<>>
    PROVE  /\ ToSet(q) = {Head(q)} \cup ToSet(Tail(q))
           /\ OutOrder(q) => OutOrder(Tail(q)) /\ \A b \in ToSet(Tail(q)) : OutPair(Head(q), b)
           /\ InOrder(q) => InOrder(Tail(q)) /\ \A b \in ToSet(Tail(q)) : InPair(Head(q), b)
           /\ Followed(q) => /\ Followed(Tail(q))
                             /\ Head(q).msg = "merkleblock" =>
                                    \A t \in Head(q).txs : [msg |-> "tx", tx |-> t] \in ToSet(Tail(q))
<1> DEFINE r == Tail(q)
           n == Len(q)
<1>1. /\ n \in Nat \ {0} /\ DOMAIN q = 1..n /\ DOMAIN r = 1..(n - 1) /\ q[1] = Head(q)
      /\ \A i \in 1..(n - 1) : r[i] = q[i + 1]
  BY HeadTail
<1> HIDE DEF r, n
<1>2. /\ \A i \in 1..(n - 1) : i + 1 \in 1..n /\ i + 1 > 1
      /\ \A i \in 1..n : i = 1 \/ (i - 1 \in 1..(n - 1) /\ i = (i - 1) + 1)
  BY <1>1
<1>3. \A b \in ToSet(r) : \E j \in 1..n : j > 1 /\ b = q[j]
  BY <1>1, <1>2 DEF ToSet
<1>4. ToSet(q) = {Head(q)} \cup ToSet(r)
  <2>1. ASSUME NEW x \in ToSet(q) PROVE x \in {Head(q)} \cup ToSet(r)
    <3>1. PICK i \in 1..n : x = q[i]
      BY <1>1 DEF ToSet
    <3>2. CASE i = 1
      BY <1>1, <3>1, <3>2
    <3>3. CASE i # 1
      <4>1. i - 1 \in DOMAIN r /\ r[i - 1] = x
        BY <1>1, <1>2, <3>1, <3>3
      <4> QED BY <4>1 DEF ToSet
    <3> QED BY <3>2, <3>3
  <2>2. 1 \in DOMAIN q
    BY <1>1
  <2>3. Head(q) \in ToSet(q)
    BY <1>1, <2>2 DEF ToSet
  <2>4. ASSUME NEW x \in ToSet(r) PROVE x \in ToSet(q)
    BY <1>1, <1>3 DEF ToSet
  <2> QED BY <2>1, <2>3, <2>4
<1>5. ASSUME OutOrder(q)
      PROVE  OutOrder(r) /\ \A b \in ToSet(r) : OutPair(Head(q), b)
  <2>1. ASSUME NEW i \in DOMAIN r, NEW j \in DOMAIN r, i < j PROVE OutPair(r[i], r[j])
    <3>1. i + 1 \in DOMAIN q /\ j + 1 \in DOMAIN q /\ i + 1 < j + 1 /\ r[i] = q[i + 1] /\ r[j] = q[j + 1]
      BY <1>1, <1>2, <2>1
    <3> QED BY <1>5, <3>1 DEF OutOrder
  <2>2. ASSUME NEW b \in ToSet(r) PROVE OutPair(Head(q), b)
    <3>1. PICK j \in 1..n : j > 1 /\ b = q[j]
      BY <1>3
    <3>2. 1 \in DOMAIN q /\ j \in DOMAIN q /\ 1 < j
      BY <1>1, <3>1
    <3>3. OutPair(q[1], q[j])
      BY <1>5, <3>2 DEF OutOrder
    <3> QED BY <1>1, <3>1, <3>3
  <2> QED BY <2>1, <2>2 DEF OutOrder
<1>6. ASSUME InOrder(q)
      PROVE  InOrder(r) /\ \A b \in ToSet(r) : InPair(Head(q), b)
  <2>1. ASSUME NEW i \in DOMAIN r, NEW j \in DOMAIN r, i < j PROVE InPair(r[i], r[j])
    <3>1. i + 1 \in DOMAIN q /\ j + 1 \in DOMAIN q /\ i + 1 < j + 1 /\ r[i] = q[i + 1] /\ r[j] = q[j + 1]
      BY <1>1, <1>2, <2>1
    <3> QED BY <1>6, <3>1 DEF InOrder
  <2>2. ASSUME NEW b \in ToSet(r) PROVE InPair(Head(q), b)
    <3>1. PICK j \in 1..n : j > 1 /\ b = q[j]
      BY <1>3
    <3>2. 1 \in DOMAIN q /\ j \in DOMAIN q /\ 1 < j
      BY <1>1, <3>1
    <3>3. InPair(q[1], q[j])
      BY <1>6, <3>2 DEF InOrder
    <3> QED BY <1>1, <3>1, <3>3
  <2> QED BY <2>1, <2>2 DEF InOrder
<1>7. ASSUME Followed(q)
      PROVE  /\ Followed(r)
             /\ Head(q).msg = "merkleblock" => \A t \in Head(q).txs : [msg |-> "tx", tx |-> t] \in ToSet(r)
  <2>1. ASSUME NEW i \in DOMAIN r, r[i].msg = "merkleblock", NEW t \in r[i].txs
        PROVE  \E j \in DOMAIN r : j > i /\ r[j] = [msg |-> "tx", tx |-> t]
    <3>1. i + 1 \in DOMAIN q /\ r[i] = q[i + 1]
      BY <1>1, <1>2
    <3>2. PICK j \in DOMAIN q : j > i + 1 /\ q[j] = [msg |-> "tx", tx |-> t]
      BY <1>7, <2>1, <3>1 DEF Followed
    <3>3. j \in 1..n /\ i \in 1..(n - 1) /\ j # 1
      BY <1>1, <3>2
    <3>4. j - 1 \in DOMAIN r /\ r[j - 1] = q[j]
      BY <1>1, <1>2, <3>3
    <3>5. j - 1 > i
      BY <1>1, <3>2, <3>3
    <3> QED BY <3>2, <3>4, <3>5
  <2>2. ASSUME Head(q).msg = "merkleblock", NEW t \in Head(q).txs
        PROVE  [msg |-> "tx", tx |-> t] \in ToSet(r)
    <3>1. 1 \in DOMAIN q
      BY <1>1
    <3>2. PICK j \in DOMAIN q : j > 1 /\ q[j] = [msg |-> "tx", tx |-> t]
      BY <1>1, <1>7, <2>2, <3>1 DEF Followed
    <3>3. j \in 1..n /\ j # 1
      BY <1>1, <3>2
    <3>4. j - 1 \in DOMAIN r /\ r[j - 1] = q[j]
      BY <1>1, <1>2, <3>3
    <3> QED BY <3>2, <3>4 DEF ToSet
  <2> QED BY <2>1, <2>2 DEF Followed
<1> QED BY <1>4, <1>5, <1>6, <1>7 DEF r

(***************************************************************************)
(* What the calls on a peer do to a context that is in step.               *)
(***************************************************************************)
Same(c, d) == d.currentBlock = c.currentBlock /\ d.currentTx = c.currentTx /\ d.remote = c.remote

\* The pings and pongs of an unfinished filter update, by stage.
LEMMA FirstIsPending ==
    ASSUME NEW m
    PROVE  (First(m) => Pending(m)) /\ (Second(m) => Pending(m)) /\ (Pending(m) => First(m) \/ Second(m))
  BY DEF First, Second, Pending

\* A message that is not a transaction has been taken.
LEMMA TakeKeeps ==
    ASSUME NEW n \in Nat, NEW c \in Contexts(n), NEW d \in Contexts(n), NEW p, NEW f, NEW R, InStep(c, p, f, R),
           c.in # <<>>, Head(c.in).msg # "tx", d.in = Tail(c.in), d.out = c.out, d.needsUpdate = c.needsUpdate, Same(c, d)
    PROVE  InStep(d, p, f, R) /\ (Carrier(Head(c.in)) => NoSecond(d))
<1>1. c.in \in Seq(Replies(n))
  BY DEF Contexts
<1>2. /\ ToSet(c.in) = {Head(c.in)} \cup ToSet(d.in) /\ InOrder(d.in) /\ Followed(d.in)
  BY <1>1, TailKeeps DEF InStep
<1>3. Crossing(d) /\ OwnPings(d, p)
  BY <1>2 DEF InStep, Crossing, OwnPings
<1>4. SecondWaits(d, f) /\ (Carrier(Head(c.in)) => NoSecond(d))
  BY <1>2 DEF InStep, SecondWaits, NoSecond, Same
<1>5. PendingWaits(d)
  BY <1>2 DEF InStep, PendingWaits, NoPending
<1>6. BlockWaits(d)
  <2>1. \A t : [msg |-> "tx", tx |-> t] # Head(c.in)
    OBVIOUS
  <2> QED BY <1>2, <2>1 DEF InStep, BlockWaits, Same
<1>7. FilterAgrees(d, f, R)
  BY <1>2 DEF InStep, FilterAgrees, Same
<1> QED BY <1>2, <1>3, <1>4, <1>5, <1>6, <1>7 DEF InStep

\* A transaction has been taken and registered.
LEMMA TxKeeps ==
    ASSUME NEW n \in Nat, NEW c \in Contexts(n), NEW d \in Contexts(n), NEW p, NEW f, NEW R, InStep(c, p, f, R),
           c.in # <<>>, Head(c.in).msg = "tx", NEW t, t = Head(c.in).tx, d.in = Tail(c.in), d.out = c.out,
           d.needsUpdate = c.needsUpdate, d.remote = c.remote, d.currentTx = c.currentTx \ {t},
           d.currentBlock = 0 \/ (d.currentBlock = c.currentBlock /\ d.currentTx # {})
    PROVE  InStep(d, p, f, R \cup {t}) /\ NoSecond(d)
<1>1. c.in \in Seq(Replies(n))
  BY DEF Contexts
<1>2. /\ ToSet(c.in) = {Head(c.in)} \cup ToSet(d.in) /\ InOrder(d.in) /\ Followed(d.in)
  BY <1>1, TailKeeps DEF InStep
<1>3. Crossing(d) /\ OwnPings(d, p)
  BY <1>2 DEF InStep, Crossing, OwnPings
<1>4. NoSecond(d)
  BY <1>2 DEF InStep, SecondWaits, NoSecond, Carrier
<1>5. PendingWaits(d)
  BY <1>2 DEF InStep, PendingWaits, NoPending
<1>6. BlockWaits(d)
  <2>1. ASSUME NEW u, u # t PROVE [msg |-> "tx", tx |-> u] # Head(c.in)
    BY <2>1
  <2> QED BY <1>2, <2>1 DEF InStep, BlockWaits
<1>7. FilterAgrees(d, f, R \cup {t})
  <2> SUFFICES ASSUME f # 0
               PROVE  /\ d.currentBlock # 0 => Matched(d.currentBlock, f) \subseteq (R \cup {t}) \cup d.currentTx
                      /\ \A m \in ToSet(d.in) : /\ m.msg = "merkleblock" => m.txs = Matched(m.block, f)
                                                /\ m.msg = "relayed" => Matched(m.block, f) \subseteq R \cup {t}
                      /\ \A m \in ToSet(d.out) : m.msg = "filterload" => m.filter = f
                      /\ (\A m \in ToSet(d.out) : m.msg # "filterload") => d.remote = f
    BY DEF FilterAgrees
  <2>1. d.currentBlock # 0 => Matched(d.currentBlock, f) \subseteq (R \cup {t}) \cup d.currentTx
    BY DEF InStep, FilterAgrees
  <2>2. \A m \in ToSet(d.in) : /\ m.msg = "merkleblock" => m.txs = Matched(m.block, f)
                               /\ m.msg = "relayed" => Matched(m.block, f) \subseteq R \cup {t}
    BY <1>2 DEF InStep, FilterAgrees
  <2> QED BY <2>1, <2>2 DEF InStep, FilterAgrees
<1> QED BY <1>2, <1>3, <1>4, <1>5, <1>6, <1>7 DEF InStep, SecondWaits

\* Block h goes on.
LEMMA RelayKeeps ==
    ASSUME NEW n \in Nat, NEW c \in Contexts(n), NEW p, NEW f, NEW R, InStep(c, p, f, R), NoSecond(c),
           NEW h \in 1..n, f # 0 => Matched(h, f) \subseteq R
    PROVE  InStep(Relay(c, h), p, f, R)
<1> DEFINE m == [msg |-> "relayed", block |-> h]
           d == Relay(c, h)
<1>1. c.in \in Seq(Replies(n)) /\ m \in Replies(n)
  BY DEF Contexts, Replies
<1>2. /\ d.in = <<m>> \o c.in /\ d.out = c.out /\ d.needsUpdate = c.needsUpdate /\ Same(c, d)
  BY DEF Relay, Contexts, Same
<1>3. m.msg = "relayed" /\ m.block = h /\ (\A t : [msg |-> "tx", tx |-> t] # m) /\ ~First(m) /\ ~Second(m) /\ ~Pending(m)
  BY DEF First, Second, Pending
<1> HIDE DEF d, m
<1>4. <<m>> \in Seq(Replies(n)) /\ ToSet(<<m>>) = {m} /\ InOrder(<<m>>) /\ Followed(<<m>>)
  BY <1>1, <1>3, OneElement
<1>5. ToSet(d.in) = {m} \cup ToSet(c.in)
  BY <1>1, <1>2, MoreElements
<1>6. InOrder(d.in)
  <2>1. \A a \in ToSet(<<m>>), b \in ToSet(c.in) : InPair(a, b)
    BY <1>3, <1>4 DEF InPair
  <2> QED BY <1>1, <1>2, <1>4, <2>1, InJoin DEF InStep
<1>7. Followed(d.in)
  BY <1>1, <1>2, <1>4, JoinFollowed DEF InStep
<1>8. Crossing(d) /\ OwnPings(d, p)
  BY <1>2, <1>3, <1>5 DEF InStep, Crossing, OwnPings, CrossPair
<1>9. SecondWaits(d, f)
  BY <1>2, <1>3, <1>5 DEF SecondWaits, NoSecond
<1>10. PendingWaits(d)
  BY <1>2, <1>3, <1>5 DEF InStep, PendingWaits, NoPending
<1>11. BlockWaits(d)
  BY <1>2, <1>3, <1>5 DEF InStep, BlockWaits, Same
<1>12. FilterAgrees(d, f, R)
  BY <1>2, <1>3, <1>5 DEF InStep, FilterAgrees, Same
<1>13. InStep(d, p, f, R)
  BY <1>2, <1>6, <1>7, <1>8, <1>9, <1>10, <1>11, <1>12 DEF InStep
<1> QED BY <1>13 DEF d

\* A request is sent that is not part of a filter update; blocks are not requested while one is pending.
LEMMA SendKeeps ==
    ASSUME NEW n \in Nat, NEW c \in Contexts(n), NEW p, NEW f, NEW R, InStep(c, p, f, R), c.status = "connected",
           NEW m \in Requests(n), m.msg # "filterload", ~Pending(m), m.msg = "ping" => m.peer = p,
           m.msg = "getdata" => NoPending(c)
    PROVE  InStep(Send(c, m), p, f, R) /\ Send(c, m) \in Contexts(n) /\ Send(c, m).status = "connected"
           /\ (NoPending(c) => NoPending(Send(c, m))) /\ (NoSecond(c) => NoSecond(Send(c, m)))
<1> DEFINE d == Send(c, m)
<1>1. c.out \in Seq(Requests(n))
  BY DEF Contexts
<1>2. /\ d.out = Append(c.out, m) /\ d.in = c.in /\ d.needsUpdate = c.needsUpdate /\ Same(c, d) /\ d.status = "connected"
  BY DEF Send, Contexts, Same
<1>3. d \in Contexts(n)
  BY SendType
<1> HIDE DEF d
<1>4. <<m>> \in Seq(Requests(n)) /\ ToSet(<<m>>) = {m} /\ OutOrder(<<m>>)
  BY OneElement
<1>5. d.out = c.out \o <<m>>
  BY <1>1, <1>2, AppendIsJoin
<1>6. ToSet(d.out) = ToSet(c.out) \cup {m}
  BY <1>1, <1>5, MoreElements
<1>7. ~First(m) /\ ~Second(m)
  BY FirstIsPending
<1>8. OutOrder(d.out)
  <2>1. \A a \in ToSet(c.out), b \in ToSet(<<m>>) : OutPair(a, b)
    BY <1>4, FirstIsPending DEF OutPair, NoPending
  <2> QED BY <1>1, <1>4, <1>5, <2>1, OutJoin DEF InStep
<1>9. Crossing(d) /\ OwnPings(d, p)
  BY <1>2, <1>6, FirstIsPending DEF InStep, Crossing, OwnPings, CrossPair, NoPending
<1>10. (NoPending(c) => NoPending(d)) /\ (NoSecond(c) => NoSecond(d)) /\ (NoPending(c) => NoSecond(c))
  BY <1>2, <1>6, <1>7, FirstIsPending DEF NoPending, NoSecond
<1>11. SecondWaits(d, f)
  <2>1. CASE m.msg = "getdata"
    BY <1>10, <2>1 DEF SecondWaits
  <2>2. CASE m.msg # "getdata"
    BY <1>2, <1>6, <1>10, <2>2 DEF InStep, SecondWaits, Same
  <2> QED BY <2>1, <2>2
<1>12. PendingWaits(d)
  BY <1>2, <1>10 DEF InStep, PendingWaits
<1>13. BlockWaits(d)
  BY <1>2 DEF InStep, BlockWaits, Same
<1>14. FilterAgrees(d, f, R)
  BY <1>2, <1>6 DEF InStep, FilterAgrees, Same
<1>15. InStep(d, p, f, R)
  BY <1>2, <1>8, <1>9, <1>11, <1>12, <1>13, <1>14 DEF InStep
<1> QED BY <1>2, <1>3, <1>10, <1>15 DEF d

\* The first ping of an update is sent.
LEMMA StartKeeps ==
    ASSUME NEW n \in Nat, NEW c \in Contexts(n), NEW p \in Peers, NEW f, NEW R, InStep(c, p, f, R),
           c.status = "connected", ~c.needsUpdate, NEW d, d = SendPing([c EXCEPT !.needsUpdate = TRUE], "updateFilterPingDone", p)
    PROVE  InStep(d, p, f, R) /\ d \in Contexts(n) /\ d.status = "connected" /\ d.needsUpdate /\ NoSecond(d)
<1> DEFINE m == [msg |-> "ping", done |-> "updateFilterPingDone", peer |-> p]
           e == [c EXCEPT !.needsUpdate = TRUE]
<1>1. c.out \in Seq(Requests(n)) /\ m \in Requests(n) /\ e \in Contexts(n)
  BY DEF Contexts, Requests, Callbacks
<1>2. /\ e.out = c.out /\ e.in = c.in /\ e.needsUpdate /\ Same(c, e) /\ e.status = "connected"
  BY DEF Contexts, Same
<1>3. m.msg = "ping" /\ m.peer = p /\ First(m) /\ ~Second(m)
  BY DEF First, Second
<1> HIDE DEF e
<1>4. /\ d.out = Append(c.out, m) /\ d.in = c.in /\ d.needsUpdate /\ Same(c, d) /\ d.status = "connected"
  BY <1>1, <1>2 DEF SendPing, Send, Contexts, Same, e
<1>5. d \in Contexts(n)
  BY <1>1, SendType DEF SendPing, e
<1> HIDE DEF m
<1>6. <<m>> \in Seq(Requests(n)) /\ ToSet(<<m>>) = {m} /\ OutOrder(<<m>>)
  BY <1>1, OneElement
<1>7. d.out = c.out \o <<m>>
  BY <1>1, <1>4, AppendIsJoin
<1>8. ToSet(d.out) = ToSet(c.out) \cup {m}
  <2>1. c.out \in Seq(Requests(n)) /\ m \in Requests(n)
    BY <1>1
  <2>2. ToSet(c.out \o <<m>>) = ToSet(c.out) \cup {m}
    BY <2>1, MoreElements
  <2> QED BY <1>7, <2>2
<1>9. NoPending(c) /\ f # 0
  BY DEF InStep, PendingWaits
<1>10. OutOrder(d.out)
  <2>1. \A a \in ToSet(c.out), b \in ToSet(<<m>>) : OutPair(a, b)
    BY <1>3, <1>6, <1>9, FirstIsPending DEF OutPair, NoPending
  <2> QED BY <1>1, <1>6, <1>7, <2>1, OutJoin DEF InStep
<1>11. Crossing(d) /\ OwnPings(d, p)
  BY <1>3, <1>4, <1>8, <1>9, FirstIsPending DEF InStep, Crossing, OwnPings, CrossPair, NoPending
<1>12. NoSecond(d)
  BY <1>3, <1>4, <1>8, <1>9, FirstIsPending DEF NoPending, NoSecond
<1>13. BlockWaits(d)
  BY <1>4 DEF InStep, BlockWaits, Same
<1>14. FilterAgrees(d, f, R)
  BY <1>3, <1>4, <1>8 DEF InStep, FilterAgrees, Same
<1> QED BY <1>4, <1>5, <1>10, <1>11, <1>12, <1>13, <1>14 DEF InStep, SecondWaits, PendingWaits

\* manager->bloomFilter is dropped while an update is under way.
LEMMA DropKeeps ==
    ASSUME NEW c, NEW p, NEW f, NEW R, InStep(c, p, f, R), c.needsUpdate, NoSecond(c)
    PROVE  InStep(c, p, 0, R)
  BY DEF InStep, SecondWaits, FilterAgrees

\* Requests to a connected peer keep it in step with the filter.
LEMMA RequestsKeep ==
    ASSUME NEW n \in Nat, NEW c \in Contexts(n), NEW p \in Peers, NEW f, NEW R, InStep(c, p, f, R), c.status = "connected"
    PROVE  /\ \A h \in 0..n : LET d == SendGetblocks(c, h)
                              IN  InStep(d, p, f, R) /\ d \in Contexts(n) /\ d.status = "connected"
           /\ \A b \in Seq(1..n) : LET d == SendGetdata(c, b)
                                   IN  (b # <<>> => NoPending(c)) => InStep(d, p, f, R) /\ d \in Contexts(n) /\ d.status = "connected"
           /\ LET d == SendPing(c, "updateFilterRerequestDone", p)
              IN  InStep(d, p, f, R) /\ d \in Contexts(n) /\ d.status = "connected"
<1>1. ASSUME NEW h \in 0..n
      PROVE  LET d == SendGetblocks(c, h) IN InStep(d, p, f, R) /\ d \in Contexts(n) /\ d.status = "connected"
  <2> DEFINE m == [msg |-> "getblocks", from |-> h]
  <2>1. m \in Requests(n) /\ m.msg = "getblocks" /\ ~Pending(m)
    BY RequestTypes DEF Pending
  <2> HIDE DEF m
  <2>2. InStep(Send(c, m), p, f, R) /\ Send(c, m) \in Contexts(n) /\ Send(c, m).status = "connected"
    BY <2>1, SendKeeps
  <2> QED BY <2>2 DEF SendGetblocks, m
<1>2. ASSUME NEW b \in Seq(1..n), b # <<>> => NoPending(c)
      PROVE  LET d == SendGetdata(c, b) IN InStep(d, p, f, R) /\ d \in Contexts(n) /\ d.status = "connected"
  <2> DEFINE m == [msg |-> "getdata", blocks |-> b]
  <2>1. m \in Requests(n) /\ m.msg = "getdata" /\ ~Pending(m)
    BY RequestTypes DEF Pending
  <2> HIDE DEF m
  <2>2. CASE b # <<>>
    <3>1. InStep(Send(c, m), p, f, R) /\ Send(c, m) \in Contexts(n) /\ Send(c, m).status = "connected"
      BY <1>2, <2>1, <2>2, SendKeeps
    <3> QED BY <2>2, <3>1 DEF SendGetdata, m
  <2>3. CASE b = <<>>
    BY <2>3 DEF SendGetdata
  <2> QED BY <2>2, <2>3
<1>3. LET d == SendPing(c, "updateFilterRerequestDone", p) IN InStep(d, p, f, R) /\ d \in Contexts(n) /\ d.status = "connected"
  <2> DEFINE m == [msg |-> "ping", done |-> "updateFilterRerequestDone", peer |-> p]
  <2>1. m \in Requests(n) /\ m.msg = "ping" /\ m.peer = p /\ ~Pending(m)
    BY RequestTypes DEF Pending, Callbacks
  <2> HIDE DEF m
  <2>2. InStep(Send(c, m), p, f, R) /\ Send(c, m) \in Contexts(n) /\ Send(c, m).status = "connected"
    BY <2>1, SendKeeps
  <2> QED BY <2>2 DEF SendPing, m
<1> QED BY <1>1, <1>2, <1>3

\* The pong of the first ping: the new filter and the second ping are sent.
LEMMA SetKeeps ==
    ASSUME NEW n \in Nat, NEW c \in Contexts(n), NEW e \in Contexts(n), NEW p \in Peers, NEW f, NEW R, InStep(c, p, f, R),
           c.in # <<>>, Head(c.in).msg = "pong", Head(c.in).done = "updateFilterPingDone",
           e.in = Tail(c.in), e.out = c.out, e.needsUpdate = c.needsUpdate, Same(c, e), e.status = "connected",
           NEW g \in Nat \ {0}, NEW d, d = SendPing(SendFilterload(e, g), "updateFilterLoadDone", p)
    PROVE  InStep(d, p, g, R) /\ d.status = "connected"
<1> DEFINE a == [msg |-> "filterload", filter |-> g]
           b == [msg |-> "ping", done |-> "updateFilterLoadDone", peer |-> p]
           l == SendFilterload(e, g)
           s == Send(e, a)
<1>1. c.in \in Seq(Replies(n)) /\ c.out \in Seq(Requests(n)) /\ a \in Requests(n) /\ b \in Requests(n)
  BY RequestTypes DEF Contexts, Callbacks
<1>2. a.msg = "filterload" /\ a.filter = g /\ b.msg = "ping" /\ b.peer = p /\ Second(b) /\ Pending(b) /\ ~Pending(a) /\ ~First(a) /\ ~First(b) /\ ~Second(a)
  BY DEF First, Second, Pending
<1> HIDE DEF a, b
<1>3. /\ s.out = Append(c.out, a) /\ s.in = Tail(c.in) /\ s.needsUpdate = c.needsUpdate /\ Same(c, s)
      /\ s.status = "connected" /\ s \in Contexts(n)
  BY <1>1, SendType DEF Send, Contexts, Same
<1> HIDE DEF s
<1>4. /\ l.out = Append(c.out, a) /\ l.in = Tail(c.in) /\ l.needsUpdate = c.needsUpdate /\ Same(c, l)
      /\ l.status = "connected" /\ l \in Contexts(n)
  <2>1. l = [s EXCEPT !.sentFilter = TRUE]
    BY DEF SendFilterload, s, a
  <2> HIDE DEF l
  <2> QED BY <1>3, <2>1 DEF Contexts, Same
<1> HIDE DEF l
<1>5. /\ d.out = Append(Append(c.out, a), b) /\ d.in = Tail(c.in) /\ d.needsUpdate = c.needsUpdate /\ Same(c, d)
      /\ d.status = "connected"
  <2>1. d = Send(l, b)
    BY DEF SendPing, b, l
  <2> QED BY <1>4, <2>1, ZenonT(60) DEF Send, Contexts, Same
<1> DEFINE q == c.out \o <<a>>
<1>6. q \in Seq(Requests(n)) /\ ToSet(q) = ToSet(c.out) \cup {a} /\ Append(c.out, a) = q
  <2>1. <<a>> \in Seq(Requests(n))
    BY <1>1, OneElement
  <2>2. q \in Seq(Requests(n))
    BY <1>1, <2>1
  <2>3. ToSet(q) = ToSet(c.out) \cup {a}
    BY <1>1, MoreElements
  <2>4. Append(c.out, a) = q
    BY <1>1, AppendIsJoin
  <2> QED BY <2>2, <2>3, <2>4
<1>7. d.out = q \o <<b>> /\ ToSet(d.out) = ToSet(q) \cup {b}
  <2> HIDE DEF q
  <2>1. Append(q, b) = q \o <<b>> /\ ToSet(q \o <<b>>) = ToSet(q) \cup {b}
    BY <1>1, <1>6, MoreElements, AppendIsJoin
  <2> QED BY <1>5, <1>6, <2>1
<1>8. First(Head(c.in)) /\ Pending(Head(c.in))
  BY DEF First, Pending
<1>9. /\ ToSet(c.in) = {Head(c.in)} \cup ToSet(d.in) /\ InOrder(d.in) /\ Followed(d.in)
      /\ \A x \in ToSet(d.in) : InPair(Head(c.in), x)
  BY <1>1, <1>5, TailKeeps DEF InStep
<1>10. \A x \in ToSet(d.in) : ~Carrier(x) /\ ~Pending(x)
  BY <1>8, <1>9 DEF InPair
<1>11. \A x \in ToSet(c.out) : x.msg \notin {"getdata", "filterload"} /\ ~Pending(x)
  BY <1>8, <1>9 DEF InStep, Crossing, CrossPair
<1>12. OutOrder(q)
  <2>1. <<a>> \in Seq(Requests(n)) /\ ToSet(<<a>>) = {a} /\ OutOrder(<<a>>)
    BY <1>1, OneElement
  <2>2. \A x \in ToSet(c.out), y \in ToSet(<<a>>) : OutPair(x, y)
    BY <1>2, <1>11, <2>1, FirstIsPending DEF OutPair
  <2> QED BY <1>1, <2>1, <2>2, OutJoin DEF InStep
<1>13. OutOrder(d.out)
  <2>1. <<b>> \in Seq(Requests(n)) /\ ToSet(<<b>>) = {b} /\ OutOrder(<<b>>)
    BY <1>1, OneElement
  <2>2. \A x \in ToSet(q), y \in ToSet(<<b>>) : OutPair(x, y)
    <3> HIDE DEF q
    <3> QED BY <1>2, <1>6, <1>11, <2>1, FirstIsPending DEF OutPair
  <2> HIDE DEF q
  <2>3. q \in Seq(Requests(n))
    BY <1>6
  <2>4. OutOrder(q \o <<b>>)
    BY <1>12, <2>1, <2>2, <2>3, OutJoin
  <2> QED BY <1>7, <2>4
<1> HIDE DEF q
<1>14. d.currentBlock = 0
  <2> SUFFICES ASSUME d.currentBlock # 0 PROVE FALSE
    OBVIOUS
  <2>1. PICK t : [msg |-> "tx", tx |-> t] \in ToSet(c.in)
    BY <1>5 DEF InStep, BlockWaits, Same
  <2>2. [msg |-> "tx", tx |-> t] # Head(c.in)
    OBVIOUS
  <2>3. Carrier([msg |-> "tx", tx |-> t])
    BY DEF Carrier
  <2> QED BY <1>9, <1>10, <2>1, <2>2, <2>3
<1>15. Crossing(d)
  BY <1>10, FirstIsPending DEF Crossing, CrossPair
<1>16. OwnPings(d, p)
  BY <1>2, <1>5, <1>6, <1>7, <1>9 DEF InStep, OwnPings
<1>17. SecondWaits(d, g)
  BY <1>2, <1>6, <1>7, <1>10, <1>11, <1>14 DEF SecondWaits
<1>18. PendingWaits(d)
  <2>1. c.needsUpdate
    BY <1>8, <1>9 DEF InStep, PendingWaits, NoPending
  <2> QED BY <1>5, <2>1 DEF PendingWaits
<1>19. BlockWaits(d)
  BY <1>14 DEF BlockWaits
<1>20. FilterAgrees(d, g, R)
  <2>1. \A m \in ToSet(d.in) : m.msg # "merkleblock" /\ m.msg # "relayed"
    BY <1>10 DEF Carrier
  <2>2. \A m \in ToSet(d.out) : m.msg = "filterload" => m.filter = g
    BY <1>2, <1>6, <1>7, <1>11
  <2>3. a \in ToSet(d.out)
    BY <1>6, <1>7
  <2> QED BY <1>2, <1>14, <2>1, <2>2, <2>3 DEF FilterAgrees
<1> QED BY <1>5, <1>9, <1>13, <1>15, <1>16, <1>17, <1>18, <1>19, <1>20 DEF InStep

\* The pong of the second ping: the update has ended.
LEMMA ResumeKeeps ==
    ASSUME NEW n \in Nat, NEW c \in Contexts(n), NEW d \in Contexts(n), NEW p, NEW f, NEW R, InStep(c, p, f, R),
           c.in # <<>>, Head(c.in).msg = "pong", Head(c.in).done = "updateFilterLoadDone",
           d.in = Tail(c.in), d.out = c.out, Same(c, d)
    PROVE  InStep(d, p, f, R) /\ NoPending(d)
<1>1. c.in \in Seq(Replies(n))
  BY DEF Contexts
<1>2. /\ ToSet(c.in) = {Head(c.in)} \cup ToSet(d.in) /\ InOrder(d.in) /\ Followed(d.in)
      /\ \A x \in ToSet(d.in) : InPair(Head(c.in), x)
  BY <1>1, TailKeeps DEF InStep
<1>3. Second(Head(c.in)) /\ Pending(Head(c.in))
  BY DEF Second, Pending
<1>4. NoPending(d)
  BY <1>2, <1>3 DEF InStep, Crossing, CrossPair, InPair, NoPending
<1>5. NoSecond(d)
  BY <1>4, FirstIsPending DEF NoPending, NoSecond
<1>6. f # 0
  BY <1>2, <1>3 DEF InStep, SecondWaits, NoSecond
<1>7. Crossing(d) /\ OwnPings(d, p)
  BY <1>2 DEF InStep, Crossing, OwnPings
<1>8. BlockWaits(d)
  <2>1. \A t : [msg |-> "tx", tx |-> t] # Head(c.in)
    OBVIOUS
  <2> QED BY <1>2, <2>1 DEF InStep, BlockWaits, Same
<1>9. FilterAgrees(d, f, R)
  BY <1>2 DEF InStep, FilterAgrees, Same
<1> QED BY <1>2, <1>4, <1>5, <1>6, <1>7, <1>8, <1>9 DEF InStep, SecondWaits, PendingWaits

\* What a request m can be answered with.
Answer(c, m, r, n) ==
    /\ m.msg \in {"getblocks", "getdata", "filterload", "ping"}
    /\ m.msg = "getblocks" => \A x \in ToSet(r) : x.msg = "inv"
    /\ m.msg = "getdata" => r \in Answers(n, c.remote)
    /\ m.msg = "ping" => r = <<[msg |-> "pong", done |-> m.done, peer |-> m.peer]>>
    /\ m.msg = "filterload" => r = <<>>

\* Answers keep the order of what is in flight.
LEMMA AnswerKeeps ==
    ASSUME NEW n \in Nat, NEW c \in Contexts(n), NEW p, NEW f, NEW R, InStep(c, p, f, R), c.out # <<>>,
           NEW m, m = Head(c.out), NEW r \in Seq(Replies(n)), Answer(c, m, r, n)
    PROVE  /\ InOrder(r) /\ Followed(r)
           /\ \A a \in ToSet(c.in), b \in ToSet(r) : InPair(a, b)
           /\ \A a \in ToSet(r), b \in ToSet(Tail(c.out)) : CrossPair(a, b)
           /\ \A x \in ToSet(r) : /\ Pending(x) => Pending(m)
                                  /\ Second(x) => Second(m)
                                  /\ Carrier(x) => m.msg = "getdata"
                                  /\ x.msg # "relayed"
                                  /\ f # 0 /\ x.msg = "merkleblock" => x.txs = Matched(x.block, f)
                                  /\ x.msg = "pong" => x.peer = p
<1>1. c.out \in Seq(Requests(n)) /\ c.in \in Seq(Replies(n))
  BY DEF Contexts
<1>2. /\ ToSet(c.out) = {m} \cup ToSet(Tail(c.out)) /\ \A b \in ToSet(Tail(c.out)) : OutPair(m, b)
  BY <1>1, TailKeeps DEF InStep
<1>3. m \in ToSet(c.out)
  BY <1>2
<1>4. CASE m.msg = "getblocks" \/ m.msg = "filterload"
  <2>1. \A x \in ToSet(r) : x.msg = "inv"
    <3>1. CASE m.msg = "getblocks"
      BY <3>1 DEF Answer
    <3>2. CASE m.msg = "filterload"
      BY <3>2 DEF Answer, ToSet
    <3> QED BY <1>4, <3>1, <3>2
  <2>2. \A x \in ToSet(r) : ~First(x) /\ ~Second(x) /\ ~Pending(x) /\ ~Carrier(x)
    BY <2>1 DEF First, Second, Pending, Carrier
  <2>3. \A i \in DOMAIN r : r[i] \in ToSet(r)
    BY DEF ToSet
  <2>4. InOrder(r)
    BY <2>2, <2>3 DEF InOrder, InPair
  <2>5. Followed(r)
    BY <2>1, <2>3 DEF Followed
  <2>6. \A a \in ToSet(c.in), b \in ToSet(r) : InPair(a, b)
    BY <2>2 DEF InPair
  <2>7. \A a \in ToSet(r), b \in ToSet(Tail(c.out)) : CrossPair(a, b)
    BY <2>2 DEF CrossPair
  <2> QED BY <2>1, <2>2, <2>4, <2>5, <2>6, <2>7
<1>5. CASE m.msg = "getdata"
  <2>1. r \in Answers(n, c.remote)
    BY <1>5 DEF Answer
  <2>2. \A x \in ToSet(r) : x.msg \in {"merkleblock", "tx"} /\ (x.msg = "merkleblock" => x.txs = Matched(x.block, c.remote))
    BY <2>1 DEF Answers, ToSet
  <2>3. \A x \in ToSet(r) : ~First(x) /\ ~Second(x) /\ ~Pending(x)
    BY <2>2 DEF First, Second, Pending
  <2>4. \A i \in DOMAIN r : r[i] \in ToSet(r)
    BY DEF ToSet
  <2>5. InOrder(r) /\ Followed(r)
    BY <2>1, <2>3, <2>4 DEF InOrder, InPair, Answers
  <2>6. \A a \in ToSet(c.in) : ~First(a)
    BY <1>3, <1>5 DEF InStep, Crossing, CrossPair
  <2>7. \A a \in ToSet(c.in), b \in ToSet(r) : InPair(a, b)
    BY <2>3, <2>6 DEF InPair
  <2>8. \A a \in ToSet(r), b \in ToSet(Tail(c.out)) : CrossPair(a, b)
    BY <2>3 DEF CrossPair
  <2>9. f # 0 => c.remote = f
    <3>1. \A b \in ToSet(c.out) : b.msg # "filterload"
      BY <1>2, <1>5 DEF OutPair
    <3> QED BY <3>1 DEF InStep, FilterAgrees
  <2>10. \A x \in ToSet(r) : f # 0 /\ x.msg = "merkleblock" => x.txs = Matched(x.block, f)
    BY <2>2, <2>9
  <2> QED BY <1>5, <2>2, <2>3, <2>5, <2>7, <2>8, <2>10
<1>6. CASE m.msg = "ping"
  <2> DEFINE x == [msg |-> "pong", done |-> m.done, peer |-> m.peer]
  <2>1. r = <<x>>
    BY <1>6 DEF Answer
  <2>2. /\ x.msg = "pong" /\ x.peer = m.peer /\ ~Carrier(x)
        /\ (First(x) <=> First(m)) /\ (Second(x) <=> Second(m)) /\ (Pending(x) <=> Pending(m))
    BY <1>6 DEF First, Second, Pending, Carrier
  <2> HIDE DEF x
  <2>3. ToSet(r) = {x} /\ InOrder(r) /\ Followed(r)
    BY <2>1, <2>2, OneElement
  <2>4. m.peer = p
    BY <1>3, <1>6 DEF InStep, OwnPings
  <2>5. \A a \in ToSet(c.in), b \in ToSet(r) : InPair(a, b)
    BY <1>3, <2>2, <2>3 DEF InStep, Crossing, CrossPair, InPair
  <2>6. \A a \in ToSet(r), b \in ToSet(Tail(c.out)) : CrossPair(a, b)
    BY <1>2, <2>2, <2>3 DEF OutPair, CrossPair
  <2> QED BY <2>2, <2>3, <2>4, <2>5, <2>6
<1> QED BY <1>4, <1>5, <1>6 DEF Answer

\* The answer of a remote peer keeps it in step with the filter.
LEMMA ServeKeeps ==
    ASSUME NEW n \in Nat, NEW c \in Contexts(n), NEW d \in Contexts(n), NEW p, NEW f, NEW R, InStep(c, p, f, R), c.out # <<>>,
           NEW m, m = Head(c.out), NEW r \in Seq(Replies(n)), Answer(c, m, r, n),
           d.out = Tail(c.out), d.in = c.in \o r, d.needsUpdate = c.needsUpdate, d.currentBlock = c.currentBlock,
           d.currentTx = c.currentTx, d.remote = IF m.msg = "filterload" THEN m.filter ELSE c.remote
    PROVE  InStep(d, p, f, R)
<1>1. c.out \in Seq(Requests(n)) /\ c.in \in Seq(Replies(n))
  BY DEF Contexts
<1>2. /\ ToSet(c.out) = {m} \cup ToSet(d.out) /\ OutOrder(d.out)
  BY <1>1, TailKeeps DEF InStep
<1>3. ToSet(d.in) = ToSet(c.in) \cup ToSet(r)
  BY <1>1, Elements
<1>4. /\ InOrder(r) /\ Followed(r)
      /\ \A a \in ToSet(c.in), b \in ToSet(r) : InPair(a, b)
      /\ \A a \in ToSet(r), b \in ToSet(d.out) : CrossPair(a, b)
      /\ \A x \in ToSet(r) : /\ Pending(x) => Pending(m)
                             /\ Second(x) => Second(m)
                             /\ Carrier(x) => m.msg = "getdata"
                             /\ x.msg # "relayed"
                             /\ f # 0 /\ x.msg = "merkleblock" => x.txs = Matched(x.block, f)
                             /\ x.msg = "pong" => x.peer = p
  BY AnswerKeeps
<1>5. InOrder(d.in)
  BY <1>1, <1>4, InJoin DEF InStep
<1>6. Followed(d.in)
  BY <1>1, <1>4, JoinFollowed DEF InStep
<1>7. Crossing(d) /\ OwnPings(d, p)
  BY <1>2, <1>3, <1>4 DEF InStep, Crossing, OwnPings
<1>8. SecondWaits(d, f)
  <2>1. CASE NoSecond(c)
    BY <1>2, <1>3, <1>4, <2>1 DEF SecondWaits, NoSecond
  <2>2. CASE ~NoSecond(c)
    <3>1. f # 0 /\ c.currentBlock = 0 /\ (\A x \in ToSet(c.in) : ~Carrier(x)) /\ (\A x \in ToSet(c.out) : x.msg # "getdata")
      BY <2>2 DEF InStep, SecondWaits
    <3>2. (\A x \in ToSet(d.in) : ~Carrier(x)) /\ (\A x \in ToSet(d.out) : x.msg # "getdata")
      BY <1>2, <1>3, <1>4, <3>1
    <3> QED BY <3>1, <3>2 DEF SecondWaits
  <2> QED BY <2>1, <2>2
<1>9. PendingWaits(d)
  BY <1>2, <1>3, <1>4 DEF InStep, PendingWaits, NoPending
<1>10. BlockWaits(d)
  BY <1>3 DEF InStep, BlockWaits
<1>11. FilterAgrees(d, f, R)
  <2> SUFFICES ASSUME f # 0
               PROVE  /\ d.currentBlock # 0 => Matched(d.currentBlock, f) \subseteq R \cup d.currentTx
                      /\ \A x \in ToSet(d.in) : /\ x.msg = "merkleblock" => x.txs = Matched(x.block, f)
                                                /\ x.msg = "relayed" => Matched(x.block, f) \subseteq R
                      /\ \A x \in ToSet(d.out) : x.msg = "filterload" => x.filter = f
                      /\ (\A x \in ToSet(d.out) : x.msg # "filterload") => d.remote = f
    BY DEF FilterAgrees
  <2>1. \A x \in ToSet(d.in) : /\ x.msg = "merkleblock" => x.txs = Matched(x.block, f)
                               /\ x.msg = "relayed" => Matched(x.block, f) \subseteq R
    BY <1>3, <1>4 DEF InStep, FilterAgrees
  <2>2. \A x \in ToSet(d.out) : x.msg = "filterload" => x.filter = f
    BY <1>2 DEF InStep, FilterAgrees
  <2>3. (\A x \in ToSet(d.out) : x.msg # "filterload") => d.remote = f
    BY <1>2 DEF InStep, FilterAgrees
  <2>4. d.currentBlock # 0 => Matched(d.currentBlock, f) \subseteq R \cup d.currentTx
    BY DEF InStep, FilterAgrees
  <2> QED BY <2>1, <2>2, <2>3, <2>4
<1> QED BY <1>2, <1>5, <1>6, <1>7, <1>8, <1>9, <1>10, <1>11 DEF InStep

\* A new block is announced.
LEMMA MineKeeps ==
    ASSUME NEW n \in Nat, NEW c \in Contexts(n), NEW p, NEW f, NEW R, InStep(c, p, f, R), NEW m \in Replies(n), m.msg = "inv",
           NEW d, d = [c EXCEPT !.in = Append(c.in, m)]
    PROVE  InStep(d, p, f, R)
<1>1. c.in \in Seq(Replies(n))
  BY DEF Contexts
<1>2. d.in = Append(c.in, m) /\ d.out = c.out /\ d.needsUpdate = c.needsUpdate /\ Same(c, d)
  BY DEF Contexts, Same
<1>3. Append(c.in, m) = c.in \o <<m>> /\ ToSet(c.in \o <<m>>) = ToSet(c.in) \cup {m}
  BY <1>1, MoreElements, AppendIsJoin
<1>4. <<m>> \in Seq(Replies(n)) /\ ToSet(<<m>>) = {m} /\ InOrder(<<m>>) /\ Followed(<<m>>)
  BY OneElement
<1>5. ~First(m) /\ ~Second(m) /\ ~Pending(m) /\ ~Carrier(m)
  BY DEF First, Second, Pending, Carrier
<1>6. InOrder(d.in)
  <2>1. \A a \in ToSet(c.in), b \in ToSet(<<m>>) : InPair(a, b)
    BY <1>4, <1>5 DEF InPair
  <2>2. InOrder(c.in \o <<m>>)
    BY <1>1, <1>4, <2>1, InJoin DEF InStep
  <2> QED BY <1>2, <1>3, <2>2
<1>7. Followed(d.in)
  <2>1. Followed(c.in \o <<m>>)
    BY <1>1, <1>4, JoinFollowed DEF InStep
  <2> QED BY <1>2, <1>3, <2>1
<1>8. ToSet(d.in) = ToSet(c.in) \cup {m}
  BY <1>2, <1>3
<1>9. Crossing(d) /\ OwnPings(d, p)
  BY <1>2, <1>5, <1>8 DEF InStep, Crossing, OwnPings, CrossPair
<1>10. SecondWaits(d, f)
  BY <1>2, <1>5, <1>8 DEF InStep, SecondWaits, NoSecond, Same
<1>11. PendingWaits(d)
  BY <1>2, <1>5, <1>8 DEF InStep, PendingWaits, NoPending
<1>12. BlockWaits(d)
  BY <1>2, <1>8 DEF InStep, BlockWaits, Same
<1>13. FilterAgrees(d, f, R)
  BY <1>2, <1>8 DEF InStep, FilterAgrees, Same
<1> QED BY <1>2, <1>6, <1>7, <1>9, <1>10, <1>11, <1>12, <1>13 DEF InStep

(***************************************************************************)
(* The inductive invariant for a fixed peer, and the actions.              *)
(***************************************************************************)
Fixed ==
    /\ \A p \in Peers : p # downloadPeer => ctx[p] = NoContext
    /\ downloadPeer # NoPeer => /\ ctx[downloadPeer].status = "connected"
                                /\ InStep(ctx[downloadPeer], downloadPeer, filter, received)
    /\ filter # 0 => Covers(filter, received) /\ \A h \in orphans : Matched(h, filter) \subseteq received
    /\ PaidBefore(lastBlock) \subseteq received

\* Only the download peer is connected and has messages.
LEMMA OnlyPeer ==
    ASSUME TypeOK, Fixed, NEW p \in Peers, ctx[p].status # "none" \/ ctx[p].in # <<>>
    PROVE  /\ Scalars /\ tip \in Nat /\ ctx \in [Peers -> Contexts(tip)] /\ ctx[p] \in Contexts(tip)
           /\ p = downloadPeer /\ downloadPeer # NoPeer /\ ctx[p].status = "connected" /\ InStep(ctx[p], p, filter, received)
<1>1. Scalars /\ tip \in Nat /\ ctx \in [Peers -> Contexts(tip)] /\ ctx[p] \in Contexts(tip)
  BY Types DEF Scalars
<1>2. NoContext.status = "none" /\ NoContext.in = <<>>
  BY DEF NoContext
<1>3. p = downloadPeer
  BY <1>2 DEF Fixed
<1> QED BY <1>1, <1>3, FilterAssumption DEF Fixed

\* A step that changes the context of the only peer.
LEMMA FixedNext ==
    ASSUME TypeOK, Fixed, NEW p \in Peers, p = downloadPeer, downloadPeer' = downloadPeer,
           NEW d, ctx' = [ctx EXCEPT ![p] = d], d.status = "connected", InStep(d, p, filter', received'),
           filter' # 0 => Covers(filter', received') /\ \A h \in orphans' : Matched(h, filter') \subseteq received',
           PaidBefore(lastBlock') \subseteq received'
    PROVE  Fixed'
<1>1. ctx \in [Peers -> Contexts(tip)]
  BY Types
<1>2. ctx'[p] = d /\ \A q \in Peers : q # p => ctx'[q] = ctx[q]
  BY <1>1
<1>3. \A q \in Peers : q # downloadPeer' => ctx'[q] = NoContext
  BY <1>2 DEF Fixed
<1> QED BY <1>2, <1>3 DEF Fixed

\* The peer after its first message has been taken.
LEMMA TakenContext ==
    ASSUME NEW n \in Nat, ctx \in [Peers -> Contexts(n)], NEW p \in Peers, ctx[p].in # <<>>, NEW e, e = Taken(p)[p]
    PROVE  /\ Head(ctx[p].in) \in Replies(n) /\ e \in Contexts(n) /\ Taken(p) = [ctx EXCEPT ![p] = e]
           /\ Taken(p) \in [Peers -> Contexts(n)]
           /\ e.in = Tail(ctx[p].in) /\ e.out = ctx[p].out /\ e.needsUpdate = ctx[p].needsUpdate /\ Same(ctx[p], e)
           /\ e.status = ctx[p].status /\ e.lastblock = ctx[p].lastblock
<1>1. /\ Head(ctx[p].in) \in Replies(n) /\ Taken(p) \in [Peers -> Contexts(n)]
      /\ Taken(p) = [ctx EXCEPT ![p] = [ctx[p] EXCEPT !.in = Tail(ctx[p].in)]]
  BY TakenType
<1>2. e = [ctx[p] EXCEPT !.in = Tail(ctx[p].in)] /\ e \in Contexts(n)
  BY <1>1
<1>3. ctx[p] \in Contexts(n)
  OBVIOUS
<1>4. /\ e.in = Tail(ctx[p].in) /\ e.out = ctx[p].out /\ e.needsUpdate = ctx[p].needsUpdate /\ Same(ctx[p], e)
      /\ e.status = ctx[p].status /\ e.lastblock = ctx[p].lastblock
  BY <1>2, <1>3 DEF Contexts, Same
<1> QED BY <1>1, <1>2, <1>4

\* The handler of inv keeps the invariant,
LEMMA AcceptInvKeeps ==
    ASSUME TypeOK, Fixed, NEW p \in Peers, AcceptInv(p)
    PROVE  Fixed'
<1>0. ctx[p].in # <<>> /\ Head(ctx[p].in).msg = "inv"
  BY DEF AcceptInv, Reads
<1>1. /\ Scalars /\ tip \in Nat /\ ctx \in [Peers -> Contexts(tip)] /\ ctx[p] \in Contexts(tip)
      /\ p = downloadPeer /\ downloadPeer # NoPeer /\ ctx[p].status = "connected" /\ InStep(ctx[p], p, filter, received)
  BY <1>0, OnlyPeer
<1> DEFINE all == Head(ctx[p].in).blocks
           c == Taken(p)[p]
           blocks == IF ~c.sentFilter \/ (Len(all) = 1 /\ c.lastBlockHash = all[1]) THEN <<>> ELSE all
           last == IF Len(blocks) = 1 THEN blocks[1] ELSE c.lastBlockHash
           known == [c EXCEPT !.lastBlockHash = last, !.knownBlocks = @ \o blocks]
           wanted == Wanted(c, blocks)
           asked == SendGetdata(known, wanted)
           after == IF Len(wanted) >= Batch THEN SendGetblocks(asked, blocks[Len(blocks)]) ELSE asked
<1>2. /\ c \in Contexts(tip) /\ Head(ctx[p].in) \in Replies(tip)
      /\ c.in = Tail(ctx[p].in) /\ c.out = ctx[p].out /\ c.needsUpdate = ctx[p].needsUpdate /\ Same(ctx[p], c)
      /\ c.status = ctx[p].status
  BY <1>0, <1>1, TakenContext
<1>3. all \in Seq(1..tip)
  BY <1>0, <1>1, <1>2, ReplyFields
<1>4. ctx' = [ctx EXCEPT ![p] = after]
  BY DEF AcceptInv
<1> HIDE DEF c, all
<1>5. blocks \in Seq(1..tip)
  <2>1. blocks = <<>> \/ blocks = all
    OBVIOUS
  <2>2. <<>> \in Seq(1..tip)
    OBVIOUS
  <2> HIDE DEF blocks
  <2> QED BY <1>3, <2>1, <2>2
<1> HIDE DEF blocks
<1>6. last \in 0..tip
  <2>1. c.lastBlockHash \in 0..tip
    BY <1>2 DEF Contexts
  <2>2. ASSUME Len(blocks) = 1 PROVE blocks[1] \in 0..tip
    <3>1. 1 \in 1..Len(blocks)
      BY <2>2
    <3>2. blocks[1] \in 1..tip
      BY <1>5, <3>1, ElementType
    <3> QED BY <1>1, <3>2
  <2> QED BY <2>1, <2>2
<1> HIDE DEF last
<1>7. /\ known \in Contexts(tip) /\ known.in = Tail(ctx[p].in) /\ known.out = ctx[p].out
      /\ known.needsUpdate = ctx[p].needsUpdate /\ Same(ctx[p], known) /\ known.status = "connected"
  <2>1. c.knownBlocks \o blocks \in Seq(1..tip)
    BY <1>2, <1>5 DEF Contexts
  <2> DEFINE kb == c.knownBlocks \o blocks
  <2>2. known = [c EXCEPT !.lastBlockHash = last, !.knownBlocks = kb]
    BY <1>2 DEF Contexts
  <2> HIDE DEF kb, known
  <2> QED BY <1>1, <1>2, <1>6, <2>1, <2>2 DEF Contexts, kb, Same
<1>8. InStep(known, p, filter, received)
  <2> HIDE DEF known
  <2> QED BY <1>0, <1>1, <1>7, TakeKeeps
<1>9. wanted \in Seq(1..tip) /\ (wanted # <<>> => ~c.needsUpdate) /\ (wanted = <<>> \/ wanted = blocks)
  <2>1. wanted = IF c.needsUpdate THEN <<>> ELSE blocks
    BY DEF Wanted
  <2>2. <<>> \in Seq(1..tip)
    OBVIOUS
  <2> HIDE DEF wanted
  <2>3. CASE c.needsUpdate
    BY <2>1, <2>2, <2>3
  <2>4. CASE ~c.needsUpdate
    BY <1>5, <2>1, <2>4
  <2> QED BY <2>3, <2>4
<1> HIDE DEF wanted, known
<1>10. wanted # <<>> => NoPending(known)
  BY <1>2, <1>7, <1>8, <1>9 DEF InStep, PendingWaits
<1>11. InStep(asked, p, filter, received) /\ asked \in Contexts(tip) /\ asked.status = "connected"
  BY <1>1, <1>7, <1>8, <1>9, <1>10, RequestsKeep
<1> HIDE DEF asked
<1>12. InStep(after, p, filter, received) /\ after.status = "connected"
  <2>1. CASE Len(wanted) >= Batch
    <3>1. wanted # <<>>
      <4>1. Len(<<>>) = 0 /\ Batch \in Nat \ {0}
        BY FilterAssumption
      <4> QED BY <2>1, <4>1
    <3>2. Len(blocks) \in 1..Len(blocks)
      <4>1. blocks # <<>>
        BY <1>9, <3>1
      <4> QED BY <1>5, <4>1
    <3>3. blocks[Len(blocks)] \in 1..tip
      BY <1>5, <3>2, ElementType
    <3>4. blocks[Len(blocks)] \in 0..tip
      BY <1>1, <3>3
    <3> QED BY <1>1, <1>11, <2>1, <3>4, RequestsKeep
  <2> QED BY <1>11, <2>1
<1> HIDE DEF after
<1>13. downloadPeer' = downloadPeer /\ filter' = filter /\ received' = received /\ orphans' = orphans /\ lastBlock' = lastBlock
  BY DEF AcceptInv, chainVars
<1>14. /\ filter' # 0 => Covers(filter', received') /\ \A h \in orphans' : Matched(h, filter') \subseteq received'
       /\ PaidBefore(lastBlock') \subseteq received'
  BY <1>13 DEF Fixed
<1>15. InStep(after, p, filter', received')
  BY <1>12, <1>13
<1> QED BY <1>1, <1>4, <1>12, <1>13, <1>14, <1>15, FixedNext

\* that of merkleblock,
LEMMA AcceptMerkleblockKeeps ==
    ASSUME TypeOK, Fixed, NEW p \in Peers, AcceptMerkleblock(p)
    PROVE  Fixed'
<1>0. ctx[p].in # <<>> /\ Head(ctx[p].in).msg = "merkleblock"
  BY DEF AcceptMerkleblock, Reads
<1>1. /\ Scalars /\ tip \in Nat /\ ctx \in [Peers -> Contexts(tip)] /\ ctx[p] \in Contexts(tip)
      /\ p = downloadPeer /\ downloadPeer # NoPeer /\ ctx[p].status = "connected" /\ InStep(ctx[p], p, filter, received)
  BY <1>0, OnlyPeer
<1> DEFINE m == Head(ctx[p].in)
           c == Taken(p)[p]
           e == [c EXCEPT !.currentBlock = m.block, !.currentTx = m.txs]
           after == IF m.txs = {} THEN Relay(c, m.block) ELSE e
<1>2. /\ c \in Contexts(tip) /\ m \in Replies(tip)
      /\ c.in = Tail(ctx[p].in) /\ c.out = ctx[p].out /\ c.needsUpdate = ctx[p].needsUpdate /\ Same(ctx[p], c)
      /\ c.status = "connected"
  BY <1>0, <1>1, TakenContext
<1>3. m.block \in 1..tip /\ m.txs \in SUBSET PaidBefore(tip)
  BY <1>0, <1>1, <1>2, ReplyFields
<1>4. ctx' = [ctx EXCEPT ![p] = after]
  BY DEF AcceptMerkleblock
<1> HIDE DEF c
<1>5. InStep(c, p, filter, received) /\ NoSecond(c)
  BY <1>0, <1>1, <1>2, TakeKeeps DEF Carrier
<1>6. ctx[p].in \in Seq(Replies(tip))
  BY <1>1 DEF Contexts
<1>7. ToSet(ctx[p].in) = {m} \cup ToSet(c.in) /\ \A t \in m.txs : [msg |-> "tx", tx |-> t] \in ToSet(c.in)
  BY <1>0, <1>1, <1>2, <1>6, TailKeeps DEF InStep
<1>8. filter # 0 => m.txs = Matched(m.block, filter)
  BY <1>0, <1>1, <1>7 DEF InStep, FilterAgrees
<1> HIDE DEF m
<1>9. InStep(after, p, filter, received) /\ after.status = "connected"
  <2>1. CASE m.txs = {}
    <3>1. InStep(Relay(c, m.block), p, filter, received)
      <4>1. filter # 0 => Matched(m.block, filter) \subseteq received
        BY <1>8, <2>1
      <4> QED BY <1>1, <1>2, <1>3, <1>5, <4>1, RelayKeeps
    <3>2. Relay(c, m.block).status = "connected"
      BY <1>2 DEF Relay, Contexts
    <3> QED BY <2>1, <3>1, <3>2
  <2>2. CASE m.txs # {}
    <3>1. /\ e.in = c.in /\ e.out = c.out /\ e.needsUpdate = c.needsUpdate /\ e.remote = c.remote /\ e.status = "connected"
          /\ e.currentBlock = m.block /\ e.currentTx = m.txs
      BY <1>2 DEF Contexts
    <3> HIDE DEF e
    <3>2. OutOrder(e.out) /\ InOrder(e.in) /\ Followed(e.in) /\ Crossing(e) /\ PendingWaits(e) /\ OwnPings(e, p)
      BY <1>5, <3>1 DEF InStep, Crossing, PendingWaits, NoPending, OwnPings
    <3>3. SecondWaits(e, filter)
      BY <1>5, <3>1 DEF SecondWaits, NoSecond
    <3>4. BlockWaits(e)
      BY <1>7, <2>2, <3>1 DEF BlockWaits
    <3>5. FilterAgrees(e, filter, received)
      BY <1>5, <1>8, <3>1 DEF InStep, FilterAgrees
    <3>6. InStep(e, p, filter, received)
      BY <1>5, <3>1, <3>2, <3>3, <3>4, <3>5 DEF InStep
    <3> QED BY <2>2, <3>1, <3>6
  <2> QED BY <2>1, <2>2
<1> HIDE DEF after
<1>10. downloadPeer' = downloadPeer /\ filter' = filter /\ received' = received /\ orphans' = orphans /\ lastBlock' = lastBlock
  BY DEF AcceptMerkleblock, chainVars
<1>11. /\ filter' # 0 => Covers(filter', received') /\ \A h \in orphans' : Matched(h, filter') \subseteq received'
       /\ PaidBefore(lastBlock') \subseteq received'
  BY <1>10 DEF Fixed
<1>12. InStep(after, p, filter', received')
  BY <1>9, <1>10
<1> QED BY <1>1, <1>4, <1>9, <1>10, <1>11, <1>12, FixedNext

\* the contexts when d is the one of p
With(p, d) == [ctx EXCEPT ![p] = d]

\* _BRPeerManagerUpdateFilter, for the only peer
LEMMA UpdateKeeps ==
    ASSUME Scalars, tip \in Nat, ctx \in [Peers -> Contexts(tip)], NEW p \in Peers, p = downloadPeer, downloadPeer # NoPeer,
           NEW c \in Contexts(tip), c.status = "connected", NEW f, NEW R, InStep(c, p, f, R), NoSecond(c),
           NEW cs, cs = With(p, c)
    PROVE  \E d \in Contexts(tip) : /\ UpdateFilter(cs) = With(p, d) /\ d.status = "connected" /\ d.needsUpdate
                                    /\ d.lastblock = c.lastblock /\ InStep(d, p, f, R) /\ NoSecond(d)
<1>1. cs[p] = c
  BY DEF With
<1>2. CASE c.needsUpdate
  <2>1. UpdateFilter(cs) = cs
    BY <1>1, <1>2 DEF UpdateFilter
  <2> QED BY <1>2, <2>1
<1>3. CASE ~c.needsUpdate
  <2> DEFINE d == SendPing([c EXCEPT !.needsUpdate = TRUE], "updateFilterPingDone", p)
  <2>1. UpdateFilter(cs) = [cs EXCEPT ![p] = d]
    BY <1>1, <1>3 DEF UpdateFilter
  <2>2. InStep(d, p, f, R) /\ d \in Contexts(tip) /\ d.status = "connected" /\ d.needsUpdate /\ NoSecond(d)
    BY <1>3, StartKeeps
  <2>3. d.lastblock = c.lastblock
    BY DEF SendPing, Send, Contexts
  <2> HIDE DEF d
  <2>4. [cs EXCEPT ![p] = d] = With(p, d)
    BY DEF With
  <2> QED BY <2>1, <2>2, <2>3, <2>4
<1> QED BY <1>2, <1>3

\* that of tx,
LEMMA AcceptTxKeeps ==
    ASSUME TypeOK, Fixed, NEW p \in Peers, AcceptTx(p)
    PROVE  Fixed'
<1>0. ctx[p].in # <<>> /\ Head(ctx[p].in).msg = "tx"
  BY DEF AcceptTx, Reads
<1>1. /\ Scalars /\ tip \in Nat /\ ctx \in [Peers -> Contexts(tip)] /\ ctx[p] \in Contexts(tip)
      /\ p = downloadPeer /\ downloadPeer # NoPeer /\ ctx[p].status = "connected" /\ InStep(ctx[p], p, filter, received)
  BY <1>0, OnlyPeer
<1> DEFINE t == Head(ctx[p].in).tx
           c == Taken(p)[p]
           left == [c EXCEPT !.currentTx = @ \ {t}]
           through == [left EXCEPT !.currentBlock = 0]
           after == IF c.currentBlock # 0 /\ left.currentTx = {} THEN Relay(through, c.currentBlock) ELSE left
           cs == [ctx EXCEPT ![p] = after]
           R == received \cup {t}
<1>2. /\ c \in Contexts(tip) /\ Head(ctx[p].in) \in Replies(tip)
      /\ c.in = Tail(ctx[p].in) /\ c.out = ctx[p].out /\ c.needsUpdate = ctx[p].needsUpdate /\ Same(ctx[p], c)
      /\ c.status = "connected"
  BY <1>0, <1>1, TakenContext
<1>3. t \in PaidBefore(tip)
  BY <1>0, <1>1, <1>2, ReplyFields
<1>4. /\ received' = R
      /\ \/ filter # 0 /\ ~Covers(filter, R) /\ filter' = 0 /\ ctx' = UpdateFilter(cs)
         \/ (filter = 0 \/ Covers(filter, R)) /\ ctx' = cs /\ filter' = filter
  BY DEF AcceptTx
<1> HIDE DEF c
<1>5. /\ left \in Contexts(tip) /\ left.in = c.in /\ left.out = c.out /\ left.needsUpdate = c.needsUpdate
      /\ left.remote = c.remote /\ left.currentBlock = c.currentBlock /\ left.currentTx = c.currentTx \ {t} /\ left.status = "connected"
  BY <1>2 DEF Contexts
<1> HIDE DEF left
<1>6. /\ through \in Contexts(tip) /\ through.in = c.in /\ through.out = c.out /\ through.needsUpdate = c.needsUpdate
      /\ through.remote = c.remote /\ through.currentBlock = 0 /\ through.currentTx = c.currentTx \ {t} /\ through.status = "connected"
  <2>1. 0 \in 0..tip
    BY <1>1
  <2> QED BY <1>5, <2>1 DEF Contexts
<1> HIDE DEF through
<1>7. after \in Contexts(tip) /\ InStep(after, p, filter, R) /\ NoSecond(after) /\ after.status = "connected"
  <2>1. CASE c.currentBlock # 0 /\ left.currentTx = {}
    <3>1. InStep(through, p, filter, R) /\ NoSecond(through)
      <4>1. /\ through.in = Tail(ctx[p].in) /\ through.out = ctx[p].out /\ through.needsUpdate = ctx[p].needsUpdate
            /\ through.remote = ctx[p].remote /\ through.currentTx = ctx[p].currentTx \ {t}
        BY <1>2, <1>6 DEF Same
      <4> QED BY <1>0, <1>1, <1>6, <4>1, TxKeeps
    <3>2. c.currentBlock \in 1..tip
      BY <1>1, <1>2, <2>1 DEF Contexts
    <3>3. filter # 0 => Matched(c.currentBlock, filter) \subseteq R
      BY <1>1, <1>2, <1>5, <2>1 DEF InStep, FilterAgrees, Same
    <3>4. InStep(Relay(through, c.currentBlock), p, filter, R)
      <4> HIDE DEF R
      <4> QED BY <1>1, <1>6, <3>1, <3>2, <3>3, RelayKeeps
    <3>5. Relay(through, c.currentBlock) \in Contexts(tip)
      BY <1>1, <1>6, <3>2, RelayType
    <3> DEFINE m == [msg |-> "relayed", block |-> c.currentBlock]
    <3>6. Relay(through, c.currentBlock).status = "connected" /\ Relay(through, c.currentBlock).out = through.out
          /\ Relay(through, c.currentBlock).in = <<m>> \o through.in
      BY <1>6 DEF Relay, Contexts
    <3>7. m \in Replies(tip) /\ ~Second(m) /\ through.in \in Seq(Replies(tip))
      BY <1>6, <3>2 DEF Replies, Second, Contexts
    <3> HIDE DEF m
    <3>8. ToSet(<<m>> \o through.in) = {m} \cup ToSet(through.in)
      BY <3>7, MoreElements
    <3>9. NoSecond(Relay(through, c.currentBlock))
      BY <3>1, <3>6, <3>7, <3>8 DEF NoSecond
    <3> QED BY <2>1, <3>4, <3>5, <3>6, <3>9
  <2>2. CASE ~(c.currentBlock # 0 /\ left.currentTx = {})
    <3>1. InStep(left, p, filter, R) /\ NoSecond(left)
      BY <1>0, <1>1, <1>2, <1>5, <2>2, TxKeeps DEF Same
    <3> QED BY <1>5, <2>2, <3>1
  <2> QED BY <2>1, <2>2
<1> HIDE DEF after
<1>8. downloadPeer' = downloadPeer /\ orphans' = orphans /\ lastBlock' = lastBlock
  BY DEF AcceptTx, chainVars
<1>9. PaidBefore(lastBlock') \subseteq received'
  BY <1>4, <1>8 DEF Fixed
<1>10. CASE filter # 0 /\ ~Covers(filter, R) /\ filter' = 0 /\ ctx' = UpdateFilter(cs)
  <2>3. cs = With(p, after)
    BY DEF With
  <2> HIDE DEF R, cs
  <2>4. \E d \in Contexts(tip) : /\ UpdateFilter(cs) = With(p, d) /\ d.status = "connected" /\ d.needsUpdate
                                /\ d.lastblock = after.lastblock /\ InStep(d, p, filter, R) /\ NoSecond(d)
    BY <1>1, <1>7, <2>3, UpdateKeeps
  <2>1. PICK d \in Contexts(tip) : /\ UpdateFilter(cs) = [ctx EXCEPT ![p] = d] /\ d.status = "connected" /\ d.needsUpdate
                                   /\ InStep(d, p, filter, R) /\ NoSecond(d)
    BY <2>4 DEF With
  <2>2. InStep(d, p, filter', received')
    BY <1>4, <1>10, <2>1, DropKeeps
  <2> QED BY <1>1, <1>8, <1>9, <1>10, <2>1, <2>2, FixedNext
<1>11. CASE (filter = 0 \/ Covers(filter, R)) /\ ctx' = cs /\ filter' = filter
  <2>1. filter' # 0 => Covers(filter', received') /\ \A h \in orphans' : Matched(h, filter') \subseteq received'
    BY <1>4, <1>8, <1>11 DEF Fixed
  <2>2. InStep(after, p, filter', received')
    BY <1>4, <1>7, <1>11
  <2> QED BY <1>1, <1>7, <1>8, <1>9, <1>11, <2>1, <2>2, FixedNext
<1> QED BY <1>4, <1>10, <1>11

\* the new filter goes to the only peer
LEMMA PingDoneKeeps ==
    ASSUME TypeOK, Fixed, NEW p \in Peers, ctx[p].in # <<>>, Head(ctx[p].in).msg = "pong",
           Head(ctx[p].in).done = "updateFilterPingDone", Head(ctx[p].in).peer = p, UpdateFilterPingDone(Taken(p), p),
           UNCHANGED <<lastBlock, received, downloadPeer>>
    PROVE  Fixed'
<1>1. /\ Scalars /\ tip \in Nat /\ ctx \in [Peers -> Contexts(tip)] /\ ctx[p] \in Contexts(tip)
      /\ p = downloadPeer /\ downloadPeer # NoPeer /\ ctx[p].status = "connected" /\ InStep(ctx[p], p, filter, received)
  BY OnlyPeer
<1> DEFINE c == Taken(p)[p]
<1>2. /\ c \in Contexts(tip) /\ Taken(p) = [ctx EXCEPT ![p] = c]
      /\ c.in = Tail(ctx[p].in) /\ c.out = ctx[p].out /\ c.needsUpdate = ctx[p].needsUpdate /\ Same(ctx[p], c)
      /\ c.status = "connected"
  BY <1>1, TakenContext
<1>3. Taken(p) \in [Peers -> Contexts(tip)] /\ \A q \in Peers : q # p => Taken(p)[q] = NoContext
  BY <1>1, <1>2, TakenContext DEF Fixed
<1>4. Coverage \in Nat \ {0} /\ Covers(Coverage, received)
  BY <1>1, CoverageType
<1> DEFINE syncing == lastBlock < estimated
           on == IF ~syncing THEN Connected(Taken(p))
                 ELSE IF downloadPeer = NoPeer THEN {} ELSE {downloadPeer}
           load(e, q) == SendPing(SendFilterload(e, Coverage), "updateFilterLoadDone", IF syncing THEN p ELSE q)
           d == SendPing(SendFilterload(c, Coverage), "updateFilterLoadDone", p)
<1>5. on = {p}
  <2>1. Connected(Taken(p)) = {p}
    <3>1. NoContext.status = "none"
      BY DEF NoContext
    <3> HIDE DEF NoContext
    <3> QED BY <1>2, <1>3, <3>1 DEF Connected
  <2> QED BY <1>1, <2>1
<1>6. /\ ctx' = [q \in Peers |-> IF q \in on THEN load(Taken(p)[q], q) ELSE Taken(p)[q]]
      /\ filter' = (IF on = {} THEN 0 ELSE Coverage) /\ orphans' = IF on = {} THEN orphans ELSE {}
  BY DEF UpdateFilterPingDone
<1> HIDE DEF on
<1>7. filter' = Coverage /\ orphans' = {}
  BY <1>5, <1>6
<1>8. load(c, p) = d
  OBVIOUS
<1> HIDE DEF load, d
<1>9. ctx' = [ctx EXCEPT ![p] = d]
  <2>1. \A q \in Peers : q # p => Taken(p)[q] = ctx[q]
    <3> HIDE DEF c
    <3> QED BY <1>1, <1>2
  <2>2. ctx' = [q \in Peers |-> IF q = p THEN d ELSE ctx[q]]
    BY <1>5, <1>6, <1>8, <2>1
  <2> QED BY <1>1, <2>2
<1> HIDE DEF c
<1>10. InStep(d, p, Coverage, received) /\ d.status = "connected"
  BY <1>1, <1>2, <1>4, SetKeeps DEF d
<1>11. InStep(d, p, filter', received') /\ Covers(filter', received') /\ (\A h \in orphans' : Matched(h, filter') \subseteq received')
       /\ PaidBefore(lastBlock') \subseteq received'
  BY <1>4, <1>7, <1>10 DEF Fixed
<1> QED BY <1>1, <1>9, <1>10, <1>11, FixedNext

\* The end of a sequence.
LEMMA SuffixType ==
    ASSUME NEW S, NEW s \in Seq(S), NEW k \in 1..Len(s)
    PROVE  SubSeq(s, k, Len(s)) \in Seq(S)
  OBVIOUS

\* blocks are requested again from the only peer
LEMMA LoadDoneKeeps ==
    ASSUME TypeOK, Fixed, NEW p \in Peers, ctx[p].in # <<>>, Head(ctx[p].in).msg = "pong",
           Head(ctx[p].in).done = "updateFilterLoadDone", Head(ctx[p].in).peer = p, UpdateFilterLoadDone(Taken(p), p),
           UNCHANGED <<lastBlock, received, downloadPeer>>
    PROVE  Fixed'
<1>1. /\ Scalars /\ tip \in Nat /\ ctx \in [Peers -> Contexts(tip)] /\ ctx[p] \in Contexts(tip)
      /\ p = downloadPeer /\ downloadPeer # NoPeer /\ ctx[p].status = "connected" /\ InStep(ctx[p], p, filter, received)
  BY OnlyPeer
<1> DEFINE c == Taken(p)[p]
           e == [c EXCEPT !.needsUpdate = FALSE]
           done == [Taken(p) EXCEPT ![p].needsUpdate = FALSE]
           r == RerequestBlocks(e, lastBlock)
           s == SendPing(r, "updateFilterRerequestDone", p)
<1>2. /\ c \in Contexts(tip) /\ Taken(p) = [ctx EXCEPT ![p] = c] /\ Taken(p) \in [Peers -> Contexts(tip)]
      /\ c.in = Tail(ctx[p].in) /\ c.out = ctx[p].out /\ Same(ctx[p], c) /\ c.status = "connected"
  BY <1>1, TakenContext
<1>3. done = [ctx EXCEPT ![p] = e]
  <2>1. done = [Taken(p) EXCEPT ![p] = e]
    BY <1>2
  <2> HIDE DEF e, done, c
  <2> QED BY <1>1, <1>2, <2>1
<1> HIDE DEF c
<1>4. e \in Contexts(tip) /\ e.in = c.in /\ e.out = c.out /\ Same(c, e) /\ e.status = "connected"
  BY <1>2 DEF Contexts, Same
<1> HIDE DEF e
<1>5. InStep(e, p, filter, received) /\ NoPending(e)
  BY <1>1, <1>2, <1>4, ResumeKeeps DEF Same
<1>6. \/ ctx' = [ctx EXCEPT ![p] = s]
      \/ ctx' = [ctx EXCEPT ![p] = e]
  <2>1. done[p] = e
    BY <1>1, <1>3
  <2> DEFINE s2 == SendPing(RerequestBlocks(done[p], lastBlock), "updateFilterRerequestDone", p)
  <2>2. ctx' = IF lastBlock < estimated THEN [done EXCEPT ![p] = s2] ELSE done
    BY <1>1 DEF UpdateFilterLoadDone
  <2>3. s2 = s
    BY <2>1
  <2> HIDE DEF s, s2, done
  <2> QED BY <1>1, <1>3, <2>2, <2>3
<1>7. InStep(r, p, filter, received) /\ r \in Contexts(tip) /\ r.status = "connected"
  <2> DEFINE at == {i \in DOMAIN e.knownBlocks : e.knownBlocks[i] = lastBlock}
             k == CHOOSE i \in at : \A j \in at : j <= i
             rest == SubSeq(e.knownBlocks, k, Len(e.knownBlocks))
             g == [e EXCEPT !.knownBlocks = rest]
  <2>1. CASE at = {}
    BY <1>4, <1>5, <2>1 DEF RerequestBlocks
  <2>2. CASE at # {}
    <3>1. e.knownBlocks \in Seq(1..tip)
      BY <1>4 DEF Contexts
    <3>2. at \subseteq Nat /\ Len(e.knownBlocks) \in Nat /\ \A i \in at : i <= Len(e.knownBlocks)
      BY <3>1
    <3>3. k \in at
      <4>1. \E i \in at : \A j \in at : j <= i
        <5> HIDE DEF at
        <5> QED BY <2>2, <3>2, GreatestNumber
      <4> HIDE DEF at
      <4> QED BY <4>1
    <3>4. k \in 1..Len(e.knownBlocks)
      <4> HIDE DEF k
      <4> QED BY <3>1, <3>3
    <3> HIDE DEF k
    <3>5. rest \in Seq(1..tip)
      BY <3>1, <3>4, SuffixType
    <3>6. r = SendGetdata(g, rest)
      BY <2>2 DEF RerequestBlocks, k
    <3> HIDE DEF rest
    <3>7. g \in Contexts(tip) /\ g.in = e.in /\ g.out = e.out /\ g.needsUpdate = e.needsUpdate /\ Same(e, g) /\ g.status = "connected"
      BY <1>4, <3>5 DEF Contexts, Same
    <3> HIDE DEF g
    <3>8. InStep(g, p, filter, received) /\ NoPending(g)
      BY <1>5, <3>7 DEF InStep, Crossing, SecondWaits, NoSecond, PendingWaits, NoPending, BlockWaits, FilterAgrees, OwnPings, Same
    <3> QED BY <1>1, <3>5, <3>6, <3>7, <3>8, RequestsKeep
  <2> QED BY <2>1, <2>2
<1> HIDE DEF r
<1>8. InStep(s, p, filter, received) /\ s.status = "connected"
  BY <1>1, <1>7, RequestsKeep
<1> HIDE DEF s
<1>9. filter' = filter /\ orphans' = orphans
  BY DEF UpdateFilterLoadDone
<1>10. /\ InStep(s, p, filter', received') /\ InStep(e, p, filter', received')
       /\ filter' # 0 => Covers(filter', received') /\ \A h \in orphans' : Matched(h, filter') \subseteq received'
       /\ PaidBefore(lastBlock') \subseteq received'
  BY <1>5, <1>8, <1>9 DEF Fixed
<1>11. CASE ctx' = [ctx EXCEPT ![p] = s]
  BY <1>1, <1>8, <1>10, <1>11, FixedNext
<1>12. CASE ctx' = [ctx EXCEPT ![p] = e]
  BY <1>1, <1>4, <1>10, <1>12, FixedNext
<1> QED BY <1>6, <1>11, <1>12

\* and that of pong.
LEMMA AcceptPongKeeps ==
    ASSUME TypeOK, Fixed, NEW p \in Peers, AcceptPong(p)
    PROVE  Fixed'
<1>0. ctx[p].in # <<>> /\ Head(ctx[p].in).msg = "pong"
  BY DEF AcceptPong, Reads
<1>1. /\ Scalars /\ tip \in Nat /\ ctx \in [Peers -> Contexts(tip)] /\ ctx[p] \in Contexts(tip)
      /\ p = downloadPeer /\ downloadPeer # NoPeer /\ ctx[p].status = "connected" /\ InStep(ctx[p], p, filter, received)
  BY <1>0, OnlyPeer
<1> DEFINE m == Head(ctx[p].in)
           c == Taken(p)[p]
           s == SendGetblocks(c, lastBlock)
<1>2. /\ c \in Contexts(tip) /\ Taken(p) = [ctx EXCEPT ![p] = c] /\ Taken(p) \in [Peers -> Contexts(tip)]
      /\ c.in = Tail(ctx[p].in) /\ c.out = ctx[p].out /\ c.needsUpdate = ctx[p].needsUpdate /\ Same(ctx[p], c)
      /\ c.status = "connected"
  BY <1>0, <1>1, TakenContext
<1>3. m.peer = p
  <2>1. ctx[p].in \in Seq(Replies(tip))
    BY <1>1 DEF Contexts
  <2>2. m \in ToSet(ctx[p].in)
    BY <1>0, <2>1, TailKeeps
  <2> QED BY <1>0, <1>1, <2>2 DEF InStep, OwnPings
<1>4. UNCHANGED <<lastBlock, received, downloadPeer>>
  BY DEF AcceptPong
<1>5. CASE m.done = "updateFilterPingDone" /\ UpdateFilterPingDone(Taken(p), m.peer)
  BY <1>0, <1>3, <1>4, <1>5, PingDoneKeeps
<1>6. CASE m.done = "updateFilterLoadDone" /\ UpdateFilterLoadDone(Taken(p), m.peer)
  BY <1>0, <1>3, <1>4, <1>6, LoadDoneKeeps
<1>7. ASSUME ctx' = Taken(p) \/ ctx' = [Taken(p) EXCEPT ![p] = s], UNCHANGED <<filter, orphans>>
      PROVE  Fixed'
  <2> HIDE DEF c, s
  <2>1. InStep(c, p, filter, received)
    BY <1>0, <1>1, <1>2, TakeKeeps
  <2>2. InStep(s, p, filter, received) /\ s.status = "connected"
    <3>1. lastBlock \in 0..tip
      BY <1>1 DEF Scalars
    <3> QED BY <1>1, <1>2, <2>1, <3>1, RequestsKeep DEF s
  <2>3. /\ InStep(s, p, filter', received') /\ InStep(c, p, filter', received')
        /\ filter' # 0 => Covers(filter', received') /\ \A h \in orphans' : Matched(h, filter') \subseteq received'
        /\ PaidBefore(lastBlock') \subseteq received'
    BY <1>4, <1>7, <2>1, <2>2 DEF Fixed
  <2>4. CASE ctx' = Taken(p)
    BY <1>1, <1>2, <1>4, <2>3, <2>4, FixedNext
  <2>5. CASE ctx' = [Taken(p) EXCEPT ![p] = s]
    <3>1. ctx' = [ctx EXCEPT ![p] = s]
      BY <1>1, <1>2, <2>5
    <3> QED BY <1>1, <1>4, <2>2, <2>3, <3>1, FixedNext
  <2> QED BY <1>7, <2>4, <2>5
<1>8. CASE UpdateFilterRerequestDone(Taken(p), m.peer)
  BY <1>3, <1>7, <1>8 DEF UpdateFilterRerequestDone
<1>9. CASE ctx' = Taken(p) /\ UNCHANGED <<filter, orphans, lastOrphan>>
  BY <1>7, <1>9
<1> QED BY <1>5, <1>6, <1>8, <1>9 DEF AcceptPong

\* A block of the chain: it was matched with a filter that covers what the wallet has, so it is complete.
LEMMA AcceptedKeeps ==
    ASSUME TypeOK, Fixed, NEW p \in Peers, p = downloadPeer, downloadPeer # NoPeer, NEW c \in Contexts(tip), c.status = "connected",
           InStep(c, p, filter, received), NoSecond(c), NEW cs, cs = With(p, c), NEW h \in 1..tip, filter # 0,
           Matched(h, filter) \subseteq received, h <= lastBlock + 1, Accepted(p, cs, h), UNCHANGED <<received, downloadPeer>>
    PROVE  Fixed'
<1>1. Scalars /\ tip \in Nat /\ ctx \in [Peers -> Contexts(tip)] /\ lastBlock \in 0..tip /\ orphans \subseteq 1..tip
      /\ tip <= MaxHeight /\ MaxHeight \in Nat /\ filter \in Nat /\ received \subseteq PaidBefore(tip)
  BY Types, PaysType DEF Scalars
<1>2. cs \in [Peers -> Contexts(tip)] /\ cs[p] = c /\ (\A q \in Peers : q # p => cs[q] = NoContext)
  BY <1>1 DEF With, Fixed
<1>3. OtherPeers(cs, downloadPeer) = {}
  <2>1. NoContext.status = "none"
    BY DEF NoContext
  <2> HIDE DEF NoContext
  <2> QED BY <1>2, <2>1 DEF OtherPeers, Connected
<1> DEFINE others == IF h = estimated /\ h > lastBlock THEN OtherPeers(cs, downloadPeer) ELSE {}
           new == LoadOn(cs, others, "loadBloomFilterDone")
           waits == IF others = {} THEN orphans ELSE {}
<1>4. others = {}
  BY <1>3
<1>5. /\ filter' = (IF others = {} THEN filter ELSE Coverage) /\ orphans' = waits \ {h + 1}
      /\ ctx' = (IF h + 1 \in waits THEN [new EXCEPT ![p] = Relay(new[p], h + 1)] ELSE new)
      /\ lastBlock' = IF h > lastBlock THEN h ELSE lastBlock
  BY DEF Accepted
<1> HIDE DEF others
<1>6. new = cs
  <2>1. new = [q \in Peers |-> cs[q]]
    BY <1>4 DEF LoadOn
  <2> HIDE DEF new
  <2> QED BY <1>2, <2>1
<1>7. filter' = filter /\ orphans' = orphans \ {h + 1}
      /\ ctx' = IF h + 1 \in orphans THEN [cs EXCEPT ![p] = Relay(c, h + 1)] ELSE cs
  <2> HIDE DEF new
  <2> QED BY <1>2, <1>4, <1>5, <1>6
<1> DEFINE d == IF h + 1 \in orphans THEN Relay(c, h + 1) ELSE c
<1>8. ctx' = [ctx EXCEPT ![p] = d]
  BY <1>1, <1>7 DEF With
<1>9. InStep(d, p, filter, received) /\ d.status = "connected"
  <2>1. CASE h + 1 \in orphans
    <3>1. h + 1 \in 1..tip /\ Matched(h + 1, filter) \subseteq received
      BY <1>1, <2>1 DEF Fixed
    <3>2. InStep(Relay(c, h + 1), p, filter, received)
      BY <1>1, <3>1, RelayKeeps
    <3>3. Relay(c, h + 1).status = "connected"
      BY DEF Relay, Contexts
    <3> QED BY <2>1, <3>2, <3>3
  <2>2. CASE h + 1 \notin orphans
    BY <2>2
  <2> QED BY <2>1, <2>2
<1> HIDE DEF d
<1>10. PaidBefore(lastBlock') \subseteq received
  <2>1. CASE h > lastBlock
    <3>1. h - 1 = lastBlock /\ lastBlock' = h /\ h \in 1..MaxHeight
      BY <1>1, <1>5, <2>1
    <3>2. PaidBefore(tip) \subseteq PaidBefore(MaxHeight)
      BY <1>1, PaidGrows
    <3>3. received \subseteq PaidBefore(MaxHeight) /\ PaidBefore(h - 1) \subseteq received /\ Covers(filter, received)
      BY <1>1, <3>1, <3>2 DEF Fixed
    <3>4. PaidBefore(h) \subseteq received
      BY <1>1, <3>1, <3>3, CompleteBlock
    <3> QED BY <3>1, <3>4
  <2>2. CASE ~(h > lastBlock)
    BY <1>5, <2>2 DEF Fixed
  <2> QED BY <2>1, <2>2
<1>11. /\ InStep(d, p, filter', received') /\ PaidBefore(lastBlock') \subseteq received'
       /\ filter' # 0 => Covers(filter', received') /\ \A g \in orphans' : Matched(g, filter') \subseteq received'
  BY <1>7, <1>9, <1>10 DEF Fixed
<1> QED BY <1>8, <1>9, <1>11, FixedNext

\* The handling of a relayed block keeps the invariant.
LEMMA RelayedBlockKeeps ==
    ASSUME TypeOK, Fixed, NEW p \in Peers, RelayedBlock(p)
    PROVE  Fixed'
<1>0. ctx[p].in # <<>> /\ Head(ctx[p].in).msg = "relayed"
  BY DEF RelayedBlock, Reads
<1>1. /\ Scalars /\ tip \in Nat /\ ctx \in [Peers -> Contexts(tip)] /\ ctx[p] \in Contexts(tip)
      /\ p = downloadPeer /\ downloadPeer # NoPeer /\ ctx[p].status = "connected" /\ InStep(ctx[p], p, filter, received)
  BY <1>0, OnlyPeer
<1> DEFINE m == Head(ctx[p].in)
           h == m.block
           e == Taken(p)[p]
<1>2. /\ e \in Contexts(tip) /\ Taken(p) = [ctx EXCEPT ![p] = e] /\ m \in Replies(tip)
      /\ e.in = Tail(ctx[p].in) /\ e.out = ctx[p].out /\ e.needsUpdate = ctx[p].needsUpdate /\ Same(ctx[p], e)
      /\ e.status = "connected"
  BY <1>0, <1>1, TakenContext
<1>3. h \in 1..tip
  BY <1>0, <1>1, <1>2, ReplyFields
<1>4. filter # 0 => Matched(h, filter) \subseteq received
  <2>1. ctx[p].in \in Seq(Replies(tip))
    BY <1>1 DEF Contexts
  <2>2. m \in ToSet(ctx[p].in)
    BY <1>0, <2>1, TailKeeps
  <2> QED BY <1>0, <1>1, <2>2 DEF InStep, FilterAgrees
<1>5. PICK cs \in {Taken(p)} \cup (IF Degrades(p) THEN {UpdateFilter(Taken(p))} ELSE {}) :
              \/ Ignored(cs) /\ ctx' = cs /\ UNCHANGED <<chainVars, filter>>
              \/ ~Ignored(cs) /\ h > lastBlock + 1 /\ Orphan(p, cs, h)
              \/ ~Ignored(cs) /\ h <= lastBlock + 1 /\ Accepted(p, cs, h)
  BY DEF RelayedBlock
<1>6. UNCHANGED <<received, downloadPeer>>
  BY DEF RelayedBlock
<1> HIDE DEF e
<1>7. InStep(e, p, filter, received) /\ NoSecond(e)
  BY <1>0, <1>1, <1>2, TakeKeeps DEF Carrier
<1>8. Taken(p) = With(p, e)
  BY <1>2 DEF With
<1>9. PICK c \in Contexts(tip) : /\ cs = With(p, c) /\ c.status = "connected" /\ InStep(c, p, filter, received) /\ NoSecond(c)
  <2>1. CASE cs = Taken(p)
    BY <1>2, <1>7, <1>8, <2>1
  <2>2. CASE cs = UpdateFilter(Taken(p))
    <3>1. \E d \in Contexts(tip) : /\ UpdateFilter(Taken(p)) = With(p, d) /\ d.status = "connected" /\ d.needsUpdate
                                   /\ d.lastblock = e.lastblock /\ InStep(d, p, filter, received) /\ NoSecond(d)
      BY <1>1, <1>2, <1>7, <1>8, UpdateKeeps
    <3> QED BY <2>2, <3>1, ZenonT(60)
  <2> QED BY <1>5, <2>1, <2>2
<1> HIDE DEF h, m
<1>10. CASE ctx' = cs /\ UNCHANGED <<chainVars, filter>>
  <2>1. /\ InStep(c, p, filter', received') /\ PaidBefore(lastBlock') \subseteq received' /\ ctx' = [ctx EXCEPT ![p] = c]
        /\ filter' # 0 => Covers(filter', received') /\ \A g \in orphans' : Matched(g, filter') \subseteq received'
    BY <1>6, <1>9, <1>10 DEF Fixed, chainVars, With
  <2> QED BY <1>1, <1>6, <1>9, <2>1, FixedNext
<1>11. CASE ~Ignored(cs) /\ Orphan(p, cs, h)
  <2> DEFINE s == SendGetblocks(c, lastBlock)
  <2>1. cs[p] = c
    BY <1>1, <1>9 DEF With
  <2>2. ctx' = [cs EXCEPT ![p] = s] \/ ctx' = cs
    BY <1>11, <2>1 DEF Orphan
  <2>3. lastBlock \in 0..tip
    BY <1>1 DEF Scalars
  <2>4. InStep(s, p, filter, received) /\ s.status = "connected"
    BY <1>1, <1>9, <2>3, RequestsKeep
  <2> HIDE DEF s
  <2>5. ctx' = [ctx EXCEPT ![p] = s] \/ ctx' = [ctx EXCEPT ![p] = c]
    BY <1>1, <1>9, <2>2 DEF With
  <2>6. filter' = filter /\ lastBlock' = lastBlock /\ orphans' = orphans \cup {h} /\ filter # 0
    BY <1>11 DEF Orphan, Ignored
  <2>7. /\ InStep(s, p, filter', received') /\ InStep(c, p, filter', received') /\ PaidBefore(lastBlock') \subseteq received'
        /\ filter' # 0 => Covers(filter', received') /\ \A g \in orphans' : Matched(g, filter') \subseteq received'
    BY <1>4, <1>6, <1>9, <2>4, <2>6 DEF Fixed
  <2>8. CASE ctx' = [ctx EXCEPT ![p] = s]
    BY <1>1, <1>6, <2>4, <2>7, <2>8, FixedNext
  <2>9. CASE ctx' = [ctx EXCEPT ![p] = c]
    BY <1>1, <1>6, <1>9, <2>7, <2>9, FixedNext
  <2> QED BY <2>5, <2>8, <2>9
<1>12. CASE ~Ignored(cs) /\ h <= lastBlock + 1 /\ Accepted(p, cs, h)
  <2>1. filter # 0
    BY <1>12 DEF Ignored
  <2> QED BY <1>1, <1>3, <1>4, <1>6, <1>9, <1>12, <2>1, AcceptedKeeps
<1> QED BY <1>5, <1>10, <1>11, <1>12

\* The invariant after a remote peer has answered,
LEMMA ServeFixed ==
    ASSUME TypeOK, Fixed, NEW p \in Peers, Serve(p)
    PROVE  Fixed'
<1>0. ctx[p].status = "connected" /\ ctx[p].out # <<>>
  BY DEF Serve
<1>1. /\ Scalars /\ tip \in Nat /\ ctx \in [Peers -> Contexts(tip)] /\ ctx[p] \in Contexts(tip)
      /\ p = downloadPeer /\ downloadPeer # NoPeer /\ InStep(ctx[p], p, filter, received)
  BY <1>0, OnlyPeer
<1> DEFINE m == Head(ctx[p].out)
           r == Reply(ctx[p], m)
           d == Served(p)
<1>2. /\ ctx' = [ctx EXCEPT ![p] = d] /\ d \in Contexts(tip) /\ m \in Requests(tip) /\ r \in Seq(Replies(tip))
      /\ d.out = Tail(ctx[p].out) /\ d.in = ctx[p].in \o r
      /\ d.remote = (IF m.msg = "filterload" THEN m.filter ELSE ctx[p].remote)
      /\ d.status = ctx[p].status /\ d.needsUpdate = ctx[p].needsUpdate
      /\ d.currentBlock = ctx[p].currentBlock /\ d.currentTx = ctx[p].currentTx
  BY ServeIsServed
<1>3. Answer(ctx[p], m, r, tip)
  <2>1. /\ m.msg = "getblocks" => \A i \in DOMAIN r : r[i].msg = "inv"
        /\ m.msg = "getdata" => r \in Answers(tip, ctx[p].remote)
        /\ m.msg = "ping" => r = <<[msg |-> "pong", done |-> m.done, peer |-> m.peer]>>
        /\ m.msg = "filterload" => r = <<>>
    BY <1>1, <1>2, ReplyType
  <2>2. m.msg \in {"getblocks", "getdata", "filterload", "ping"}
    BY <1>2 DEF Requests
  <2> HIDE DEF m, r
  <2>3. m.msg = "getblocks" => \A x \in ToSet(r) : x.msg = "inv"
    BY <2>1 DEF ToSet
  <2> QED BY <2>1, <2>2, <2>3 DEF Answer
<1> HIDE DEF d, r
<1>4. InStep(d, p, filter, received) /\ d.status = "connected"
  BY <1>0, <1>1, <1>2, <1>3, ServeKeeps
<1>5. UNCHANGED <<downloadPeer, filter, received, orphans, lastBlock>>
  BY DEF Serve, chainVars
<1>6. /\ InStep(d, p, filter', received') /\ PaidBefore(lastBlock') \subseteq received'
      /\ filter' # 0 => Covers(filter', received') /\ \A g \in orphans' : Matched(g, filter') \subseteq received'
  BY <1>4, <1>5 DEF Fixed
<1> QED BY <1>1, <1>2, <1>4, <1>5, <1>6, FixedNext

\* after a new block,
LEMMA MineFixed ==
    ASSUME TypeOK, Fixed, Mine
    PROVE  Fixed'
<1>1. Scalars /\ ctx \in [Peers -> Contexts(tip)] /\ tip \in Nat
  BY Types DEF Scalars
<1> DEFINE m == [msg |-> "inv", blocks |-> <<tip + 1>>]
<1>2. m \in Replies(tip + 1) /\ m.msg = "inv"
  <2>1. <<tip + 1>> \in Seq(1..(tip + 1))
    <3>1. tip + 1 \in 1..(tip + 1)
      BY <1>1
    <3> QED BY <3>1
  <2> QED BY <2>1 DEF Replies
<1>3. UNCHANGED <<downloadPeer, filter, received, orphans, lastBlock>>
  BY DEF Mine, chainVars
<1> HIDE DEF m
<1>4. ctx' = [q \in Peers |-> IF q \in Online THEN [ctx[q] EXCEPT !.in = Append(ctx[q].in, m)] ELSE ctx[q]]
  BY DEF Mine, m
<1>5. \A q \in Peers : q # downloadPeer => ctx'[q] = NoContext
  <2>1. NoContext.status = "none"
    BY DEF NoContext
  <2> HIDE DEF NoContext
  <2> QED BY <1>4, <2>1 DEF Fixed, Online
<1>6. ASSUME downloadPeer # NoPeer
      PROVE  ctx'[downloadPeer].status = "connected" /\ InStep(ctx'[downloadPeer], downloadPeer, filter, received)
  <2> DEFINE c == ctx[downloadPeer]
             d == [c EXCEPT !.in = Append(c.in, m)]
  <2>1. downloadPeer \in Peers
    BY <1>1, <1>6 DEF Scalars
  <2>2. c.status = "connected" /\ InStep(c, downloadPeer, filter, received) /\ c \in Contexts(tip)
    BY <1>1, <1>6, <2>1 DEF Fixed
  <2>3. ctx'[downloadPeer] = d
    BY <1>4, <2>1, <2>2 DEF Online
  <2>4. c \in Contexts(tip + 1) /\ tip + 1 \in Nat
    BY <1>1, <2>2, ContextGrows
  <2>5. InStep(d, downloadPeer, filter, received)
    BY <1>2, <2>2, <2>4, MineKeeps
  <2>6. d.status = "connected"
    BY <2>2 DEF Contexts
  <2> QED BY <2>3, <2>5, <2>6
<1> QED BY <1>3, <1>5, <1>6 DEF Fixed

\* Without its peer the manager keeps its filter and its orphans.
LEMMA GoneFixed ==
    ASSUME TypeOK, Fixed, NEW p \in Peers, Closed(p) \/ SyncTimeout(p) \/ Breaks(p)
    PROVE  Fixed'
<1>1. ctx[p].status # "none" /\ Gone(p)
  BY DEF Closed, SyncTimeout, Breaks
<1>2. ctx \in [Peers -> Contexts(tip)] /\ p = downloadPeer
  BY <1>1, OnlyPeer
<1>3. downloadPeer' = NoPeer /\ ctx' = [ctx EXCEPT ![p] = NoContext]
      /\ filter' = filter /\ received' = received /\ orphans' = orphans /\ lastBlock' = lastBlock
  BY <1>1, <1>2 DEF Gone, chainVars
<1> HIDE DEF NoContext
<1>4. \A q \in Peers : ctx'[q] = NoContext
  BY <1>2, <1>3 DEF Fixed
<1> QED BY <1>3, <1>4 DEF Fixed

\* A new connection starts with a filter that covers what the wallet has, and with nothing in flight.
LEMMA ConnectKeeps ==
    ASSUME NEW n \in Nat, NEW c \in Contexts(n), NEW p, c.in = <<>>, c.out = <<>>, c.status = "connected", c.currentBlock = 0,
           NEW g \in Nat \ {0}, NEW R, NEW d, d = SendFilterload(c, g)
    PROVE  InStep(d, p, g, R) /\ d \in Contexts(n) /\ d.status = "connected"
<1> DEFINE m == [msg |-> "filterload", filter |-> g]
           s == Send(c, m)
<1>1. m \in Requests(n) /\ m.msg = "filterload" /\ m.filter = g /\ ~Second(m) /\ ~Pending(m)
  BY RequestTypes DEF Second, Pending
<1> HIDE DEF m
<1>2. s.out = Append(<<>>, m) /\ s.in = <<>> /\ s.status = "connected" /\ s.currentBlock = 0 /\ s \in Contexts(n)
  BY <1>1, SendType DEF Send, Contexts
<1>3. Append(<<>>, m) = <<m>>
  OBVIOUS
<1> HIDE DEF s
<1>4. d = [s EXCEPT !.sentFilter = TRUE]
  BY DEF SendFilterload, s, m
<1>5. d.out = <<m>> /\ d.in = <<>> /\ d.status = "connected" /\ d.currentBlock = 0 /\ d \in Contexts(n)
  BY <1>2, <1>3, <1>4 DEF Contexts
<1>6. ToSet(d.out) = {m} /\ OutOrder(d.out) /\ ToSet(d.in) = {} /\ InOrder(d.in) /\ Followed(d.in)
  <2>1. ToSet(<<m>>) = {m} /\ OutOrder(<<m>>)
    BY <1>1, OneElement
  <2>2. ToSet(<<>>) = {} /\ InOrder(<<>>) /\ Followed(<<>>)
    BY DEF ToSet, InOrder, Followed
  <2> QED BY <1>5, <2>1, <2>2
<1> QED BY <1>1, <1>5, <1>6 DEF InStep, Crossing, SecondWaits, NoSecond, PendingWaits, NoPending, BlockWaits, FilterAgrees, OwnPings

\* and after a new connection.
LEMMA PeerConnectedFixed ==
    ASSUME TypeOK, Fixed, maxConnectCount = 1, NEW p \in Peers, PeerConnected(p)
    PROVE  Fixed'
<1>1. Scalars /\ ctx \in [Peers -> Contexts(tip)] /\ tip \in Nat /\ lastBlock \in 0..tip /\ tip \in 0..tip
  BY Types DEF Scalars
<1>2. NoContext.status = "none" /\ NoContext.in = <<>> /\ NoContext.out = <<>> /\ NoContext.currentBlock = 0 /\ NoContext \in Contexts(tip)
  BY <1>1, NoContextType DEF NoContext
<1> HIDE DEF NoContext
<1>3. downloadPeer = NoPeer
  <2> SUFFICES ASSUME downloadPeer # NoPeer PROVE FALSE
    OBVIOUS
  <2>1. downloadPeer \in Peers
    BY <1>1 DEF Scalars
  <2>2. Connected(ctx) = {downloadPeer}
    BY <1>2, <2>1 DEF Connected, Fixed
  <2>3. Cardinality({downloadPeer}) = 1
    BY FS_Singleton
  <2> QED BY <2>2, <2>3 DEF PeerConnected
<1>4. \A q \in Peers : ctx[q] = NoContext
  BY <1>3, FilterAssumption DEF Fixed
<1>5. ~StickWith(tip)
  BY <1>3 DEF StickWith
<1> DEFINE nc == [NoContext EXCEPT !.status = "connected", !.lastblock = tip]
           new == [ctx EXCEPT ![p] = nc]
           fc == SendFilterload(nc, Coverage)
           gc == SendGetblocks(fc, lastBlock)
<1>6. nc \in Contexts(tip) /\ nc.status = "connected" /\ nc.in = <<>> /\ nc.out = <<>> /\ nc.currentBlock = 0
  BY <1>1, <1>2 DEF Contexts
<1>7. PICK n \in 0..1, d \in Fastest(new, tip) :
                LET old == IF downloadPeer = NoPeer THEN new
                           ELSE Closing(new, downloadPeer, IF new[downloadPeer].in = <<>> THEN 0 ELSE n)
                    mine == [old EXCEPT ![d] = SendFilterload(@, Coverage)]
                IN  /\ downloadPeer' = d /\ estimated' = tip
                    /\ Loaded(TRUE)
                    /\ ctx' = IF lastBlock < tip THEN [mine EXCEPT ![d] = SendGetblocks(@, lastBlock)]
                              ELSE LoadOn(mine, OtherPeers(mine, d), "loadBloomFilterDone")
  BY <1>5 DEF PeerConnected
<1> HIDE DEF nc
<1>8. d = p
  <2>1. \A q \in Peers : q # p => new[q] = NoContext
    BY <1>1, <1>4
  <2> HIDE DEF new
  <2> QED BY <1>2, <2>1 DEF Fastest, Connected
<1> DEFINE mineOf(q) == [new EXCEPT ![q] = SendFilterload(new[q], Coverage)]
           mine == mineOf(p)
<1>8a. /\ downloadPeer' = d /\ Loaded(TRUE)
       /\ ctx' = IF lastBlock < tip THEN [mineOf(d) EXCEPT ![d] = SendGetblocks(mineOf(d)[d], lastBlock)]
                 ELSE LoadOn(mineOf(d), OtherPeers(mineOf(d), d), "loadBloomFilterDone")
  <2> HIDE DEF new
  <2> QED BY <1>3, <1>7
<1>9. /\ downloadPeer' = p /\ Loaded(TRUE)
      /\ ctx' = IF lastBlock < tip THEN [mine EXCEPT ![p] = SendGetblocks(mine[p], lastBlock)]
                ELSE LoadOn(mine, OtherPeers(mine, p), "loadBloomFilterDone")
  <2> HIDE DEF mineOf
  <2> QED BY <1>8, <1>8a
<1>10. Coverage \in Nat \ {0} /\ Covers(Coverage, received)
  BY <1>1, CoverageType
<1>11. InStep(fc, p, Coverage, received) /\ fc \in Contexts(tip) /\ fc.status = "connected"
  BY <1>1, <1>6, <1>10, ConnectKeeps
<1>12. InStep(gc, p, Coverage, received) /\ gc.status = "connected"
  <2> HIDE DEF fc
  <2> QED BY <1>1, <1>11, RequestsKeep
<1>13. mine = [ctx EXCEPT ![p] = fc] /\ mine[p] = fc
  <2>1. new[p] = nc
    BY <1>1
  <2>2. mine = [new EXCEPT ![p] = fc]
    BY <2>1
  <2> HIDE DEF fc, mine
  <2> QED BY <1>1, <2>2
<1> HIDE DEF mine, new
<1>14. \A q \in Peers : q # p => mine[q] = NoContext
  <2> HIDE DEF fc
  <2> QED BY <1>1, <1>4, <1>13
<1>15. OtherPeers(mine, p) = {}
  BY <1>2, <1>14 DEF OtherPeers, Connected
<1>16. LoadOn(mine, {}, "loadBloomFilterDone") = mine
  <2>1. mine = [q \in Peers |-> mine[q]]
    <3> HIDE DEF fc
    <3> QED BY <1>1, <1>13
  <2>2. LoadOn(mine, {}, "loadBloomFilterDone") = [q \in Peers |-> mine[q]]
    BY DEF LoadOn
  <2> QED BY <2>1, <2>2
<1>17. ctx' = [ctx EXCEPT ![p] = gc] \/ ctx' = [ctx EXCEPT ![p] = fc]
  <2>1. ctx' = [mine EXCEPT ![p] = gc] \/ ctx' = mine
    BY <1>9, <1>13, <1>15, <1>16
  <2> HIDE DEF fc, gc
  <2> QED BY <1>1, <1>13, <2>1
<1> HIDE DEF gc, fc
<1>18. filter' = Coverage /\ orphans' = {} /\ received' = received /\ lastBlock' = lastBlock
  BY <1>9 DEF Loaded, PeerConnected
<1>19. (\A q \in Peers : q # p => ctx'[q] = NoContext) /\ (ctx'[p] = gc \/ ctx'[p] = fc)
  BY <1>1, <1>4, <1>17
<1>20. ctx'[downloadPeer'].status = "connected" /\ InStep(ctx'[downloadPeer'], downloadPeer', filter', received')
  BY <1>9, <1>11, <1>12, <1>18, <1>19
<1> QED BY <1>9, <1>10, <1>18, <1>19, <1>20 DEF Fixed

Inductive == TypeOK /\ (maxConnectCount = 1 => Fixed)

\* The invariant holds first,
LEMMA FixedInit == Init => Inductive
<1> SUFFICES ASSUME Init PROVE Fixed
  BY TypeInit DEF Inductive
<1>1. PaidBefore(0) = {}
  BY DEF PaidBefore
<1> HIDE DEF NoContext
<1> QED BY <1>1 DEF Init, Fixed

\* and every step keeps it.
LEMMA FixedStep == Inductive /\ [Next]_vars => Inductive'
<1> SUFFICES ASSUME TypeOK, [Next]_vars, maxConnectCount = 1 => Fixed
             PROVE  TypeOK' /\ (maxConnectCount' = 1 => Fixed')
  BY DEF Inductive
<1>1. TypeOK'
  BY TypeStep
<1>2. maxConnectCount' = maxConnectCount
  <2>1. CASE UNCHANGED vars
    BY <2>1 DEF vars
  <2>2. CASE Mine
    BY <2>2 DEF Mine
  <2>3. ASSUME NEW p \in Peers, PeerConnected(p) \/ Closed(p) \/ SyncTimeout(p) \/ Breaks(p) \/ Handle(p) \/ Serve(p)
        PROVE  maxConnectCount' = maxConnectCount
    <3>1. CASE PeerConnected(p)
      BY <3>1 DEF PeerConnected
    <3>2. CASE Closed(p) \/ SyncTimeout(p) \/ Breaks(p)
      <4>1. CASE Closed(p)
        BY <4>1 DEF Closed, Gone
      <4>2. CASE SyncTimeout(p)
        BY <4>2 DEF SyncTimeout, Gone
      <4>3. CASE Breaks(p)
        BY <4>3 DEF Breaks, Gone
      <4> QED BY <3>2, <4>1, <4>2, <4>3
    <3>3. CASE AcceptInv(p) \/ AcceptMerkleblock(p) \/ AcceptTx(p)
      BY <3>3 DEF AcceptInv, AcceptMerkleblock, AcceptTx
    <3>4. CASE AcceptPong(p) \/ RelayedBlock(p)
      BY <3>4 DEF AcceptPong, RelayedBlock
    <3>5. CASE Serve(p)
      BY <3>5 DEF Serve
    <3> QED BY <2>3, <3>1, <3>2, <3>3, <3>4, <3>5 DEF Handle
  <2> QED BY <2>1, <2>2, <2>3 DEF Next
<1>3. ASSUME Fixed, maxConnectCount = 1
      PROVE  Fixed'
  <2>1. CASE UNCHANGED vars
    BY <1>3, <2>1 DEF vars, chainVars, Fixed
  <2>2. CASE Mine
    BY <1>3, <2>2, MineFixed
  <2>3. ASSUME NEW p \in Peers, PeerConnected(p) \/ Closed(p) \/ SyncTimeout(p) \/ Breaks(p) \/ Handle(p) \/ Serve(p)
        PROVE  Fixed'
    <3>1. CASE PeerConnected(p)
      BY <1>3, <3>1, PeerConnectedFixed
    <3>2. CASE Closed(p) \/ SyncTimeout(p) \/ Breaks(p)
      BY <1>3, <3>2, GoneFixed
    <3>3. CASE Handle(p)
      BY <1>3, <3>3, AcceptInvKeeps, AcceptMerkleblockKeeps, AcceptTxKeeps, AcceptPongKeeps, RelayedBlockKeeps DEF Handle
    <3>4. CASE Serve(p)
      BY <1>3, <3>4, ServeFixed
    <3> QED BY <2>3, <3>1, <3>2, <3>3, <3>4
  <2> QED BY <2>1, <2>2, <2>3 DEF Next
<1> QED BY <1>1, <1>2, <1>3

\* With a fixed peer no payment is missed: whatever the wallet is paid within the gap limit, however the
\* blocks are batched, whenever the filter is used up or degrades, whatever is in flight then, and however
\* often the connection breaks, every block the manager has taken has given the wallet all its transactions.
THEOREM NothingMissedCorrect == Spec => []NothingMissed
<1>1. Inductive => NothingMissed
  BY DEF Inductive, Fixed, NothingMissed
<1>2. Init => Inductive
  BY FixedInit
<1>3. Inductive /\ [Next]_vars => Inductive'
  BY FixedStep
<1> QED BY <1>1, <1>2, <1>3, PTL DEF Spec

=============================================================================
