---------------------- MODULE BRPeerManagerPeersProofs ----------------------
(***************************************************************************)
(* Theorems about the connections of the peer manager, for any number of   *)
(* addresses, transactions and connections: types, the download peer is    *)
(* one the manager has, and the relay counts are of peers it has.          *)
(*                                                                         *)
(* The three invariants are inductive together. Most handlers leave the    *)
(* status of every peer alone, so that the proof is mostly about what the  *)
(* functions on contexts keep (Like, Alike); the steps that matter are the *)
(* three that change a status: a peer is added, its handshake is done, and *)
(* its thread ends or is reported as gone.                                 *)
(***************************************************************************)
EXTENDS BRPeerManagerPeers, InductionLemmas

Contexts ==
    [status : Statuses, open : BOOLEAN, timer : BOOLEAN, synced : BOOLEAN, filter : BOOLEAN, sentMempool : BOOLEAN,
     mempoolDone : BOOLEAN, known : SUBSET Txs, queue : Seq(Messages), error : Errors]

\* d is a context with the status of c
Like(c, d) == d \in Contexts /\ d.status = c.status

\* the same for the contexts of all peers
Alike(cs, ds) == ds \in [Addrs -> Contexts] /\ \A a \in Addrs : ds[a].status = cs[a].status

\* the conjuncts of TypeOK that are not about ctx
SyncTypes ==
    /\ downloadPeer \in Addrs \cup {NoPeer} /\ isConnected \in BOOLEAN
    /\ failures \in Nat /\ syncing \in BOOLEAN /\ height \in Nat /\ estimated \in Nat
TxTypes ==
    /\ published \subseteq Txs /\ callbacks \subseteq published
    /\ relays \in [Txs -> SUBSET Addrs] /\ requests \in [Txs -> SUBSET Addrs]
    /\ listed \subseteq allTx /\ allTx \subseteq Txs
ThreadTypes ==
    /\ reconnects \in Nat /\ connecting \in Nat
    /\ app \in [call : {"none", "disconnect", "stopped"}] \cup [call : {"publish"}, tx : Txs]
    /\ mempool \in [Addrs -> SUBSET Txs] /\ faults \in 0..MaxFaults

Inductive == TypeOK /\ DownloadPeerLives /\ RelaysAreConnected

\* The type invariant, in four parts.
LEMMA Types == TypeOK <=> ctx \in [Addrs -> Contexts] /\ SyncTypes /\ TxTypes /\ ThreadTypes
  BY DEF TypeOK, Contexts, SyncTypes, TxTypes, ThreadTypes

(***************************************************************************)
(* The pings of a queue: induction over its length.                        *)
(***************************************************************************)
LEMMA PingsType ==
    ASSUME NEW q \in Seq(Messages)
    PROVE  Pings(q) \in Seq(Messages)
<1> DEFINE Def(f, i) == IF i = 0 THEN <<>> ELSE IF q[i].msg = "ping" THEN Append(f[i - 1], q[i]) ELSE f[i - 1]
           Exists(n) == \E g \in [0..n -> Seq(Messages)] : \A i \in 0..n : g[i] = Def(g, i)
           S == {n \in Nat : n <= Len(q) => Exists(n)}
           upTo == CHOOSE f : f = [i \in 0..Len(q) |-> Def(f, i)]
           U == {n \in Nat : n <= Len(q) => upTo[n] \in Seq(Messages)}
<1>1. <<>> \in Seq(Messages) /\ Len(q) \in Nat
  OBVIOUS
\* a function that the recursion defines exists ...
<1>2. 0 \in S
  <2>1. [i \in 0..0 |-> <<>>] \in [0..0 -> Seq(Messages)]
    OBVIOUS
  <2>2. Exists(0)
    <3> WITNESS [i \in 0..0 |-> <<>>] \in [0..0 -> Seq(Messages)]
    <3> QED OBVIOUS
  <2> HIDE DEF Exists
  <2> QED BY <2>2
<1>3. ASSUME NEW n \in Nat, n \in S
      PROVE  n + 1 \in S
  <2>1. SUFFICES ASSUME n + 1 <= Len(q) PROVE Exists(n + 1)
    <3> HIDE DEF Exists
    <3> QED OBVIOUS
  <2>2. Exists(n)
    <3> HIDE DEF Exists
    <3> QED BY <1>1, <1>3, <2>1
  <2>3. PICK g \in [0..n -> Seq(Messages)] : \A i \in 0..n : g[i] = Def(g, i)
    BY <2>2
  <2> DEFINE last == IF q[n + 1].msg = "ping" THEN Append(g[n], q[n + 1]) ELSE g[n]
             h == [i \in 0..n + 1 |-> IF i = n + 1 THEN last ELSE g[i]]
  <2>4. last \in Seq(Messages)
    BY <2>1
  <2>5. h \in [0..n + 1 -> Seq(Messages)]
    <3> HIDE DEF last
    <3> QED BY <2>4
  <2>6. ASSUME NEW i \in 0..n + 1
        PROVE  h[i] = Def(h, i)
    <3>1. CASE i = n + 1
      <4>1. h[i - 1] = g[n] /\ h[i] = last
        BY <3>1
      <4> QED BY <3>1, <4>1
    <3>2. CASE i \in 0..n
      <4>1. h[i] = g[i] /\ (i # 0 => h[i - 1] = g[i - 1])
        BY <3>2
      <4>2. g[i] = Def(g, i)
        BY <2>3, <3>2
      <4> QED BY <3>2, <4>1, <4>2
    <3> QED BY <3>1, <3>2
  <2> HIDE DEF h
  <2> QED BY <2>5, <2>6
<1>4. Exists(Len(q))
  <2> HIDE DEF Exists
  <2>1. \A n \in Nat : n \in S
    <3> HIDE DEF S
    <3> QED BY <1>2, <1>3, SetInduction
  <2> QED BY <1>1, <2>1
<1>5. PICK g \in [0..Len(q) -> Seq(Messages)] : \A i \in 0..Len(q) : g[i] = Def(g, i)
  BY <1>4
<1>6. g = [i \in 0..Len(q) |-> Def(g, i)]
  BY <1>5
<1>7. upTo = [i \in 0..Len(q) |-> Def(upTo, i)]
  <2> HIDE DEF Def
  <2> QED BY <1>6
\* ... and its values are sequences of messages
<1>8. \A i \in 0..Len(q) : upTo[i] = Def(upTo, i)
  <2> HIDE DEF upTo
  <2> QED BY <1>7
<1>9. upTo[Len(q)] \in Seq(Messages)
  <2> HIDE DEF upTo
  <2>1. 0 \in U
    <3>1. upTo[0] = <<>>
      BY <1>8
    <3> QED BY <1>1, <3>1
  <2>2. ASSUME NEW n \in Nat, n \in U
        PROVE  n + 1 \in U
    <3>1. SUFFICES ASSUME n + 1 <= Len(q) PROVE upTo[n + 1] \in Seq(Messages)
      OBVIOUS
    <3>2. upTo[n + 1] = Def(upTo, n + 1) /\ q[n + 1] \in Messages /\ upTo[n] \in Seq(Messages)
      BY <1>8, <2>2, <3>1
    <3> QED BY <3>2
  <2>3. \A n \in Nat : n \in U
    <3> HIDE DEF U
    <3> QED BY <2>1, <2>2, SetInduction
  <2> QED BY <1>1, <2>3
<1> QED BY <1>9 DEF Pings

(***************************************************************************)
(* What is asked of one peer keeps types and status.                       *)
(***************************************************************************)
LEMMA NewTypes == NewPeer \in Contexts /\ NoContext \in Contexts /\ NoContext.status = "none" /\ NewPeer.status = "connecting"
<1>1. NewPeer \in Contexts /\ NewPeer.status = "connecting"
  BY DEF NewPeer, Contexts, Statuses, Errors
<1> HIDE DEF NewPeer
<1> QED BY <1>1 DEF NoContext, Contexts, Statuses

\* The manager may set the flags of a peer,
LEMMA FlagTypes ==
    ASSUME NEW c \in Contexts
    PROVE  Like(c, c) /\ Like(c, Disconnect(c)) /\ Like(c, Schedule(c)) /\ Like(c, Cancel(c)) /\ Like(c, LoadBloomFilter(c))
  BY DEF Like, Contexts, Disconnect, Schedule, Cancel, LoadBloomFilter

\* do so several times,
LEMMA LikeTrans ==
    ASSUME NEW c, NEW d, NEW e, Like(c, d), Like(d, e)
    PROVE  Like(c, e)
  BY DEF Like

\* change the queue of messages,
LEMMA QueueType ==
    ASSUME NEW c \in Contexts, NEW q \in Seq(Messages)
    PROVE  Like(c, [c EXCEPT !.queue = q])
  BY DEF Like, Contexts

\* and the hashes the peer knows.
LEMMA KnownType ==
    ASSUME NEW c \in Contexts, NEW k \in SUBSET Txs, NEW b \in BOOLEAN
    PROVE  /\ Like(c, [c EXCEPT !.timer = b, !.known = k]) /\ [c EXCEPT !.timer = b, !.known = k].known = k
           /\ Like(c, [c EXCEPT !.known = k])
  BY DEF Like, Contexts

\* BRPeerSendPing keeps the type of a peer,
LEMMA SendPingType ==
    ASSUME NEW c \in Contexts, NEW done \in Callbacks
    PROVE  Like(c, SendPing(c, done))
<1>1. [msg |-> "ping", done |-> done] \in Messages
  BY DEF Messages
<1>2. c.queue \in Seq(Messages)
  BY DEF Contexts
<1>3. Append(c.queue, [msg |-> "ping", done |-> done]) \in Seq(Messages)
  BY <1>1, <1>2
<1> QED BY <1>3, QueueType DEF SendPing

\* and so does sending a message for each transaction.
LEMMA SendEachType ==
    ASSUME NEW c \in Contexts, NEW kind \in {"inv", "getdata"}, NEW T \in SUBSET Txs
    PROVE  Like(c, SendEach(c, kind, T))
<1> DEFINE n == Cardinality(T)
           order == CHOOSE s \in [1..n -> T] : \A t \in T : \E i \in DOMAIN s : s[i] = t
           sent == [i \in 1..n |-> [msg |-> kind, tx |-> order[i]]]
<1>1. n \in Nat /\ \E s \in [1..n -> T] : \A t \in T : \E i \in DOMAIN s : s[i] = t
  <2>1. IsFiniteSet(T)
    BY FS_Subset, PeersAssumption
  <2>2. n \in Nat /\ ExistsBijection(1..n, T)
    BY <2>1, FS_CardinalityType
  <2>3. PICK s \in Surjection(1..n, T) : TRUE
    BY <2>2 DEF ExistsBijection, Bijection
  <2> HIDE DEF n
  <2> QED BY <2>2, <2>3 DEF Surjection
<1>2. order \in [1..n -> T]
  BY <1>1
<1> HIDE DEF order, n
<1>3. sent \in Seq(Messages)
  <2>1. ASSUME NEW i \in 1..n
        PROVE  [msg |-> kind, tx |-> order[i]] \in Messages
    BY <1>2 DEF Messages
  <2> QED BY <1>1, <2>1
<1>4. c.queue \in Seq(Messages)
  BY DEF Contexts
<1>5. c.queue \o sent \in Seq(Messages)
  <2> HIDE DEF sent
  <2> QED BY <1>3, <1>4
<1>6. SendEach(c, kind, T) = IF c.open THEN [c EXCEPT !.queue = c.queue \o sent] ELSE c
  BY DEF SendEach, sent, order, n
<1> HIDE DEF sent
<1> QED BY <1>5, <1>6, QueueType, FlagTypes

\* Publishing to a peer keeps its type,
LEMMA PublishType ==
    ASSUME NEW c \in Contexts, NEW P \in SUBSET Txs, NEW C
    PROVE  Like(c, PublishPendingTx(c, P, C))
<1> DEFINE b == c.timer \/ C # {}
           k == c.known \cup P
           d == [c EXCEPT !.timer = b, !.known = k]
<1>1. b \in BOOLEAN /\ k \in SUBSET Txs
  BY DEF Contexts
<1>2. PublishPendingTx(c, P, C) = SendEach(d, "inv", P \ c.known)
  BY DEF PublishPendingTx
<1> HIDE DEF b, k
<1>3. Like(c, d)
  BY <1>1, KnownType
<1> HIDE DEF d
<1>4. d \in Contexts
  BY <1>3 DEF Like
<1>5. Like(d, SendEach(d, "inv", P \ c.known))
  BY <1>4, SendEachType
<1> QED BY <1>2, <1>3, <1>5, LikeTrans

\* and so does BRPeerSendMempool,
LEMMA SendMempoolType ==
    ASSUME NEW c \in Contexts, published \subseteq Txs
    PROVE  Like(c, SendMempool(c))
<1>1. [msg |-> "mempool"] \in Messages
  BY DEF Messages
<1>2. c.queue \in Seq(Messages) /\ c.known \subseteq Txs
  BY DEF Contexts
<1> DEFINE q == IF c.open THEN Append(c.queue, [msg |-> "mempool"]) ELSE c.queue
           k == c.known \cup published
<1>3. q \in Seq(Messages) /\ k \in SUBSET Txs
  BY <1>1, <1>2
<1>4. SendMempool(c) = IF c.sentMempool \/ c.mempoolDone THEN [c EXCEPT !.sentMempool = TRUE]
                       ELSE [c EXCEPT !.sentMempool = TRUE, !.mempoolDone = TRUE, !.known = k, !.queue = q]
  BY DEF SendMempool
<1> HIDE DEF q, k
<1>5. Like(c, [c EXCEPT !.sentMempool = TRUE])
  BY DEF Like, Contexts
<1>6. Like(c, [c EXCEPT !.sentMempool = TRUE, !.mempoolDone = TRUE, !.known = k, !.queue = q])
  BY <1>3 DEF Like, Contexts
<1> QED BY <1>4, <1>5, <1>6

\* and asking for unrelayed transactions.
LEMMA RequestType ==
    ASSUME NEW c \in Contexts, NEW a, listed \subseteq Txs
    PROVE  Like(c, RequestUnrelayedTx(c, a))
<1> DEFINE asked == SendEach(c, "getdata", Unasked(a))
<1>1. Unasked(a) \in SUBSET Txs
  BY DEF Unasked
<1>2. Like(c, asked)
  BY <1>1, SendEachType
<1>3. asked \in Contexts
  BY <1>2 DEF Like
<1>4. RequestUnrelayedTx(c, a) \in {[c EXCEPT !.synced = TRUE], asked, SendPing(asked, "getdataDone")}
  BY DEF RequestUnrelayedTx
<1>5. Like(c, [c EXCEPT !.synced = TRUE])
  BY DEF Like, Contexts
<1> HIDE DEF asked
<1>6. Like(c, SendPing(asked, "getdataDone"))
  BY <1>2, <1>3, SendPingType, LikeTrans DEF Callbacks
<1> QED BY <1>2, <1>4, <1>5, <1>6

\* a filter, the publish list, and a ping behind them
LEMMA FilterPublishType ==
    ASSUME NEW c \in Contexts, NEW P \in SUBSET Txs, NEW C, NEW done \in Callbacks
    PROVE  /\ Like(c, PublishPendingTx(LoadBloomFilter(c), P, C))
           /\ Like(c, SendPing(PublishPendingTx(LoadBloomFilter(c), P, C), done))
           /\ Like(c, SendPing(PublishPendingTx(c, P, C), done))
<1>1. ASSUME NEW d, Like(c, d)
      PROVE  Like(c, PublishPendingTx(d, P, C)) /\ Like(c, SendPing(PublishPendingTx(d, P, C), done))
  <2>1. Like(d, PublishPendingTx(d, P, C))
    BY <1>1, PublishType DEF Like
  <2>2. Like(PublishPendingTx(d, P, C), SendPing(PublishPendingTx(d, P, C), done))
    BY <2>1, SendPingType DEF Like
  <2> QED BY <1>1, <2>1, <2>2, LikeTrans
<1> QED BY <1>1, FlagTypes

(***************************************************************************)
(* The contexts of all peers.                                              *)
(***************************************************************************)
LEMMA AlikeOne ==
    ASSUME NEW cs \in [Addrs -> Contexts], NEW a \in Addrs, NEW d, Like(cs[a], d)
    PROVE  Alike(cs, [cs EXCEPT ![a] = d])
  BY DEF Alike, Like

\* Several changes of the peers of this kind.
LEMMA AlikeTrans ==
    ASSUME NEW cs, NEW ds, NEW es, Alike(cs, ds), Alike(ds, es)
    PROVE  Alike(cs, es)
  BY DEF Alike

\* _BRPeerManagerLoadMempools makes no other,
LEMMA LoadMempoolsAlike ==
    ASSUME NEW cs \in [Addrs -> Contexts], NEW d, published \subseteq Txs
    PROVE  Alike(cs, LoadMempools(cs, d))
<1>1. ASSUME NEW a \in Addrs
      PROVE  Like(cs[a], LoadMempools(cs, d)[a])
  <2>1. LoadMempools(cs, d)[a] \in
            {cs[a], SendMempool(cs[a]),
             SendPing(PublishPendingTx(LoadBloomFilter(cs[a]), published, callbacks), "loadBloomFilterDone")}
    BY DEF LoadMempools
  <2>2. cs[a] \in Contexts /\ published \in SUBSET Txs /\ "loadBloomFilterDone" \in Callbacks
    BY DEF Callbacks
  <2>3. Like(cs[a], cs[a]) /\ Like(cs[a], SendMempool(cs[a]))
    BY <2>2, FlagTypes, SendMempoolType
  <2>4. Like(cs[a], SendPing(PublishPendingTx(LoadBloomFilter(cs[a]), published, callbacks), "loadBloomFilterDone"))
    BY <2>2, FilterPublishType
  <2> QED BY <2>1, <2>3, <2>4
<1>2. LoadMempools(cs, d) = [a \in Addrs |-> LoadMempools(cs, d)[a]]
  BY DEF LoadMempools
<1> QED BY <1>1, <1>2 DEF Alike, Like

\* nor does _BRPeerManagerSyncStopped.
LEMMA SyncStoppedAlike ==
    ASSUME NEW cs \in [Addrs -> Contexts], downloadPeer \in Addrs \cup {NoPeer}
    PROVE  Alike(cs, SyncStopped(cs))
<1>1. Alike(cs, cs)
  BY DEF Alike
<1>2. CASE downloadPeer # NoPeer /\ callbacks = {}
  <2>1. Like(cs[downloadPeer], Cancel(cs[downloadPeer]))
    BY <1>2, FlagTypes
  <2> QED BY <1>2, <2>1, AlikeOne DEF SyncStopped
<1> QED BY <1>1, <1>2 DEF SyncStopped

(***************************************************************************)
(* Steps that leave the status of every peer and the download peer alone.  *)
(***************************************************************************)
\* The relays are of peers that are connected already.
LEMMA StatusesKept ==
    ASSUME Inductive, Alike(ctx, ctx'), UNCHANGED <<downloadPeer, isConnected>>,
           \A t \in Txs : relays'[t] \subseteq connectedPeers
    PROVE  DownloadPeerLives' /\ RelaysAreConnected'
<1>1. SyncTypes /\ ctx' \in [Addrs -> Contexts] /\ \A a \in Addrs : ctx'[a].status = ctx[a].status
  BY Types DEF Inductive, Alike
<1>2. connectedPeers' = connectedPeers
  BY <1>1 DEF connectedPeers
<1>3. RelaysAreConnected'
  BY <1>2 DEF RelaysAreConnected
<1>4. downloadPeer # NoPeer => ctx'[downloadPeer].status \in {"connected", "ended"}
  BY <1>1 DEF Inductive, DownloadPeerLives, SyncTypes
<1>5. isConnected <=> downloadPeer # NoPeer
  BY DEF Inductive, DownloadPeerLives
<1> QED BY <1>3, <1>4, <1>5 DEF DownloadPeerLives

\* The same when the relays do not change.
LEMMA QuietStep ==
    ASSUME Inductive, Alike(ctx, ctx'), UNCHANGED <<downloadPeer, isConnected, relays>>,
           SyncTypes', TxTypes', ThreadTypes'
    PROVE  Inductive'
<1>1. \A t \in Txs : relays'[t] \subseteq connectedPeers
  BY DEF Inductive, RelaysAreConnected
<1>2. ctx' \in [Addrs -> Contexts]
  BY DEF Alike
<1>3. TypeOK'
  BY <1>2, Types DEF TypeOK, Contexts, SyncTypes, TxTypes, ThreadTypes
<1> QED BY <1>1, <1>3, StatusesKept DEF Inductive

\* One context changes, and the relays with this peer.
LEMMA TalkStep ==
    ASSUME Inductive, NEW a \in Addrs, ctx[a].status # "none", NEW d, Like(ctx[a], d), ctx' = [ctx EXCEPT ![a] = d],
           UNCHANGED syncVars, \A t \in Txs : relays'[t] \subseteq relays[t] \cup {a}, TxTypes', ThreadTypes'
    PROVE  Inductive'
<1>1. ctx \in [Addrs -> Contexts] /\ SyncTypes
  BY Types DEF Inductive
<1>2. Alike(ctx, ctx')
  BY <1>1, AlikeOne
<1>3. \A t \in Txs : relays'[t] \subseteq connectedPeers
  BY DEF Inductive, RelaysAreConnected, connectedPeers
<1>4. SyncTypes'
  BY <1>1 DEF SyncTypes, syncVars
<1>5. TypeOK'
  BY <1>2, <1>4, Types DEF TypeOK, Contexts, SyncTypes, TxTypes, ThreadTypes, Alike
<1> QED BY <1>2, <1>3, <1>5, StatusesKept DEF Inductive, syncVars

\* What is left alone keeps its type.
LEMMA SameTypes ==
    /\ SyncTypes /\ UNCHANGED syncVars => SyncTypes'
    /\ TxTypes /\ UNCHANGED txVars => TxTypes'
    /\ ThreadTypes /\ UNCHANGED <<threadVars, mempool, faults>> => ThreadTypes'
    /\ ctx \in [Addrs -> Contexts] => Alike(ctx, ctx)
<1>1. SyncTypes /\ UNCHANGED syncVars => SyncTypes'
  BY DEF SyncTypes, syncVars
<1>2. TxTypes /\ UNCHANGED txVars => TxTypes'
  BY DEF TxTypes, txVars
<1>3. ThreadTypes /\ UNCHANGED <<threadVars, mempool, faults>> => ThreadTypes'
  BY DEF ThreadTypes, threadVars
<1> QED BY <1>1, <1>2, <1>3 DEF Alike

\* A fault is counted.
LEMMA FaultType ==
    ASSUME ThreadTypes, UNCHANGED <<threadVars, mempool>>,
           faults' = faults \/ (faults < MaxFaults /\ faults' = faults + 1)
    PROVE  ThreadTypes'
<1>1. faults' \in 0..MaxFaults
  BY PeersAssumption DEF ThreadTypes
<1> QED BY <1>1 DEF ThreadTypes, threadVars

(***************************************************************************)
(* Connecting.                                                             *)
(***************************************************************************)
LEMMA ConnectStep ==
    ASSUME Inductive, Connect \/ Reconnect
    PROVE  Inductive'
<1>1. ctx \in [Addrs -> Contexts] /\ SyncTypes /\ TxTypes /\ ThreadTypes
  BY Types DEF Inductive
<1>2. ConnectBegin
  BY DEF Connect, Reconnect
<1>3. Alike(ctx, ctx') /\ UNCHANGED <<downloadPeer, isConnected, relays>> /\ TxTypes'
  BY <1>1, <1>2, SameTypes DEF ConnectBegin, txVars
<1>4. SyncTypes'
  <2>1. failures' \in Nat /\ syncing' \in BOOLEAN
    BY <1>1, <1>2 DEF ConnectBegin, SyncTypes
  <2> QED BY <1>1, <1>2, <2>1 DEF ConnectBegin, SyncTypes
<1>5. ThreadTypes'
  <2>1. connecting' \in Nat /\ UNCHANGED mempool
    BY <1>1, <1>2 DEF ConnectBegin, ThreadTypes
  <2>2. CASE Connect
    BY <1>1, <2>1, <2>2 DEF Connect, ThreadTypes
  <2>3. CASE Reconnect
    <3>1. reconnects' \in Nat
      BY <1>1, <2>3 DEF Reconnect, ThreadTypes
    <3> QED BY <1>1, <2>1, <2>3, <3>1 DEF Reconnect, ThreadTypes
  <2> QED BY <2>2, <2>3
<1> QED BY <1>3, <1>4, <1>5, QuietStep

\* The download peer and the peers of the relays are none of the new ones.
LEMMA ConnectFillStep ==
    ASSUME Inductive, ConnectFill
    PROVE  Inductive'
<1>1. ctx \in [Addrs -> Contexts] /\ SyncTypes /\ TxTypes /\ ThreadTypes
  BY Types DEF Inductive
<1>2. PICK new \in SUBSET (Addrs \ connectedPeers) :
          /\ ctx' = [a \in Addrs |-> IF a \in new THEN NewPeer ELSE ctx[a]]
          /\ syncing' = (syncing /\ connectedPeers \cup new # {})
          /\ faults' = faults \/ (faults < MaxFaults /\ faults' = faults + 1)
  BY DEF ConnectFill
<1>3. /\ UNCHANGED <<downloadPeer, isConnected, failures, height, estimated, txVars, reconnects, app, mempool>>
      /\ connecting > 0 /\ connecting' = connecting - 1
  BY DEF ConnectFill
<1>4. ctx' \in [Addrs -> Contexts] /\ \A a \in connectedPeers : ctx'[a] = ctx[a]
  BY <1>1, <1>2, NewTypes DEF connectedPeers
<1>5. SyncTypes' /\ TxTypes' /\ ThreadTypes'
  <2>1. syncing' \in BOOLEAN
    BY <1>2
  <2>2. connecting' \in Nat /\ faults' \in 0..MaxFaults
    BY <1>1, <1>2, <1>3, PeersAssumption DEF ThreadTypes
  <2> QED BY <1>1, <1>3, <2>1, <2>2 DEF SyncTypes, TxTypes, ThreadTypes, txVars
<1>6. connectedPeers \subseteq connectedPeers'
  BY <1>4 DEF connectedPeers
<1>7. RelaysAreConnected'
  BY <1>3, <1>6 DEF Inductive, RelaysAreConnected, txVars
<1>8. downloadPeer # NoPeer => downloadPeer \in connectedPeers
  BY <1>1 DEF Inductive, DownloadPeerLives, connectedPeers, SyncTypes
<1>9. downloadPeer' # NoPeer => ctx'[downloadPeer'].status \in {"connected", "ended"}
  BY <1>3, <1>4, <1>8 DEF Inductive, DownloadPeerLives
<1>10. DownloadPeerLives'
  BY <1>3, <1>9 DEF Inductive, DownloadPeerLives
<1>11. TypeOK'
  BY <1>4, <1>5, Types DEF TypeOK, Contexts, SyncTypes, TxTypes, ThreadTypes
<1> QED BY <1>7, <1>10, <1>11 DEF Inductive

\* A handshake is done: its peer is online, the others keep their status.
LEMMA ShakenType ==
    ASSUME ctx \in [Addrs -> Contexts], NEW a \in Addrs
    PROVE  /\ Shaken(a) \in [Addrs -> Contexts] /\ Shaken(a)[a].status = "connected"
           /\ \A b \in Addrs : b # a => Shaken(a)[b] = ctx[b]
<1>1. Cancel([ctx[a] EXCEPT !.status = "connected"]) \in Contexts
      /\ Cancel([ctx[a] EXCEPT !.status = "connected"]).status = "connected"
  BY DEF Cancel, Contexts, Statuses
<1> HIDE DEF Cancel
<1> QED BY <1>1 DEF Shaken

\* The contexts after _peerConnected are those of the handshake, up to what keeps the status.
LEMMA PeerConnectedStep ==
    ASSUME Inductive, NEW a \in Addrs, PeerConnected(a)
    PROVE  Inductive'
<1>1. ctx \in [Addrs -> Contexts] /\ SyncTypes /\ TxTypes /\ ThreadTypes
  BY Types DEF Inductive
<1>2. published \in SUBSET Txs /\ "loadBloomFilterDone" \in Callbacks
  BY <1>1 DEF TxTypes, Callbacks
<1>3. /\ Shaken(a) \in [Addrs -> Contexts] /\ Shaken(a)[a].status = "connected"
      /\ \A b \in Addrs : b # a => Shaken(a)[b] = ctx[b]
  BY <1>1, ShakenType
<1>4. ctx[a].status = "connecting" /\ downloadPeer # a /\ UNCHANGED <<threadVars, mempool>>
  <2>1. ctx[a].status = "connecting" /\ UNCHANGED <<threadVars, mempool>>
    BY DEF PeerConnected
  <2>2. a # NoPeer
    BY PeersAssumption
  <2> QED BY <2>1, <2>2 DEF Inductive, DownloadPeerLives
<1>5. ASSUME Alike(Shaken(a), ctx'), SyncTypes', ThreadTypes', UNCHANGED txVars,
             isConnected' <=> downloadPeer' # NoPeer,
             downloadPeer' # NoPeer => downloadPeer' \in Online \cup {a} \/ downloadPeer' = downloadPeer
      PROVE  Inductive'
  <2>1. ctx' \in [Addrs -> Contexts] /\ ctx'[a].status = "connected" /\ \A b \in Addrs : b # a => ctx'[b].status = ctx[b].status
    BY <1>3, <1>5 DEF Alike
  <2>2. TypeOK'
    <3>1. TxTypes'
      BY <1>1, <1>5, SameTypes
    <3> QED BY <1>5, <2>1, <3>1 DEF TypeOK, Contexts, SyncTypes, TxTypes, ThreadTypes
  <2>3. connectedPeers \subseteq connectedPeers'
    BY <2>1 DEF connectedPeers
  <2>4. RelaysAreConnected'
    BY <1>5, <2>3 DEF Inductive, RelaysAreConnected, txVars
  <2>5. downloadPeer' # NoPeer => ctx'[downloadPeer'].status \in {"connected", "ended"}
    BY <1>1, <1>5, <2>1 DEF Inductive, DownloadPeerLives, Online, SyncTypes
  <2> QED BY <1>5, <2>2, <2>4, <2>5 DEF Inductive, DownloadPeerLives
<1>6. ASSUME UNCHANGED <<downloadPeer, isConnected>> PROVE
         /\ isConnected' <=> downloadPeer' # NoPeer
         /\ downloadPeer' # NoPeer => downloadPeer' \in Online \cup {a} \/ downloadPeer' = downloadPeer
  BY <1>6 DEF Inductive, DownloadPeerLives
<1>7. CASE ConnectedUnsuitable(a)
  <2>1. Like(Shaken(a)[a], Disconnect(Shaken(a)[a]))
    BY <1>3, FlagTypes
  <2>2. Alike(Shaken(a), ctx')
    BY <1>3, <1>7, <2>1, AlikeOne DEF ConnectedUnsuitable
  <2>3. UNCHANGED syncVars /\ UNCHANGED txVars /\ SyncTypes' /\ ThreadTypes'
    BY <1>1, <1>4, <1>7, SameTypes, FaultType DEF ConnectedUnsuitable
  <2> QED BY <1>5, <1>6, <2>2, <2>3 DEF syncVars
<1>8. CASE ConnectedOther(a)
  <2>1. Alike(Shaken(a), ctx')
    <3>1. CASE height >= LastBlock[a]
      <4> DEFINE c == Shaken(a)[a]
      <4>1. Like(c, SendPing(PublishPendingTx(LoadBloomFilter(c), published, callbacks), "loadBloomFilterDone"))
        BY <1>2, <1>3, FilterPublishType
      <4>2. ctx' = [Shaken(a) EXCEPT ![a] =
                      SendPing(PublishPendingTx(LoadBloomFilter(c), published, callbacks), "loadBloomFilterDone")]
        BY <1>8, <3>1 DEF ConnectedOther
      <4> HIDE DEF c
      <4> QED BY <1>3, <4>1, <4>2, AlikeOne DEF c
    <3>2. CASE ~(height >= LastBlock[a])
      BY <1>3, <1>8, <3>2 DEF ConnectedOther, Alike
    <3> QED BY <3>1, <3>2
  <2>2. /\ UNCHANGED <<downloadPeer, isConnected, syncing, height, estimated, txVars, faults>>
        /\ failures' = 0 \/ failures' = failures
    BY <1>8 DEF ConnectedOther
  <2>3. SyncTypes' /\ ThreadTypes'
    <3>1. failures' \in Nat
      BY <1>1, <2>2 DEF SyncTypes
    <3> QED BY <1>1, <1>4, <2>2, <3>1, FaultType DEF SyncTypes
  <2> QED BY <1>5, <1>6, <2>1, <2>2, <2>3
<1>9. CASE ConnectedDownload(a)
  <2> DEFINE old == IF downloadPeer = NoPeer THEN Shaken(a) ELSE [Shaken(a) EXCEPT ![downloadPeer] = Disconnect(@)]
             With(p) == [old EXCEPT ![p] = PublishPendingTx(LoadBloomFilter(@), published, callbacks)]
  <2>1. PICK p \in Best(a) :
            /\ downloadPeer' = p /\ isConnected' = TRUE /\ estimated' = LastBlock[p]
            /\ \/ ctx' = [With(p) EXCEPT ![p] = Schedule(@)] /\ UNCHANGED failures
               \/ ctx' = LoadMempools(With(p), p) /\ failures' = 0
    BY <1>9 DEF ConnectedDownload
  <2>2. p \in Addrs /\ p \in Online \cup {a} /\ p # NoPeer
    BY PeersAssumption DEF Best, Online
  <2>3. Alike(Shaken(a), old)
    <3>1. CASE downloadPeer = NoPeer
      BY <1>3, <3>1 DEF Alike
    <3>2. CASE downloadPeer # NoPeer
      <4>1. downloadPeer \in Addrs
        BY <1>1, <3>2 DEF SyncTypes
      <4>2. Like(Shaken(a)[downloadPeer], Disconnect(Shaken(a)[downloadPeer]))
        BY <1>3, <4>1, FlagTypes
      <4> QED BY <1>3, <3>2, <4>1, <4>2, AlikeOne
    <3> QED BY <3>1, <3>2
  <2> HIDE DEF old
  <2>4. Alike(old, With(p))
    <3>1. old \in [Addrs -> Contexts]
      BY <2>3 DEF Alike
    <3>2. Like(old[p], PublishPendingTx(LoadBloomFilter(old[p]), published, callbacks))
      BY <1>2, <2>2, <3>1, FilterPublishType
    <3> QED BY <2>2, <3>1, <3>2, AlikeOne
  <2> HIDE DEF With
  <2>5. Alike(With(p), ctx') /\ failures' \in Nat
    <3>1. With(p) \in [Addrs -> Contexts] /\ failures \in Nat
      BY <1>1, <2>4 DEF Alike, SyncTypes
    <3>2. CASE ctx' = [With(p) EXCEPT ![p] = Schedule(@)] /\ UNCHANGED failures
      <4>1. Like(With(p)[p], Schedule(With(p)[p]))
        BY <2>2, <3>1, FlagTypes
      <4> QED BY <2>2, <3>1, <3>2, <4>1, AlikeOne
    <3>3. CASE ctx' = LoadMempools(With(p), p) /\ failures' = 0
      BY <1>2, <3>1, <3>3, LoadMempoolsAlike
    <3> QED BY <2>1, <3>2, <3>3
  <2>6. Alike(Shaken(a), ctx')
    BY <2>3, <2>4, <2>5, AlikeTrans
  <2>7. UNCHANGED <<syncing, height, txVars, faults>>
    BY <1>9 DEF ConnectedDownload
  <2>8. SyncTypes' /\ ThreadTypes'
    <3>1. LastBlock[p] \in Nat
      BY <2>2, PeersAssumption
    <3>2. SyncTypes'
      BY <1>1, <2>1, <2>2, <2>5, <2>7, <3>1 DEF SyncTypes
    <3> QED BY <1>1, <1>4, <2>7, <3>2, FaultType
  <2> QED BY <1>5, <2>1, <2>2, <2>6, <2>7, <2>8
<1> QED BY <1>7, <1>8, <1>9 DEF PeerConnected

(***************************************************************************)
(* The end of a peer.                                                      *)
(***************************************************************************)
\* A thread ends: the manager has the peer until _peerDisconnected.
LEMMA EndStep ==
    ASSUME Inductive, NEW a \in Addrs, NEW e \in Errors, End(a, e), Running(a),
           faults' = faults \/ (faults < MaxFaults /\ faults' = faults + 1)
    PROVE  Inductive'
<1>1. ctx \in [Addrs -> Contexts] /\ SyncTypes /\ TxTypes /\ ThreadTypes
  BY Types DEF Inductive
<1> DEFINE q == Pings(ctx[a].queue)
           s == ctx[a].synced
           d == [NoContext EXCEPT !.status = "ended", !.error = e, !.synced = s, !.queue = q]
<1>2. q \in Seq(Messages) /\ s \in BOOLEAN
  <2>1. ctx[a].queue \in Seq(Messages) /\ s \in BOOLEAN
    BY <1>1 DEF Contexts
  <2> QED BY <2>1, PingsType
<1>3. ctx' = [ctx EXCEPT ![a] = d] /\ UNCHANGED <<syncVars, txVars, threadVars, mempool>>
  BY DEF End
<1> HIDE DEF q, s
<1>4. d \in Contexts /\ d.status = "ended"
  BY <1>2, NewTypes DEF Contexts, Statuses
<1> HIDE DEF d
<1>5. ctx' \in [Addrs -> Contexts] /\ \A b \in Addrs : ctx'[b] = IF b = a THEN d ELSE ctx[b]
  BY <1>1, <1>3, <1>4
<1>6. SyncTypes' /\ TxTypes' /\ ThreadTypes'
  BY <1>1, <1>3, SameTypes, FaultType
<1>7. TypeOK'
  BY <1>5, <1>6 DEF TypeOK, Contexts, SyncTypes, TxTypes, ThreadTypes
<1>8. connectedPeers \subseteq connectedPeers'
  BY <1>4, <1>5 DEF connectedPeers
<1>9. RelaysAreConnected'
  BY <1>3, <1>8 DEF Inductive, RelaysAreConnected, txVars
<1>10. downloadPeer # NoPeer => ctx'[downloadPeer].status \in {"connected", "ended"}
  BY <1>1, <1>4, <1>5 DEF Inductive, DownloadPeerLives, SyncTypes
<1>11. DownloadPeerLives'
  BY <1>3, <1>10 DEF Inductive, DownloadPeerLives, syncVars
<1> QED BY <1>7, <1>9, <1>11 DEF Inductive

\* The end of a peer thread keeps the invariant.
LEMMA ThreadEndsStep ==
    ASSUME Inductive, NEW a \in Addrs, Timeout(a) \/ Breaks(a) \/ Closed(a)
    PROVE  Inductive'
<1>1. PICK e \in Errors : End(a, e) /\ Running(a) /\ (faults' = faults \/ (faults < MaxFaults /\ faults' = faults + 1))
  <2>1. CASE Timeout(a)
    BY <2>1 DEF Timeout, Running, Errors
  <2>2. CASE Breaks(a)
    BY <2>2 DEF Breaks, Errors
  <2>3. CASE Closed(a)
    BY <2>3 DEF Closed, Errors
  <2> QED BY <2>1, <2>2, <2>3
<1> QED BY <1>1, EndStep

\* The peer is forgotten as the download peer and in all lists of relays.
LEMMA PeerDisconnectedStep ==
    ASSUME Inductive, NEW a \in Addrs, PeerDisconnected(a)
    PROVE  Inductive'
<1>1. ctx \in [Addrs -> Contexts] /\ SyncTypes /\ TxTypes /\ ThreadTypes
  BY Types DEF Inductive
<1>2. /\ ctx' = [ctx EXCEPT ![a] = NoContext]
      /\ relays' = RelaysWithout(a)
      /\ downloadPeer' = DownloadPeerWithout(a)
      /\ UNCHANGED <<height, estimated, published, requests, listed, allTx, connecting, app, mempool, faults>>
  BY DEF PeerDisconnected
<1>3. isConnected' = (isConnected /\ ~(a = downloadPeer))
  BY DEF PeerDisconnected
<1>4. failures' \in {failures, failures + 1, MaxFail}
  BY DEF PeerDisconnected
<1>5. syncing' \in BOOLEAN
  BY DEF PeerDisconnected
<1>6. callbacks' \in {{}, callbacks} /\ reconnects' \in {reconnects, reconnects + 1}
  BY DEF PeerDisconnected
<1>7. ctx' \in [Addrs -> Contexts] /\ \A b \in Addrs : b # a => ctx'[b] = ctx[b]
  BY <1>1, <1>2, NewTypes
<1>8. downloadPeer' \in {downloadPeer, NoPeer} /\ (downloadPeer' = downloadPeer <=> a # downloadPeer)
  <2>1. a # NoPeer
    BY PeersAssumption
  <2> QED BY <1>2, <2>1 DEF DownloadPeerWithout
<1>9. relays' \in [Txs -> SUBSET Addrs] /\ \A t \in Txs : relays'[t] = relays[t] \ {a}
  BY <1>1, <1>2 DEF RelaysWithout, TxTypes
<1>10. SyncTypes'
  <2>1. failures' \in Nat
    BY <1>1, <1>4, PeersAssumption DEF SyncTypes
  <2>2. isConnected' \in BOOLEAN
    BY <1>3
  <2> QED BY <1>1, <1>2, <1>5, <1>8, <2>1, <2>2 DEF SyncTypes
<1>11. TxTypes'
  BY <1>1, <1>2, <1>6, <1>9 DEF TxTypes
<1>12. ThreadTypes'
  <2>1. reconnects' \in Nat
    BY <1>1, <1>6 DEF ThreadTypes
  <2> QED BY <1>1, <1>2, <2>1 DEF ThreadTypes
<1>13. TypeOK'
  BY <1>7, <1>10, <1>11, <1>12 DEF TypeOK, Contexts, SyncTypes, TxTypes, ThreadTypes
<1>14. RelaysAreConnected'
  <2>1. connectedPeers \ {a} \subseteq connectedPeers'
    BY <1>7 DEF connectedPeers
  <2> QED BY <1>9, <2>1 DEF Inductive, RelaysAreConnected
<1>15. downloadPeer' # NoPeer => ctx'[downloadPeer'].status \in {"connected", "ended"}
  BY <1>1, <1>7, <1>8 DEF Inductive, DownloadPeerLives, SyncTypes
<1>16. isConnected' <=> downloadPeer' # NoPeer
  <2>1. CASE a = downloadPeer
    <3>1. downloadPeer' = NoPeer
      BY <1>8, <2>1
    <3>2. ~isConnected'
      BY <1>3, <2>1
    <3> QED BY <3>1, <3>2
  <2>2. CASE a # downloadPeer
    <3>1. downloadPeer' = downloadPeer
      BY <1>8, <2>2
    <3>2. isConnected' = isConnected
      BY <1>1, <1>3, <2>2 DEF SyncTypes
    <3> QED BY <3>1, <3>2 DEF Inductive, DownloadPeerLives
  <2> QED BY <2>1, <2>2
<1> QED BY <1>13, <1>14, <1>15, <1>16 DEF Inductive, DownloadPeerLives

(***************************************************************************)
(* Callbacks of pings.                                                     *)
(***************************************************************************)
LEMMA HeadTypes ==
    ASSUME ctx \in [Addrs -> Contexts], NEW a \in Addrs, ctx[a].queue # <<>>
    PROVE  /\ Tail(ctx[a].queue) \in Seq(Messages) /\ Head(ctx[a].queue) \in Messages
           /\ Like(ctx[a], [ctx[a] EXCEPT !.queue = Tail(ctx[a].queue)])
<1>1. ctx[a] \in Contexts /\ ctx[a].queue \in Seq(Messages)
  BY DEF Contexts
<1>2. Tail(ctx[a].queue) \in Seq(Messages) /\ Head(ctx[a].queue) \in Messages
  BY <1>1
<1> QED BY <1>1, <1>2, QueueType

\* The transactions that are requested from one more peer.
LEMMA RequestsWithType ==
    ASSUME TxTypes, NEW a \in Addrs
    PROVE  RequestsWith(a) \in [Txs -> SUBSET Addrs]
  BY DEF TxTypes, RequestsWith

\* A pong keeps the invariant.
LEMMA PongStep ==
    ASSUME Inductive, NEW a \in Addrs, ctx[a].queue # <<>>, NEW success \in BOOLEAN, PongCallback(a, success),
           UNCHANGED <<threadVars, mempool, faults>>
    PROVE  Inductive'
<1>1. ctx \in [Addrs -> Contexts] /\ SyncTypes /\ TxTypes /\ ThreadTypes /\ ThreadTypes'
  BY Types, SameTypes DEF Inductive
<1> DEFINE cs == [ctx EXCEPT ![a] = [ctx[a] EXCEPT !.queue = Tail(ctx[a].queue)]]
           done == Head(ctx[a].queue).done
<1>2. Alike(ctx, cs)
  BY <1>1, HeadTypes, AlikeOne
<1>3. /\ \/ PublishTxInvDone(a, cs) \/ GetdataDone(a, cs, success)
         \/ LoadBloomFilterDone(a, cs, success) \/ MempoolDone(a, cs, success)
      /\ UNCHANGED <<downloadPeer, isConnected, failures, height, estimated, published, callbacks, relays, allTx>>
  <2>1. cs = [ctx EXCEPT ![a].queue = Tail(@)]
    BY <1>1 DEF Contexts
  <2> QED BY <2>1 DEF PongCallback
<1> HIDE DEF cs, done
<1>4. cs \in [Addrs -> Contexts] /\ listed \subseteq Txs /\ published \subseteq Txs /\ downloadPeer \in Addrs \cup {NoPeer}
  BY <1>1, <1>2 DEF Alike, TxTypes, SyncTypes
<1>5. SUFFICES /\ Alike(cs, ctx') /\ syncing' \in BOOLEAN
               /\ requests' \in [Txs -> SUBSET Addrs] /\ listed' \subseteq listed
  <2>1. Alike(ctx, ctx')
    BY <1>2, <1>5, AlikeTrans
  <2>2. SyncTypes' /\ TxTypes'
    BY <1>1, <1>3, <1>5 DEF SyncTypes, TxTypes
  <2> QED BY <1>1, <1>3, <2>1, <2>2, QuietStep
<1>6. requests \in [Txs -> SUBSET Addrs] /\ syncing \in BOOLEAN /\ RequestsWith(a) \in [Txs -> SUBSET Addrs]
  BY <1>1, RequestsWithType DEF TxTypes, SyncTypes
<1>7. ASSUME NEW ds, Alike(cs, ds)
      PROVE  Alike(cs, [ds EXCEPT ![a] = RequestUnrelayedTx(@, a)])
  <2>1. ds \in [Addrs -> Contexts]
    BY <1>7 DEF Alike
  <2>2. Alike(ds, [ds EXCEPT ![a] = RequestUnrelayedTx(ds[a], a)])
    BY <1>4, <2>1, RequestType, AlikeOne
  <2> QED BY <1>7, <2>2, AlikeTrans
<1>8. Alike(cs, cs) /\ Alike(cs, SyncStopped(cs))
  BY <1>4, SyncStoppedAlike DEF Alike
<1>9. CASE PublishTxInvDone(a, cs)
  BY <1>6, <1>7, <1>8, <1>9 DEF PublishTxInvDone
<1>10. CASE GetdataDone(a, cs, success)
  <2>1. ctx' = [cs EXCEPT ![a].synced = @ \/ success] /\ listed' \subseteq listed /\ UNCHANGED <<syncing, requests>>
    BY <1>10 DEF GetdataDone, Synced
  <2>2. PICK b \in BOOLEAN : b = (cs[a].synced \/ success)
    OBVIOUS
  <2>3. ctx' = [cs EXCEPT ![a] = [cs[a] EXCEPT !.synced = b]]
    BY <1>4, <2>1, <2>2 DEF Contexts
  <2>4. Like(cs[a], [cs[a] EXCEPT !.synced = b])
    BY <1>4 DEF Like, Contexts
  <2>5. Alike(cs, ctx')
    BY <1>4, <2>3, <2>4, AlikeOne
  <2> QED BY <1>6, <2>1, <2>5
<1>11. CASE LoadBloomFilterDone(a, cs, success)
  <2>1. Like(cs[a], SendMempool(cs[a]))
    BY <1>4, SendMempoolType
  <2>2. Alike(cs, [cs EXCEPT ![a] = SendMempool(@)])
    BY <1>4, <2>1, AlikeOne
  <2>3. ctx' \in {[cs EXCEPT ![a] = SendMempool(@)], SyncStopped(cs), cs} /\ syncing' \in {syncing, FALSE}
        /\ UNCHANGED <<requests, listed>>
    BY <1>11 DEF LoadBloomFilterDone
  <2>4. Alike(cs, ctx')
    BY <1>8, <2>2, <2>3
  <2> QED BY <1>6, <2>3, <2>4
<1>12. CASE MempoolDone(a, cs, success)
  <2>1. CASE success
    <3> DEFINE stopped == IF syncing THEN SyncStopped(cs) ELSE cs
    <3>1. Alike(cs, stopped)
      BY <1>8
    <3>2. /\ ctx' = [stopped EXCEPT ![a] = RequestUnrelayedTx(@, a)] /\ requests' = RequestsWith(a) /\ syncing' = FALSE
          /\ UNCHANGED listed
      BY <1>12, <2>1 DEF MempoolDone
    <3> HIDE DEF stopped
    <3> QED BY <1>6, <1>7, <3>1, <3>2
  <2>2. CASE ~success
    BY <1>6, <1>8, <1>12, <2>2 DEF MempoolDone
  <2> QED BY <2>1, <2>2
<1> QED BY <1>3, <1>9, <1>10, <1>11, <1>12

\* The answer to a ping, or its loss, keeps the invariant.
LEMMA PingStep ==
    ASSUME Inductive, NEW a \in Addrs, PongFails(a) \/ AnswerPing(a)
    PROVE  Inductive'
  BY PongStep DEF PongFails, AnswerPing, Asked

(***************************************************************************)
(* Messages of a peer.                                                     *)
(***************************************************************************)
LEMMA ProgressType ==
    ASSUME NEW c \in Contexts, NEW a, NEW S
    PROVE  Like(c, CancelPublish(c, a, S)) /\ Like(c, Progress(c, a, S))
<1>1. Like(c, CancelPublish(c, a, S))
  BY FlagTypes DEF CancelPublish
<1> QED BY <1>1, FlagTypes DEF Progress

\* the lists of transactions after a peer was heard of the transactions of S
LEMMA ListTypes ==
    ASSUME TxTypes, NEW a \in Addrs, NEW S \in SUBSET Txs
    PROVE  /\ NotCalled(S) \subseteq callbacks
           /\ WithPeer(S, a) \in [Txs -> SUBSET Addrs] /\ \A t \in Txs : WithPeer(S, a)[t] \subseteq relays[t] \cup {a}
           /\ WithoutRequest(S, a) \in [Txs -> SUBSET Addrs]
           /\ listed \cup (S \ allTx) \subseteq allTx \cup S /\ allTx \cup S \subseteq Txs
<1>1. NotCalled(S) \subseteq callbacks
  BY DEF NotCalled
<1>2. WithPeer(S, a) \in [Txs -> SUBSET Addrs] /\ \A t \in Txs : WithPeer(S, a)[t] \subseteq relays[t] \cup {a}
  BY DEF WithPeer, TxTypes
<1>3. WithoutRequest(S, a) \in [Txs -> SUBSET Addrs]
  BY DEF WithoutRequest, TxTypes
<1> QED BY <1>1, <1>2, <1>3 DEF TxTypes

\* The news that a peer has transactions keeps the invariant,
LEMMA HasTxStep ==
    ASSUME Inductive, NEW a \in Addrs, ctx[a].status # "none", NEW c, Like(ctx[a], c), NEW S \in SUBSET Txs, HasTx(a, c, S),
           ThreadTypes'
    PROVE  Inductive'
<1>1. TxTypes
  BY Types DEF Inductive
<1> DEFINE seen == S \cap (allTx \cup published)
           d == IF seen # {} THEN Progress(c, a, S) ELSE IF S # {} THEN CancelPublish(c, a, S) ELSE c
           R == IF syncing THEN S \cap published ELSE seen
<1>2. /\ ctx' = [ctx EXCEPT ![a] = d] /\ callbacks' = NotCalled(S) /\ relays' = WithPeer(R, a)
      /\ requests' = WithoutRequest(seen, a) /\ UNCHANGED <<syncVars, published>>
      /\ listed' = listed \cup (seen \ allTx) /\ allTx' = allTx \cup seen
  BY DEF HasTx, Register
<1>3. seen \in SUBSET Txs /\ R \in SUBSET Txs
  OBVIOUS
<1>4. Like(ctx[a], d)
  <2>1. c \in Contexts
    BY DEF Like
  <2> HIDE DEF seen
  <2>2. Like(c, d)
    BY <2>1, ProgressType, FlagTypes
  <2> QED BY <2>2, LikeTrans
<1> HIDE DEF seen, d, R
<1>5. TxTypes'
  <2>1. callbacks' \subseteq published' /\ published' \subseteq Txs
    BY <1>1, <1>2, ListTypes DEF TxTypes
  <2>2. relays' \in [Txs -> SUBSET Addrs] /\ requests' \in [Txs -> SUBSET Addrs]
    BY <1>1, <1>2, <1>3, ListTypes
  <2>3. listed' \subseteq allTx' /\ allTx' \subseteq Txs
    BY <1>1, <1>2, <1>3, ListTypes
  <2> QED BY <2>1, <2>2, <2>3 DEF TxTypes
<1>6. \A t \in Txs : relays'[t] \subseteq relays[t] \cup {a}
  BY <1>1, <1>2, <1>3, ListTypes
<1> QED BY <1>2, <1>4, <1>5, <1>6, TalkStep

\* and so do an inv,
LEMMA AcceptInvStep ==
    ASSUME Inductive, NEW a \in Addrs, ctx[a].status # "none", NEW c, Like(ctx[a], c), NEW T \in SUBSET Txs,
           AcceptInv(a, c, T), ThreadTypes'
    PROVE  Inductive'
<1>1. c \in Contexts /\ c.known \in SUBSET Txs
  BY DEF Like, Contexts
<1> DEFINE k == c.known \cup T
           d == [c EXCEPT !.known = k]
           asked == SendEach(d, "getdata", T \ c.known)
           unset == [asked EXCEPT !.mempoolDone = FALSE]
           after == IF T # {} /\ c.mempoolDone THEN SendPing(unset, "mempoolDone") ELSE asked
<1>2. HasTx(a, after, T \cap c.known)
  BY DEF AcceptInv
<1>3. Like(c, d)
  <2>1. k \in SUBSET Txs
    BY <1>1
  <2> HIDE DEF k
  <2> QED BY <1>1, <2>1, KnownType
<1> HIDE DEF d
<1>4. Like(d, asked)
  BY <1>1, <1>3, SendEachType DEF Like
<1> HIDE DEF asked
<1>5. Like(asked, unset) /\ unset \in Contexts
  BY <1>4 DEF Like, Contexts
<1> HIDE DEF unset
<1>6. Like(unset, SendPing(unset, "mempoolDone"))
  BY <1>5, SendPingType DEF Callbacks
<1>7. Like(c, after)
  <2>1. Like(c, asked)
    BY <1>3, <1>4, LikeTrans
  <2>2. Like(c, SendPing(unset, "mempoolDone"))
    BY <2>1, <1>5, <1>6, LikeTrans
  <2> QED BY <2>1, <2>2
<1>8. Like(ctx[a], after)
  BY <1>7, LikeTrans
<1> HIDE DEF after
<1> QED BY <1>2, <1>8, HasTxStep

\* and the answer to one.
LEMMA AnswerInvStep ==
    ASSUME Inductive, NEW a \in Addrs, AnswerInv(a)
    PROVE  Inductive'
<1>1. ctx \in [Addrs -> Contexts] /\ SyncTypes /\ TxTypes /\ ThreadTypes
  BY Types DEF Inductive
<1> DEFINE t == Head(ctx[a].queue).tx
<1>2. ctx[a].status = "connected" /\ ctx[a].queue # <<>> /\ Head(ctx[a].queue).msg = "inv"
      /\ UNCHANGED <<syncVars, threadVars, faults>>
  BY DEF AnswerInv, Asked, Talking
<1>3. t \in Txs
  BY <1>1, <1>2, HeadTypes DEF Messages
<1>4. Answered(a) \in Contexts /\ Like(ctx[a], Answered(a))
  BY <1>1, <1>2, HeadTypes DEF Answered, Like
<1>5. CASE t \in mempool[a]
  <2>1. ctx' = [ctx EXCEPT ![a] = Answered(a)] /\ UNCHANGED <<txVars, mempool>>
    BY <1>5 DEF AnswerInv
  <2>2. TxTypes' /\ ThreadTypes' /\ relays' = relays
    BY <1>1, <1>2, <2>1, SameTypes DEF txVars
  <2> QED BY <1>2, <1>4, <2>1, <2>2, TalkStep
<1>6. CASE t \notin mempool[a]
  <2>1. /\ ctx' = [ctx EXCEPT ![a] = CancelPublish(Answered(a), a, {t})]
        /\ callbacks' = NotCalled({t}) /\ relays' = WithPeer({t}, a)
        /\ listed' = listed \cup ({t} \ allTx) /\ allTx' = allTx \cup {t}
        /\ mempool' = [mempool EXCEPT ![a] = @ \cup {t}] /\ UNCHANGED <<published, requests>>
    BY <1>6 DEF AnswerInv, Register
  <2> HIDE DEF t
  <2>2. {t} \in SUBSET Txs
    BY <1>3
  <2>3. Like(ctx[a], CancelPublish(Answered(a), a, {t}))
    BY <1>4, ProgressType, LikeTrans
  <2>4. TxTypes'
    <3>1. callbacks' \subseteq callbacks /\ relays' \in [Txs -> SUBSET Addrs] /\ listed' \subseteq allTx' /\ allTx' \subseteq Txs
      BY <1>1, <2>1, <2>2, ListTypes
    <3> QED BY <1>1, <2>1, <3>1 DEF TxTypes
  <2>5. ThreadTypes'
    BY <1>1, <1>2, <1>3, <2>1 DEF ThreadTypes, threadVars
  <2>6. \A u \in Txs : relays'[u] \subseteq relays[u] \cup {a}
    BY <1>1, <2>1, <2>2, ListTypes
  <2> QED BY <1>2, <2>1, <2>3, <2>4, <2>5, <2>6, TalkStep
<1> QED BY <1>5, <1>6

\* Adding to the publish list keeps what is there.
LEMMA AddType ==
    ASSUME TxTypes, NEW t \in Txs
    PROVE  AddToPublishList(t) \subseteq Txs /\ published \cup {t} \subseteq AddToPublishList(t)
  BY PeersAssumption DEF AddToPublishList, TxTypes

\* The answer to getdata keeps the invariant,
LEMMA AnswerGetdataStep ==
    ASSUME Inductive, NEW a \in Addrs, AnswerGetdata(a)
    PROVE  Inductive'
<1>1. ctx \in [Addrs -> Contexts] /\ SyncTypes /\ TxTypes /\ ThreadTypes
  BY Types DEF Inductive
<1> DEFINE t == Head(ctx[a].queue).tx
<1>2. ctx[a].status = "connected" /\ ctx[a].queue # <<>> /\ Head(ctx[a].queue).msg = "getdata"
      /\ UNCHANGED <<syncVars, threadVars, mempool, faults>>
  BY DEF AnswerGetdata, Asked, Talking
<1>3. t \in Txs
  BY <1>1, <1>2, HeadTypes DEF Messages
<1>4. Answered(a) \in Contexts /\ Like(ctx[a], Answered(a)) /\ ThreadTypes'
  BY <1>1, <1>2, HeadTypes, SameTypes DEF Answered, Like
<1>5. CASE t \in mempool[a]
  <2>1. /\ ctx' = [ctx EXCEPT ![a] = Progress(Answered(a), a, {t})]
        /\ callbacks' = NotCalled({t}) /\ published' = AddToPublishList(t)
        /\ relays' = relays \/ relays' = WithPeer({t}, a)
        /\ requests' = WithoutRequest({t}, a)
        /\ listed' = listed \cup ({t} \ allTx) /\ allTx' = allTx \cup {t}
    BY <1>5 DEF AnswerGetdata, Register
  <2> HIDE DEF t
  <2>2. {t} \in SUBSET Txs
    BY <1>3
  <2>3. Like(ctx[a], Progress(Answered(a), a, {t}))
    BY <1>4, ProgressType, LikeTrans
  <2>4. relays' \in [Txs -> SUBSET Addrs] /\ \A u \in Txs : relays'[u] \subseteq relays[u] \cup {a}
    <3>1. relays \in [Txs -> SUBSET Addrs]
      BY <1>1 DEF TxTypes
    <3> QED BY <1>1, <2>1, <2>2, <3>1, ListTypes
  <2>5. TxTypes'
    <3>1. callbacks' \subseteq callbacks /\ requests' \in [Txs -> SUBSET Addrs] /\ listed' \subseteq allTx' /\ allTx' \subseteq Txs
      BY <1>1, <2>1, <2>2, ListTypes
    <3>2. published' \subseteq Txs /\ published \subseteq published'
      BY <1>1, <1>3, <2>1, AddType
    <3> QED BY <1>1, <2>1, <2>4, <3>1, <3>2 DEF TxTypes
  <2> QED BY <1>2, <1>4, <2>1, <2>3, <2>4, <2>5, TalkStep
<1>6. CASE t \notin mempool[a]
  <2>1. /\ ctx' = [ctx EXCEPT ![a] = Answered(a)] /\ relays' = [relays EXCEPT ![t] = @ \ {a}]
        /\ requests' = WithoutRequest({t}, a) /\ UNCHANGED <<published, callbacks, listed, allTx>>
    BY <1>6 DEF AnswerGetdata
  <2> HIDE DEF t
  <2>2. relays' \in [Txs -> SUBSET Addrs] /\ \A u \in Txs : relays'[u] \subseteq relays[u] \cup {a}
    BY <1>1, <1>3, <2>1 DEF TxTypes
  <2>3. requests' \in [Txs -> SUBSET Addrs]
    BY <1>1, <1>3, <2>1, ListTypes
  <2>4. TxTypes'
    BY <1>1, <2>1, <2>2, <2>3 DEF TxTypes
  <2> QED BY <1>2, <1>4, <2>1, <2>2, <2>4, TalkStep
<1> QED BY <1>5, <1>6

\* the answer to mempool,
LEMMA AnswerMempoolStep ==
    ASSUME Inductive, NEW a \in Addrs, AnswerMempool(a)
    PROVE  Inductive'
<1>1. ctx \in [Addrs -> Contexts] /\ ThreadTypes /\ mempool[a] \in SUBSET Txs
  BY Types DEF Inductive, ThreadTypes
<1>2. ctx[a].status = "connected" /\ ctx[a].queue # <<>> /\ AcceptInv(a, Answered(a), mempool[a]) /\ ThreadTypes'
  BY <1>1, SameTypes DEF AnswerMempool, Asked, Talking
<1>3. Like(ctx[a], Answered(a))
  BY <1>1, <1>2, HeadTypes DEF Answered
<1> QED BY <1>1, <1>2, <1>3, AcceptInvStep

\* a transaction that spreads among the peers,
LEMMA SpreadStep ==
    ASSUME Inductive, NEW a \in Addrs, NEW t \in Txs, Spread(a, t)
    PROVE  Inductive'
<1>1. ctx \in [Addrs -> Contexts] /\ SyncTypes /\ TxTypes /\ ThreadTypes
  BY Types DEF Inductive
<1>2. ThreadTypes'
  BY <1>1 DEF Spread, ThreadTypes, threadVars
<1>3. CASE Talking(a) /\ ctx[a].filter
  <2>1. AcceptInv(a, ctx[a], {t}) /\ ctx[a].status # "none" /\ Like(ctx[a], ctx[a]) /\ {t} \in SUBSET Txs
    BY <1>1, <1>3, FlagTypes DEF Spread, Talking
  <2> QED BY <1>2, <2>1, AcceptInvStep
<1>4. CASE ~(Talking(a) /\ ctx[a].filter)
  <2>1. UNCHANGED <<ctx, syncVars, txVars>>
    BY <1>4 DEF Spread
  <2>2. SyncTypes' /\ TxTypes' /\ Alike(ctx, ctx')
    BY <1>1, <2>1, SameTypes
  <2> QED BY <1>2, <2>1, <2>2, QuietStep DEF syncVars, txVars
<1> QED BY <1>3, <1>4

\* a reject,
LEMMA RejectStep ==
    ASSUME Inductive, NEW a \in Addrs, NEW t \in Txs, Reject(a, t)
    PROVE  Inductive'
<1>1. ctx \in [Addrs -> Contexts] /\ SyncTypes /\ TxTypes /\ ThreadTypes
  BY Types DEF Inductive
<1>2. /\ ctx[a].status = "connected" /\ faults < MaxFaults /\ faults' = faults + 1
      /\ mempool' = [mempool EXCEPT ![a] = @ \ {t}] /\ relays' = [relays EXCEPT ![t] = @ \ {a}]
      /\ requests' = WithoutRequest({t}, a) /\ UNCHANGED <<syncVars, published, callbacks, listed, allTx, threadVars>>
  BY DEF Reject, Talking
<1>3. PICK d : Like(ctx[a], d) /\ ctx' = [ctx EXCEPT ![a] = d]
  <2>1. CASE ctx' = ctx
    <3>1. ctx' = [ctx EXCEPT ![a] = ctx[a]] /\ Like(ctx[a], ctx[a])
      BY <1>1, <2>1, FlagTypes
    <3> QED BY <3>1
  <2>2. CASE ctx' = [ctx EXCEPT ![a] = Disconnect(@)]
    BY <1>1, <2>2, FlagTypes
  <2> QED BY <2>1, <2>2 DEF Reject
<1>4. relays' \in [Txs -> SUBSET Addrs] /\ \A u \in Txs : relays'[u] \subseteq relays[u] \cup {a}
  BY <1>1, <1>2 DEF TxTypes
<1>5. TxTypes'
  <2>1. requests' \in [Txs -> SUBSET Addrs]
    BY <1>1, <1>2, ListTypes
  <2> QED BY <1>1, <1>2, <1>4, <2>1 DEF TxTypes
<1>6. ThreadTypes'
  <2>1. faults' \in 0..MaxFaults
    BY <1>1, <1>2, PeersAssumption DEF ThreadTypes
  <2>2. mempool' \in [Addrs -> SUBSET Txs]
    BY <1>1, <1>2 DEF ThreadTypes
  <2> QED BY <1>1, <1>2, <2>1, <2>2 DEF ThreadTypes, threadVars
<1> QED BY <1>2, <1>3, <1>4, <1>5, <1>6, TalkStep

\* the mempool timer,
LEMMA MempoolTimerStep ==
    ASSUME Inductive, NEW a \in Addrs, MempoolTimer(a)
    PROVE  Inductive'
<1>1. ctx \in [Addrs -> Contexts] /\ TxTypes /\ ThreadTypes
  BY Types DEF Inductive
<1> DEFINE c == [ctx[a] EXCEPT !.mempoolDone = FALSE]
<1>2. /\ ctx[a].status = "connected" /\ ctx' = [ctx EXCEPT ![a] = SendPing(c, "mempoolDone")]
      /\ UNCHANGED <<syncVars, txVars, threadVars, mempool, faults>>
  BY DEF MempoolTimer, Talking
<1>3. Like(ctx[a], c) /\ c \in Contexts
  BY <1>1 DEF Like, Contexts
<1> HIDE DEF c
<1>4. Like(ctx[a], SendPing(c, "mempoolDone"))
  BY <1>3, SendPingType, LikeTrans DEF Callbacks
<1>5. TxTypes' /\ ThreadTypes' /\ relays' = relays
  BY <1>1, <1>2, SameTypes DEF txVars
<1> QED BY <1>2, <1>4, <1>5, TalkStep

\* a block,
LEMMA RelayedBlockStep ==
    ASSUME Inductive, NEW a \in Addrs, RelayedBlock(a)
    PROVE  Inductive'
<1>1. ctx \in [Addrs -> Contexts] /\ SyncTypes /\ TxTypes /\ ThreadTypes
  BY Types DEF Inductive
<1>2. height' = height + 1 /\ UNCHANGED <<downloadPeer, isConnected, syncing, estimated, txVars, threadVars, mempool, faults>>
  BY DEF RelayedBlock
<1>3. Alike(ctx, ctx') /\ failures' \in {0, failures}
  <2>1. CASE ctx' = [ctx EXCEPT ![a] = Schedule(@)] /\ failures' = 0
    BY <1>1, <2>1, FlagTypes, AlikeOne
  <2>2. CASE ctx' = LoadMempools(ctx, a) /\ UNCHANGED failures
    BY <1>1, <2>2, LoadMempoolsAlike DEF TxTypes
  <2> QED BY <2>1, <2>2 DEF RelayedBlock
<1>4. SyncTypes'
  <2>1. height' \in Nat /\ failures' \in Nat
    BY <1>1, <1>2, <1>3 DEF SyncTypes
  <2> QED BY <1>1, <1>2, <2>1 DEF SyncTypes
<1>5. TxTypes' /\ ThreadTypes' /\ relays' = relays
  BY <1>1, <1>2, SameTypes DEF txVars
<1> QED BY <1>2, <1>3, <1>4, <1>5, QuietStep

(***************************************************************************)
(* The application.                                                        *)
(***************************************************************************)
LEMMA PublishNowStep ==
    ASSUME Inductive, NEW t \in Txs, PublishNow(t), ThreadTypes'
    PROVE  Inductive'
<1>1. ctx \in [Addrs -> Contexts] /\ SyncTypes /\ TxTypes
  BY Types DEF Inductive
<1> DEFINE P == AddToPublishList(t)
           C == IF t \in published THEN callbacks ELSE callbacks \cup {t}
           Sent(a) == SendPing(PublishPendingTx(ctx[a], P, C), "publishTxInvDone")
<1>2. /\ published' = P /\ callbacks' = C /\ UNCHANGED <<syncVars, relays, requests, listed, allTx>>
      /\ ctx' = [a \in Addrs |-> IF a \in Online /\ (a # downloadPeer \/ Online = {a}) THEN Sent(a) ELSE ctx[a]]
  BY DEF PublishNow
<1>3. P \subseteq Txs /\ C \subseteq P
  BY <1>1, AddType DEF TxTypes
<1> HIDE DEF P, C
<1>4. ASSUME NEW a \in Addrs
      PROVE  Like(ctx[a], Sent(a)) /\ Like(ctx[a], ctx[a])
  BY <1>1, <1>3, FilterPublishType, FlagTypes DEF Callbacks
<1> HIDE DEF Sent
<1>5. Alike(ctx, ctx')
  BY <1>1, <1>2, <1>4 DEF Alike, Like
<1>6. SyncTypes' /\ UNCHANGED <<downloadPeer, isConnected, relays>>
  BY <1>1, <1>2, SameTypes DEF syncVars
<1>7. TxTypes'
  BY <1>1, <1>2, <1>3 DEF TxTypes
<1> QED BY <1>5, <1>6, <1>7, QuietStep

\* and the calls of the application.
LEMMA ApplicationStep ==
    ASSUME Inductive, PublishContinues \/ DisconnectAll \/ DisconnectReturns \/ \E t \in Txs : PublishTx(t)
    PROVE  Inductive'
<1>1. ctx \in [Addrs -> Contexts] /\ SyncTypes /\ TxTypes /\ ThreadTypes
  BY Types DEF Inductive
<1>2. CASE PublishContinues
  <2>1. app.tx \in Txs
    BY <1>1, <1>2 DEF PublishContinues, ThreadTypes
  <2>2. ThreadTypes' /\ PublishNow(app.tx)
    BY <1>1, <1>2 DEF PublishContinues, ThreadTypes
  <2> QED BY <2>1, <2>2, PublishNowStep
<1>3. ASSUME NEW t \in Txs, PublishTx(t)
      PROVE  Inductive'
  <2>1. CASE isConnected
    <3>1. PublishNow(t) /\ UNCHANGED <<threadVars, mempool, faults>>
      BY <1>3, <2>1 DEF PublishTx, threadVars
    <3> QED BY <1>1, <3>1, SameTypes, PublishNowStep
  <2>2. CASE ~isConnected
    <3>1. app' = [call |-> "publish", tx |-> t] /\ UNCHANGED <<ctx, syncVars, txVars, reconnects, connecting, mempool, faults>>
      BY <1>3, <2>2 DEF PublishTx
    <3>2. ThreadTypes'
      BY <1>1, <3>1 DEF ThreadTypes
    <3> QED BY <1>1, <3>1, <3>2, SameTypes, QuietStep DEF syncVars, txVars
  <2> QED BY <2>1, <2>2
<1>4. CASE DisconnectAll
  <2>1. /\ faults < MaxFaults /\ faults' = faults + 1 /\ app' = [call |-> "disconnect"] /\ failures' = MaxFail
        /\ ctx' = [a \in Addrs |-> Disconnect(ctx[a])]
        /\ UNCHANGED <<downloadPeer, isConnected, syncing, height, estimated, txVars, reconnects, connecting, mempool>>
    BY <1>4 DEF DisconnectAll
  <2>2. ASSUME NEW a \in Addrs
        PROVE  Like(ctx[a], Disconnect(ctx[a]))
    BY <1>1, FlagTypes
  <2>3. Alike(ctx, ctx')
    BY <1>1, <2>1, <2>2 DEF Alike, Like
  <2>4. SyncTypes'
    BY <1>1, <2>1, PeersAssumption DEF SyncTypes
  <2>5. ThreadTypes'
    <3>1. faults' \in 0..MaxFaults
      BY <1>1, <2>1, PeersAssumption DEF ThreadTypes
    <3> QED BY <1>1, <2>1, <3>1 DEF ThreadTypes
  <2>6. TxTypes' /\ UNCHANGED relays
    BY <1>1, <2>1, SameTypes DEF txVars
  <2> QED BY <2>1, <2>3, <2>4, <2>5, <2>6, QuietStep
<1>5. CASE DisconnectReturns
  <2>1. app' = [call |-> "stopped"] /\ UNCHANGED <<ctx, syncVars, txVars, reconnects, connecting, mempool, faults>>
    BY <1>5 DEF DisconnectReturns
  <2>2. ThreadTypes'
    BY <1>1, <2>1 DEF ThreadTypes
  <2> QED BY <1>1, <2>1, <2>2, SameTypes, QuietStep DEF syncVars, txVars
<1> QED BY <1>2, <1>3, <1>4, <1>5

(***************************************************************************)
(* The theorems.                                                           *)
(***************************************************************************)
LEMMA InitInductive == Init => Inductive
<1> SUFFICES ASSUME Init PROVE Inductive
  OBVIOUS
<1>1. ctx \in [Addrs -> Contexts]
  BY NewTypes DEF Init
<1>2. SyncTypes
  BY DEF Init, SyncTypes
<1>3. TxTypes
  BY DEF Init, TxTypes
<1>4. ThreadTypes
  BY PeersAssumption DEF Init, ThreadTypes
<1>5. RelaysAreConnected
  BY DEF Init, RelaysAreConnected
<1>6. DownloadPeerLives
  BY DEF Init, DownloadPeerLives
<1> QED BY <1>1, <1>2, <1>3, <1>4, <1>5, <1>6, Types DEF Inductive

\* Every step keeps the invariant.
LEMMA StepInductive == Inductive /\ [Next]_vars => Inductive'
<1> SUFFICES ASSUME Inductive, [Next]_vars PROVE Inductive'
  OBVIOUS
<1>1. CASE Application
  BY <1>1, ConnectStep, ApplicationStep DEF Application
<1>2. CASE Reconnect \/ ConnectFill
  BY <1>2, ConnectStep, ConnectFillStep
<1>3. ASSUME NEW a \in Addrs, Thread(a)
      PROVE  Inductive'
  BY <1>3, PeerConnectedStep, ThreadEndsStep, PingStep, PeerDisconnectedStep DEF Thread
<1>4. ASSUME NEW a \in Addrs, Serves(a)
      PROVE  Inductive'
  BY <1>4, AnswerInvStep, AnswerGetdataStep, AnswerMempoolStep, PingStep, MempoolTimerStep, RelayedBlockStep
     DEF Serves, Answer
<1>5. ASSUME NEW a \in Addrs, Network(a)
      PROVE  Inductive'
  BY <1>5, ThreadEndsStep, SpreadStep, RejectStep DEF Network
<1>6. CASE UNCHANGED vars
  <2>1. UNCHANGED <<ctx, downloadPeer, isConnected, relays>> /\ UNCHANGED syncVars /\ UNCHANGED txVars
        /\ UNCHANGED <<threadVars, mempool, faults>>
    BY <1>6 DEF vars, syncVars, txVars
  <2>2. ctx \in [Addrs -> Contexts] /\ SyncTypes /\ TxTypes /\ ThreadTypes
    BY Types DEF Inductive
  <2>3. Alike(ctx, ctx') /\ SyncTypes' /\ TxTypes' /\ ThreadTypes'
    BY <2>1, <2>2, SameTypes
  <2> QED BY <2>1, <2>3, QuietStep
<1> QED BY <1>1, <1>2, <1>3, <1>4, <1>5, <1>6 DEF Next

\* Contexts, queues, lists of transactions and counters keep their types, and a callback belongs to a
\* transaction of the publish list, whatever peers, network and application do.
THEOREM PeersTypeCorrect == Spec => []TypeOK
<1>1. Inductive => TypeOK
  BY DEF Inductive
<1> QED BY InitInductive, StepInductive, <1>1, PTL DEF Spec

\* downloadPeer never points to a peer that BRPeerManager has freed, and isConnected says whether there is one,
\* for any number of addresses and connections.
THEOREM DownloadPeerCorrect == Spec => []DownloadPeerLives
<1>1. Inductive => DownloadPeerLives
  BY DEF Inductive
<1> QED BY InitInductive, StepInductive, <1>1, PTL DEF Spec

\* txRelays only counts peers the manager still has, so that BRPeerManagerRelayCount is the number of
\* connected peers that have relayed a transaction.
THEOREM RelaysCorrect == Spec => []RelaysAreConnected
<1>1. Inductive => RelaysAreConnected
  BY DEF Inductive
<1> QED BY InitInductive, StepInductive, <1>1, PTL DEF Spec
=============================================================================
