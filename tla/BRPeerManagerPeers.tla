------------------------- MODULE BRPeerManagerPeers -------------------------
(***************************************************************************)
(* The connections of the SPV peer manager of pluswallet-core              *)
(* (BRPeerManager.c with the connection part of BRPeer.c): connecting and  *)
(* reconnecting, the download peer, when a sync starts and stops, timeouts, *)
(* the transactions that are being published with their callbacks, and the *)
(* lists of peers that have or were asked for a transaction, which decide  *)
(* when an unconfirmed transaction is dropped from the wallet.             *)
(*                                                                         *)
(* Every connected peer has a thread. A handler of the manager is one step *)
(* under manager->lock; where the code gives the lock up in the middle     *)
(* (connecting, publishing without a connection) there are two steps.      *)
(*                                                                         *)
(* A connection is first in, first out: queue holds what was sent to a     *)
(* peer and not answered, and a peer answers in that order. A peer is      *)
(* identified by its address, as BRPeerEq does. Blocks are counted only    *)
(* (BRPeerManagerChain has the chain), a transaction stands for its hash.  *)
(***************************************************************************)
EXTENDS Integers, Sequences, FiniteSets

CONSTANTS
    Addrs,       \* addresses of peers, from the database and from DNS
    NoPeer,      \* C's NULL
    LastBlock,   \* LastBlock[a]: the height a reports in its version message
    Txs,         \* unconfirmed transactions of the wallet, valid ones that send
    Parents,     \* Parents[t]: those whose outputs t spends, themselves without unconfirmed inputs
    MaxConnect,  \* manager->maxConnectCount
    MaxFail,     \* MAX_CONNECT_FAILURES
    MaxFaults    \* bound: connections that break or time out, refused peers, failed lookups, rejected
                 \* transactions and calls of BRPeerManagerDisconnect

ASSUME PeersAssumption ==
    /\ NoPeer \notin Addrs /\ IsFiniteSet(Addrs) /\ IsFiniteSet(Txs)
    /\ LastBlock \in [Addrs -> Nat]
    /\ Parents \in [Txs -> SUBSET Txs]
    /\ \A t \in Txs : \A u \in Parents[t] : Parents[u] = {}
    /\ MaxConnect \in Nat \ {0} /\ MaxFail \in Nat \ {0} /\ MaxFaults \in Nat

VARIABLES
    ctx,           \* ctx[a]: the BRPeerContext of the peer at a; "none" when not in connectedPeers
    downloadPeer,  \* manager->downloadPeer
    isConnected,   \* manager->isConnected
    failures,      \* manager->connectFailureCount
    syncing,       \* manager->syncStartHeight > 0
    height,        \* manager->lastBlock->height
    estimated,     \* manager->estimatedHeight
    published,     \* manager->publishedTx
    callbacks,     \* those of publishedTx with a callback that has not been called
    relays,        \* manager->txRelays
    requests,      \* manager->txRequests
    listed,        \* the unconfirmed transactions the wallet lists
    allTx,         \* the transactions the wallet knows
    reconnects,    \* threads of peers that have gone, about to call BRPeerManagerConnect
    connecting,    \* calls of BRPeerManagerConnect that have given the lock up
    app,           \* what the thread of the application does
    mempool,       \* mempool[a]: the transactions the node at a has
    faults         \* faults that happened, up to MaxFaults

syncVars == <<downloadPeer, isConnected, failures, syncing, height, estimated>>
txVars == <<published, callbacks, relays, requests, listed, allTx>>
threadVars == <<reconnects, connecting, app>>
vars == <<ctx, syncVars, txVars, threadVars, mempool, faults>>

Callbacks == {"publishTxInvDone", "getdataDone", "loadBloomFilterDone", "mempoolDone"}
Messages == [msg : {"inv", "getdata"}, tx : Txs] \cup [msg : {"mempool"}] \cup [msg : {"ping"}, done : Callbacks]
Errors == {"none", "timeout", "protocol", "other"}
Statuses == {"none", "connecting", "connected", "ended"}

\* a peer that BRPeerNew made and BRPeerConnect started a thread for, with the connect timeout
NewPeer ==
    [status |-> "connecting", open |-> TRUE, timer |-> TRUE, synced |-> FALSE, filter |-> FALSE,
     sentMempool |-> FALSE, mempoolDone |-> FALSE, known |-> {}, queue |-> <<>>, error |-> "none"]
NoContext == [NewPeer EXCEPT !.status = "none", !.open = FALSE, !.timer = FALSE]

connectedPeers == {a \in Addrs : ctx[a].status # "none"}
\* BRPeerConnectStatus(peer) == BRPeerStatusConnected
Online == {a \in Addrs : ctx[a].status = "connected"}

Init ==
    /\ ctx = [a \in Addrs |-> NoContext]
    /\ downloadPeer = NoPeer /\ isConnected = FALSE
    /\ failures = 0 /\ syncing = FALSE /\ height = 0 /\ estimated = 0
    /\ published = {} /\ callbacks = {}
    /\ relays = [t \in Txs |-> {}] /\ requests = [t \in Txs |-> {}]
    /\ listed = {} /\ allTx = {}
    /\ reconnects = 0 /\ connecting = 0 /\ app = [call |-> "stopped"]
    /\ mempool = [a \in Addrs |-> {}] /\ faults = 0

(***************************************************************************)
(* What the manager asks of one peer: functions from a context to the      *)
(* context after the call.                                                 *)
(***************************************************************************)
\* BRPeerSendPing: the callback waits for the pong also when nothing can be sent any more
SendPing(c, done) == [c EXCEPT !.queue = Append(@, [msg |-> "ping", done |-> done])]

\* one message for each element of T, in some order; nothing is sent without a socket
SendEach(c, kind, T) ==
    LET order == CHOOSE s \in [1..Cardinality(T) -> T] : \A t \in T : \E i \in DOMAIN s : s[i] = t
        sent == [i \in 1..Cardinality(T) |-> [msg |-> kind, tx |-> order[i]]]
    IN  IF c.open THEN [c EXCEPT !.queue = @ \o sent] ELSE c

\* BRPeerDisconnect: closes the socket, if the thread has opened it
Disconnect(c) == [c EXCEPT !.open = FALSE]

\* BRPeerScheduleDisconnect
Schedule(c) == [c EXCEPT !.timer = TRUE]
Cancel(c) == [c EXCEPT !.timer = FALSE]

\* BRPeerSendFilterload
LoadBloomFilter(c) == [c EXCEPT !.filter = TRUE, !.sentMempool = FALSE]

\* _BRPeerManagerPublishPendingTx for the publish list P with callbacks C: the timeout, and an inv
\* of what the peer does not know
PublishPendingTx(c, P, C) ==
    SendEach([c EXCEPT !.timer = @ \/ C # {}, !.known = @ \cup P], "inv", P \ c.known)

\* mutated: the callback is only called when the peer answers with an inv
SendMempoolOnce(c) ==
    IF c.sentMempool THEN c
    ELSE [c EXCEPT !.sentMempool = TRUE, !.known = @ \cup published,
                   !.queue = IF c.open THEN Append(@, [msg |-> "mempool"]) ELSE @]

\* BRPeerSendMempool with _mempoolDone: when one is out, the callback fails at once and does nothing
SendMempool(c) ==
    IF c.sentMempool \/ c.mempoolDone
    THEN [c EXCEPT !.sentMempool = TRUE]
    ELSE [c EXCEPT !.sentMempool = TRUE, !.mempoolDone = TRUE, !.known = @ \cup published,
                   !.queue = IF c.open THEN Append(@, [msg |-> "mempool"]) ELSE @]

\* _BRPeerManagerLoadMempools, when d is the download peer; the filter of d is loaded again only
\* when it has degraded, which is left out
LoadMempools(cs, d) ==
    [a \in Addrs |->
        IF cs[a].status # "connected" THEN cs[a]
        ELSE IF a = d THEN SendMempool(cs[a])
        ELSE SendPing(PublishPendingTx(LoadBloomFilter(cs[a]), published, callbacks), "loadBloomFilterDone")]

\* the contexts after _BRPeerManagerSyncStopped
SyncStopped(cs) ==
    IF downloadPeer # NoPeer /\ callbacks = {}
    THEN [cs EXCEPT ![downloadPeer] = Cancel(@)]
    ELSE cs

\* the transactions _BRPeerManagerRequestUnrelayedTx asks a for
Unasked(a) == {t \in listed : a \notin relays[t] \cup requests[t]}

\* _BRPeerManagerRequestUnrelayedTx, its part on the peer
RequestUnrelayedTx(c, a) ==
    LET asked == SendEach(c, "getdata", Unasked(a))
    IN  IF Unasked(a) = {} THEN [c EXCEPT !.synced = TRUE]
        ELSE IF c.synced THEN asked
        ELSE SendPing(asked, "getdataDone")

\* ... and on the list of requests
RequestsWith(a) == [t \in Txs |-> IF t \in Unasked(a) THEN requests[t] \cup {a} ELSE requests[t]]

\* mutated: the list gets what the transaction spends, and not the transaction
AddParentsOnly(t) ==
    IF t \in published THEN published ELSE published \cup (Parents[t] \cap allTx)

\* _BRPeerManagerAddTxToPublishList
AddToPublishList(t) ==
    IF t \in published THEN published ELSE published \cup {t} \cup (Parents[t] \cap allTx)

(***************************************************************************)
(* Connecting. BRPeerManagerConnect gives the lock up for the callback     *)
(* syncStarted and while it waits for DNS.                                 *)
(***************************************************************************)
\* nobody is connected or about to be: the manager waits for a call of the application
Quiet == connectedPeers = {} /\ connecting = 0 /\ reconnects = 0

ConnectBegin ==
    /\ failures' = IF failures >= MaxFail THEN 0 ELSE failures
    /\ syncing' = (syncing \/ downloadPeer = NoPeer \/ height < estimated)
    /\ connecting' = connecting + 1
    /\ UNCHANGED <<ctx, downloadPeer, isConnected, height, estimated, txVars, mempool>>

\* called by the application, which finds out by itself that nothing is connected any more
Connect ==
    /\ app.call \in {"none", "stopped"} /\ Quiet
    /\ app' = [call |-> "none"]
    /\ ConnectBegin
    /\ UNCHANGED <<reconnects, faults>>

\* called by the thread of a peer that has gone
Reconnect ==
    /\ reconnects > 0
    /\ reconnects' = reconnects - 1
    /\ ConnectBegin
    /\ UNCHANGED <<app, faults>>

\* the number of connections that are missing, at most what there are addresses for
Missing == LET room == MaxConnect - Cardinality(connectedPeers)
               free == Cardinality(Addrs \ connectedPeers)
           IN  IF room <= 0 THEN 0 ELSE IF room < free THEN room ELSE free

\* the rest of BRPeerManagerConnect, with the addresses that are known or found by now
ConnectFill ==
    /\ connecting > 0
    /\ connecting' = connecting - 1
    /\ \E new \in SUBSET (Addrs \ connectedPeers) :
          /\ \/ Cardinality(new) = Missing /\ UNCHANGED faults
             \/ Missing > 0 /\ new = {} /\ faults < MaxFaults /\ faults' = faults + 1
          /\ ctx' = [a \in Addrs |-> IF a \in new THEN NewPeer ELSE ctx[a]]
          /\ syncing' = (syncing /\ connectedPeers \cup new # {})
    /\ UNCHANGED <<downloadPeer, isConnected, failures, height, estimated, txVars, reconnects, app, mempool>>

\* the contexts when the handshake with a is done
Shaken(a) == [ctx EXCEPT ![a] = Cancel([@ EXCEPT !.status = "connected"])]

\* _peerConnected for a peer that does not carry what the wallet needs
ConnectedUnsuitable(a) ==
    /\ faults < MaxFaults /\ faults' = faults + 1
    /\ ctx' = [Shaken(a) EXCEPT ![a] = Disconnect(@)]
    /\ UNCHANGED <<syncVars, txVars>>

StickWith(a) ==
    downloadPeer # NoPeer /\ (LastBlock[downloadPeer] >= LastBlock[a] \/ height >= LastBlock[a])

\* _peerConnected when there is a download peer to stick with
ConnectedOther(a) ==
    /\ StickWith(a)
    /\ IF height >= LastBlock[a]
       THEN /\ failures' = 0
            /\ ctx' = [Shaken(a) EXCEPT ![a] =
                          SendPing(PublishPendingTx(LoadBloomFilter(@), published, callbacks), "loadBloomFilterDone")]
       ELSE ctx' = Shaken(a) /\ UNCHANGED failures
    /\ UNCHANGED <<downloadPeer, isConnected, syncing, height, estimated, txVars, faults>>

\* the peers with the highest reported block; which of them is the fastest is open
Best(a) == LET up == Online \cup {a} IN {p \in up : \A q \in up : LastBlock[q] <= LastBlock[p]}

\* _peerConnected when a download peer has to be chosen
ConnectedDownload(a) ==
    /\ ~StickWith(a)
    /\ \E p \in Best(a) :
          LET old == IF downloadPeer = NoPeer THEN Shaken(a)
                     ELSE [Shaken(a) EXCEPT ![downloadPeer] = Disconnect(@)]
              new == [old EXCEPT ![p] = PublishPendingTx(LoadBloomFilter(@), published, callbacks)]
          IN  /\ downloadPeer' = p /\ isConnected' = TRUE
              /\ estimated' = LastBlock[p]
              /\ IF height < LastBlock[p]
                 THEN ctx' = [new EXCEPT ![p] = Schedule(@)] /\ UNCHANGED failures
                 ELSE ctx' = LoadMempools(new, p) /\ failures' = 0
    /\ UNCHANGED <<syncing, height, txVars, faults>>

\* the handshake is complete: _BRPeerDidConnect and _peerConnected
PeerConnected(a) ==
    /\ ctx[a].status = "connecting" /\ ctx[a].open
    /\ ConnectedUnsuitable(a) \/ ConnectedOther(a) \/ ConnectedDownload(a)
    /\ UNCHANGED <<threadVars, mempool>>

(***************************************************************************)
(* The end of a peer: its thread leaves the loop, calls the callbacks of   *)
(* all pings that are out with failure, and _peerDisconnected.             *)
(***************************************************************************)
\* the pings of a queue, in their order
Pings(q) ==
    LET upTo[i \in 0..Len(q)] ==
            IF i = 0 THEN <<>> ELSE IF q[i].msg = "ping" THEN Append(upTo[i - 1], q[i]) ELSE upTo[i - 1]
    IN  upTo[Len(q)]

\* what nobody looks at any more is forgotten
End(a, error) ==
    /\ ctx' = [ctx EXCEPT ![a] = [NoContext EXCEPT !.status = "ended", !.error = error, !.synced = ctx[a].synced,
                                                   !.queue = Pings(ctx[a].queue)]]
    /\ UNCHANGED <<syncVars, txVars, threadVars, mempool>>

Running(a) == ctx[a].status \in {"connecting", "connected"}

\* disconnectTime has passed, and there is nothing that the peer still answers
Timeout(a) ==
    /\ ctx[a].status = "connected" /\ ctx[a].open /\ ctx[a].timer
    /\ ctx[a].queue = <<>> /\ ~(a = downloadPeer /\ height < estimated)
    /\ End(a, "timeout") /\ UNCHANGED faults

\* the other side or the network ends the connection, breaks the protocol, or is too slow
Breaks(a) ==
    /\ faults < MaxFaults /\ faults' = faults + 1
    /\ Running(a) /\ ctx[a].open
    /\ \E e \in {"protocol", "other"} \cup (IF ctx[a].timer THEN {"timeout"} ELSE {}) : End(a, e)

\* the manager closed the socket: the thread finds it gone, or its read returns nothing
Closed(a) ==
    /\ Running(a) /\ ~ctx[a].open
    /\ \E e \in {"none", "other"} : End(a, e)
    /\ UNCHANGED faults

\* mutated: the peer is left in the lists of the peers that have a transaction
RelaysKept(a) == relays

\* the relays without the peer that goes
RelaysWithout(a) == [t \in Txs |-> relays[t] \ {a}]

\* mutated: the pointer is left alone
DownloadPeerKept(a) == downloadPeer

\* manager->downloadPeer after a peer has gone
DownloadPeerWithout(a) == IF a = downloadPeer THEN NoPeer ELSE downloadPeer

\* _peerDisconnected
PeerDisconnected(a) ==
    LET e == ctx[a].error
        isDownload == a = downloadPeer
        count == IF e \in {"timeout", "other"} THEN failures + 1 ELSE failures
        capped == IF isDownload /\ count > MaxFail THEN MaxFail ELSE count
        stop == ~(isConnected /\ ~isDownload) /\ capped = MaxFail
        timedOut == e = "timeout" /\ (~isDownload \/ ~syncing \/ connectedPeers = {a})
    IN  /\ ctx[a].status = "ended" /\ ctx[a].queue = <<>>
        /\ ctx' = [ctx EXCEPT ![a] = NoContext]
        /\ relays' = RelaysWithout(a)
        /\ downloadPeer' = DownloadPeerWithout(a)
        /\ isConnected' = (isConnected /\ ~isDownload)
        /\ failures' = capped
        /\ syncing' = (syncing /\ ~stop)
        /\ callbacks' = IF stop \/ timedOut THEN {} ELSE callbacks
        /\ reconnects' = IF capped < MaxFail THEN reconnects + 1 ELSE reconnects
        /\ UNCHANGED <<height, estimated, published, requests, listed, allTx, connecting, app, mempool, faults>>

(***************************************************************************)
(* Callbacks of pings. All but _publishTxInvDone and _getdataDone do       *)
(* nothing, or next to nothing, when they fail.                            *)
(***************************************************************************)
\* the contexts with the flag PEER_FLAG_SYNCED of a
Synced(a, cs, success) == [cs EXCEPT ![a].synced = @ \/ success]

\* transactions that no peer has or was asked for, when all peers have answered
Unrelayed(cs) ==
    IF (\A p \in connectedPeers : cs[p].synced) /\ Cardinality(Online) >= MaxConnect
    THEN {t \in listed \ callbacks : relays[t] = {} /\ requests[t] = {}}
    ELSE {}

\* _requestUnrelayedTxGetdataDone; BRWalletRemoveTransaction also removes what depends on t
GetdataDone(a, cs, success) ==
    LET after == Synced(a, cs, success)
        gone == Unrelayed(after)
    IN  /\ ctx' = after
        /\ listed' = {t \in listed \ gone : Parents[t] \cap gone = {}}
        /\ UNCHANGED <<syncing, requests>>

\* _publishTxInvDone
PublishTxInvDone(a, cs) ==
    /\ ctx' = [cs EXCEPT ![a] = RequestUnrelayedTx(@, a)]
    /\ requests' = RequestsWith(a)
    /\ UNCHANGED <<syncing, listed>>

\* _loadBloomFilterDone
LoadBloomFilterDone(a, cs, success) ==
    /\ IF success THEN ctx' = [cs EXCEPT ![a] = SendMempool(@)] /\ UNCHANGED syncing
       ELSE IF a = downloadPeer THEN ctx' = SyncStopped(cs) /\ syncing' = FALSE
       ELSE ctx' = cs /\ UNCHANGED syncing
    /\ UNCHANGED <<requests, listed>>

\* _mempoolDone: any peer's mempool ends the sync
MempoolDone(a, cs, success) ==
    /\ IF success
       THEN LET stopped == IF syncing THEN SyncStopped(cs) ELSE cs
            IN  /\ ctx' = [stopped EXCEPT ![a] = RequestUnrelayedTx(@, a)]
                /\ requests' = RequestsWith(a)
                /\ syncing' = FALSE
       ELSE ctx' = cs /\ UNCHANGED <<requests, syncing>>
    /\ UNCHANGED listed

\* the callback at the head of the queue of a
PongCallback(a, success) ==
    LET cs == [ctx EXCEPT ![a].queue = Tail(@)]
        done == Head(ctx[a].queue).done
    IN  /\ \/ done = "publishTxInvDone" /\ PublishTxInvDone(a, cs)
           \/ done = "getdataDone" /\ GetdataDone(a, cs, success)
           \/ done = "loadBloomFilterDone" /\ LoadBloomFilterDone(a, cs, success)
           \/ done = "mempoolDone" /\ MempoolDone(a, cs, success)
        /\ UNCHANGED <<downloadPeer, isConnected, failures, height, estimated, published, callbacks, relays, allTx>>

\* the thread of a peer that has gone calls its callbacks with failure
PongFails(a) ==
    /\ ctx[a].status = "ended" /\ ctx[a].queue # <<>>
    /\ PongCallback(a, FALSE)
    /\ UNCHANGED <<threadVars, mempool, faults>>

(***************************************************************************)
(* Messages of a peer.                                                     *)
(***************************************************************************)
Talking(a) == ctx[a].status = "connected" /\ ctx[a].open
Asked(a, kind) == Talking(a) /\ ctx[a].queue # <<>> /\ Head(ctx[a].queue).msg = kind
Answered(a) == [ctx[a] EXCEPT !.queue = Tail(@)]

\* the publish timeout is cancelled when only callbacks of S are left, but not the sync timeout
CancelPublish(c, a, S) ==
    IF callbacks \subseteq S /\ (~syncing \/ a # downloadPeer) THEN Cancel(c) ELSE c

\* ... and the sync timeout starts anew with a transaction of the wallet
Progress(c, a, S) ==
    IF syncing /\ a = downloadPeer THEN Schedule(c) ELSE CancelPublish(c, a, S)

\* mutated: the callback is only called for a transaction the wallet knows already
NotCalledYet(S) == IF S \subseteq allTx THEN callbacks \ S ELSE callbacks

\* the callbacks that are left when a peer has or asks for the transactions of S
NotCalled(S) == callbacks \ S

\* BRWalletRegisterTransaction: a known transaction is not listed again
Register(S) == listed' = listed \cup (S \ allTx) /\ allTx' = allTx \cup S

WithPeer(S, a) == [t \in Txs |-> IF t \in S THEN relays[t] \cup {a} ELSE relays[t]]
WithoutRequest(S, a) == [t \in Txs |-> IF t \in S THEN requests[t] \ {a} ELSE requests[t]]

\* _peerHasTx for all of S, with context c
HasTx(a, c, S) ==
    LET seen == S \cap (allTx \cup published)
    IN  /\ ctx' = [ctx EXCEPT ![a] = IF seen # {} THEN Progress(c, a, S)
                                     ELSE IF S # {} THEN CancelPublish(c, a, S) ELSE c]
        /\ callbacks' = NotCalled(S)
        /\ relays' = WithPeer(IF syncing THEN S \cap published ELSE seen, a)
        /\ requests' = WithoutRequest(seen, a)
        /\ Register(seen)
        /\ UNCHANGED <<syncVars, published>>

\* _BRPeerAcceptInvMessage with the transactions T
AcceptInv(a, c, T) ==
    LET new == T \ c.known
        asked == SendEach([c EXCEPT !.known = @ \cup T], "getdata", new)
        after == IF T # {} /\ c.mempoolDone
                 THEN SendPing([asked EXCEPT !.mempoolDone = FALSE], "mempoolDone") ELSE asked
    IN  HasTx(a, after, T \cap c.known)

\* a answers an inv: it asks for a transaction it does not have, _peerRequestedTx
AnswerInv(a) ==
    /\ Asked(a, "inv")
    /\ LET t == Head(ctx[a].queue).tx
       IN  IF t \in mempool[a]
           THEN ctx' = [ctx EXCEPT ![a] = Answered(a)] /\ UNCHANGED <<txVars, mempool>>
           ELSE /\ ctx' = [ctx EXCEPT ![a] = CancelPublish(Answered(a), a, {t})]
                /\ callbacks' = NotCalled({t})
                /\ relays' = WithPeer({t}, a)
                /\ Register({t})
                /\ mempool' = [mempool EXCEPT ![a] = @ \cup {t}]
                /\ UNCHANGED <<published, requests>>
    /\ UNCHANGED <<syncVars, threadVars, faults>>

\* a answers a getdata: _peerRelayedTx, or _peerDataNotfound
AnswerGetdata(a) ==
    /\ Asked(a, "getdata")
    /\ LET t == Head(ctx[a].queue).tx
       IN  IF t \in mempool[a]
           THEN /\ ctx' = [ctx EXCEPT ![a] = Progress(Answered(a), a, {t})]
                /\ callbacks' = NotCalled({t})
                /\ Register({t})
                /\ published' = AddToPublishList(t)
                /\ relays' = IF syncing /\ t \notin published THEN relays ELSE WithPeer({t}, a)
                /\ requests' = WithoutRequest({t}, a)
           ELSE /\ ctx' = [ctx EXCEPT ![a] = Answered(a)]
                /\ relays' = [relays EXCEPT ![t] = @ \ {a}]
                /\ requests' = WithoutRequest({t}, a)
                /\ UNCHANGED <<published, callbacks, listed, allTx>>
    /\ UNCHANGED <<syncVars, threadVars, mempool, faults>>

\* a answers with the transactions it has, when it has some
AnswerMempool(a) ==
    /\ Asked(a, "mempool")
    /\ AcceptInv(a, Answered(a), mempool[a])
    /\ UNCHANGED <<threadVars, mempool, faults>>

\* a answers a ping
AnswerPing(a) ==
    /\ Asked(a, "ping")
    /\ PongCallback(a, TRUE)
    /\ UNCHANGED <<threadVars, mempool, faults>>

Answer(a) == AnswerInv(a) \/ AnswerGetdata(a) \/ AnswerMempool(a) \/ AnswerPing(a)

\* done waiting for a mempool response
MempoolTimer(a) ==
    /\ Talking(a) /\ ctx[a].mempoolDone
    /\ ctx' = [ctx EXCEPT ![a] = SendPing([@ EXCEPT !.mempoolDone = FALSE], "mempoolDone")]
    /\ UNCHANGED <<syncVars, txVars, threadVars, mempool, faults>>

\* a transaction spreads to the node at a, which announces it when it has a filter
Spread(a, t) ==
    /\ t \notin mempool[a] /\ \E b \in Addrs : t \in mempool[b]
    /\ mempool' = [mempool EXCEPT ![a] = @ \cup {t}]
    /\ IF Talking(a) /\ ctx[a].filter THEN AcceptInv(a, ctx[a], {t})
       ELSE UNCHANGED <<ctx, syncVars, txVars>>
    /\ UNCHANGED <<threadVars, faults>>

\* a node that was sent t does not accept it, _peerRejectedTx: unless it knows of a double spend, or
\* lacks a parent, the node is misconfigured
Reject(a, t) ==
    /\ faults < MaxFaults /\ faults' = faults + 1
    /\ Talking(a) /\ t \in mempool[a] /\ t \in allTx
    /\ mempool' = [mempool EXCEPT ![a] = @ \ {t}]
    /\ relays' = [relays EXCEPT ![t] = @ \ {a}]
    /\ requests' = WithoutRequest({t}, a)
    /\ \E spent \in BOOLEAN :
          ctx' = IF spent \/ Parents[t] \cap allTx # {} THEN ctx ELSE [ctx EXCEPT ![a] = Disconnect(@)]
    /\ UNCHANGED <<syncVars, published, callbacks, listed, allTx, threadVars>>

\* the download peer relays the next block, _peerRelayedBlock
RelayedBlock(a) ==
    /\ Talking(a) /\ a = downloadPeer /\ height < estimated
    /\ height' = height + 1
    /\ IF height' < estimated
       THEN ctx' = [ctx EXCEPT ![a] = Schedule(@)] /\ failures' = 0
       ELSE ctx' = LoadMempools(ctx, a) /\ UNCHANGED failures
    /\ UNCHANGED <<downloadPeer, isConnected, syncing, estimated, txVars, threadVars, mempool, faults>>

(***************************************************************************)
(* The application.                                                        *)
(***************************************************************************)
\* the second part of BRPeerManagerPublishTx: all peers but the download peer get an inv, unless it
\* is the only one
PublishNow(t) ==
    LET P == AddToPublishList(t)
        C == IF t \in published THEN callbacks ELSE callbacks \cup {t}
    IN  /\ published' = P /\ callbacks' = C
        /\ ctx' = [a \in Addrs |->
                      IF a \in Online /\ (a # downloadPeer \/ Online = {a})
                      THEN SendPing(PublishPendingTx(ctx[a], P, C), "publishTxInvDone") ELSE ctx[a]]
        /\ UNCHANGED <<syncVars, relays, requests, listed, allTx>>

\* BRPeerManagerPublishTx: without a connection it looks at the network without the lock, or gives up
PublishTx(t) ==
    /\ app.call = "none" /\ t \notin published /\ t \notin allTx
    /\ IF isConnected THEN PublishNow(t) /\ UNCHANGED app
       ELSE /\ failures < MaxFail
            /\ app' = [call |-> "publish", tx |-> t]
            /\ UNCHANGED <<ctx, syncVars, txVars>>
    /\ UNCHANGED <<reconnects, connecting, mempool, faults>>

PublishContinues ==
    /\ app.call = "publish"
    /\ PublishNow(app.tx)
    /\ app' = [call |-> "none"]
    /\ UNCHANGED <<reconnects, connecting, mempool, faults>>

\* BRPeerManagerDisconnect, which then waits until all peers have gone; it returns at once without peers
DisconnectAll ==
    /\ app.call = "none" /\ connectedPeers # {}
    /\ faults < MaxFaults /\ faults' = faults + 1
    /\ app' = [call |-> "disconnect"]
    /\ failures' = MaxFail
    /\ ctx' = [a \in Addrs |-> Disconnect(ctx[a])]
    /\ UNCHANGED <<downloadPeer, isConnected, syncing, height, estimated, txVars, reconnects, connecting, mempool>>

DisconnectReturns ==
    /\ app.call = "disconnect" /\ connectedPeers = {}
    /\ app' = [call |-> "stopped"]
    /\ UNCHANGED <<ctx, syncVars, txVars, reconnects, connecting, mempool, faults>>

Thread(a) == PeerConnected(a) \/ Closed(a) \/ Timeout(a) \/ PongFails(a) \/ PeerDisconnected(a)
Serves(a) == Answer(a) \/ MempoolTimer(a) \/ RelayedBlock(a)
Network(a) == Breaks(a) \/ \E t \in Txs : Spread(a, t) \/ Reject(a, t)
Application == Connect \/ PublishContinues \/ DisconnectAll \/ DisconnectReturns \/ \E t \in Txs : PublishTx(t)

Next ==
    \/ Application \/ Reconnect \/ ConnectFill
    \/ \E a \in Addrs : Thread(a) \/ Serves(a) \/ Network(a)

Spec == Init /\ [][Next]_vars

\* The processor and the network never rest while a thread has a step to take or a connected peer
\* has something to answer: weaker than fairness to each thread and to each peer.
Fairness == WF_vars(Reconnect \/ ConnectFill \/ PublishContinues \/ \E a \in Addrs : Thread(a) \/ Serves(a))

FairSpec == Spec /\ Fairness

TypeOK ==
    /\ ctx \in [Addrs -> [status : Statuses, open : BOOLEAN, timer : BOOLEAN, synced : BOOLEAN, filter : BOOLEAN,
                          sentMempool : BOOLEAN, mempoolDone : BOOLEAN, known : SUBSET Txs,
                          queue : Seq(Messages), error : Errors]]
    /\ downloadPeer \in Addrs \cup {NoPeer} /\ isConnected \in BOOLEAN
    /\ failures \in Nat /\ syncing \in BOOLEAN /\ height \in Nat /\ estimated \in Nat
    /\ published \subseteq Txs /\ callbacks \subseteq published
    /\ relays \in [Txs -> SUBSET Addrs] /\ requests \in [Txs -> SUBSET Addrs]
    /\ listed \subseteq allTx /\ allTx \subseteq Txs
    /\ reconnects \in Nat /\ connecting \in Nat
    /\ app \in [call : {"none", "disconnect", "stopped"}] \cup [call : {"publish"}, tx : Txs]
    /\ mempool \in [Addrs -> SUBSET Txs] /\ faults \in 0..MaxFaults

\* A download peer is a peer the manager still has, online or about to be reported as gone, and
\* isConnected says that there is one: no handler follows a pointer to a peer that was freed.
DownloadPeerLives ==
    /\ isConnected <=> downloadPeer # NoPeer
    /\ downloadPeer # NoPeer => ctx[downloadPeer].status \in {"connected", "ended"}

\* "number of connected peers that have relayed the given unconfirmed transaction"
\* (BRPeerManager.h): a peer that has gone, with callbacks that failed on its way out, counts no more.
RelaysAreConnected == \A t \in Txs : relays[t] \subseteq connectedPeers

\* The manager is short of peers, and no thread is about to look for more.
GaveUp == Cardinality(connectedPeers) < MaxConnect /\ connecting = 0 /\ reconnects = 0

\* A publish callback is called at some time, however connections break and come back, unless the
\* manager has given up connecting.
PublishAnswered == \A t \in Txs : t \in callbacks ~> (t \notin callbacks \/ GaveUp)

\* A sync that was started stops, unless the manager has given up connecting.
SyncEnds == syncing ~> (~syncing \/ GaveUp)
=============================================================================
