------------------------ MODULE BRPeerManagerFilter ------------------------
(***************************************************************************)
(* The bloom filter of the SPV peer manager of pluswallet-core, composed   *)
(* with the message handlers of BRPeer.c: loading a filter, replacing it   *)
(* when the wallet has used up the addresses it covers, ignoring the       *)
(* blocks that were matched with the old one and requesting them again.    *)
(*                                                                         *)
(* The addresses of the wallet are numbered in the order the wallet makes  *)
(* them, so a filter is the number of the addresses it covers, and 0 for   *)
(* NULL. A transaction is named by the address it pays. There is one chain *)
(* (BRPeerManagerChain has forks) and a block is its height. The remote    *)
(* node is external: it serves requests in order.                          *)
(*                                                                         *)
(* A handler is one step under manager->lock. Where the code gives the     *)
(* lock up between two handlers of one message, or calls itself for an     *)
(* orphan, the rest of the work is put back as a message "relayed".        *)
(***************************************************************************)
EXTENDS Integers, Sequences, FiniteSets, SequencesExt

CONSTANTS
    Peers,       \* addresses of peers
    NoPeer,      \* C's NULL
    Pays,        \* Pays[h]: the wallet addresses paid in block h, as a set of numbers
    Mined,       \* the height of the network's chain when the wallet starts
    Gap,         \* SEQUENCE_GAP_LIMIT_EXTERNAL
    Spare,       \* the 100 spare addresses of _BRPeerManagerLoadBloomFilter
    Batch,       \* the 500 block hashes of an inv message that answers getblocks
    Far,         \* the 500 blocks from the end where a degraded filter is replaced
    MaxConnect,  \* PEER_MAX_CONNECTIONS
    MaxDegrade,  \* bound: how often the false positive rate is too high
    MaxFaults    \* bound: connections that break

MaxHeight == Len(Pays)
\* the addresses paid in the first h blocks
PaidBefore(h) == UNION {Pays[g] : g \in 1..h}

\* payments keep to the gap limit: an address is paid when it is one of the next Gap ones
ASSUME FilterAssumption ==
    /\ NoPeer \notin Peers
    /\ Pays \in Seq(SUBSET (Nat \ {0})) /\ Mined \in 0..MaxHeight /\ \A h \in 1..MaxHeight : IsFiniteSet(Pays[h])
    /\ Gap \in Nat \ {0} /\ Spare \in Nat /\ Batch \in Nat \ {0} /\ Far \in Nat
    /\ MaxConnect \in Nat \ {0} /\ MaxDegrade \in Nat /\ MaxFaults \in Nat
    /\ \A h \in 1..MaxHeight : \A a \in Pays[h] :
          a <= Gap \/ \E b \in PaidBefore(h) : b < a /\ a <= b + Gap

VARIABLES
    maxConnectCount,  \* manager->maxConnectCount, 1 when BRPeerManagerSetFixedPeer has been called
    tip,           \* the height of the network's chain
    lastBlock,     \* manager->lastBlock->height
    estimated,     \* manager->estimatedHeight
    received,      \* the transactions the wallet has registered
    filter,        \* manager->bloomFilter
    downloadPeer,  \* manager->downloadPeer
    orphans,       \* manager->orphans
    lastOrphan,    \* manager->lastOrphan, 0 for NULL
    ctx,           \* ctx[p]: the BRPeerContext of p, the messages in flight, and the remote node's filter
    degraded,      \* how often the false positive rate was too high
    faults

chainVars == <<lastBlock, estimated, orphans, lastOrphan>>
vars == <<maxConnectCount, tip, chainVars, received, filter, downloadPeer, ctx, degraded, faults>>

Heights == 1..MaxHeight
Callbacks == {"updateFilterPingDone", "updateFilterLoadDone", "updateFilterRerequestDone", "loadBloomFilterDone"}
\* what can be in flight when the network's chain has n blocks
Requests(n) ==
    [msg : {"getblocks"}, from : 0..n] \cup [msg : {"getdata"}, blocks : Seq(1..n)]
    \cup [msg : {"filterload"}, filter : Nat] \cup [msg : {"ping"}, done : Callbacks, peer : Peers]
Replies(n) ==
    [msg : {"inv"}, blocks : Seq(1..n)] \cup [msg : {"merkleblock"}, block : 1..n, txs : SUBSET PaidBefore(n)]
    \cup [msg : {"relayed"}, block : 1..n] \cup [msg : {"tx"}, tx : PaidBefore(n)] \cup [msg : {"pong"}, done : Callbacks, peer : Peers]

NoContext ==
    [status |-> "none", lastblock |-> 0, sentFilter |-> FALSE, needsUpdate |-> FALSE,
     knownBlocks |-> <<>>, lastBlockHash |-> 0, currentBlock |-> 0, currentTx |-> {}, out |-> <<>>, in |-> <<>>, remote |-> 0]

\* the nodes there is a connection to
Online == {p \in Peers : ctx[p].status = "connected"}

Init ==
    /\ maxConnectCount \in {1, MaxConnect}
    /\ tip = Mined /\ lastBlock = 0 /\ estimated = 0
    /\ received = {} /\ filter = 0 /\ downloadPeer = NoPeer
    /\ orphans = {} /\ lastOrphan = 0
    /\ ctx = [p \in Peers |-> NoContext]
    /\ degraded = 0 /\ faults = 0

(***************************************************************************)
(* The calls on one peer: functions from a context to a context.           *)
(***************************************************************************)
\* BRPeerSendMessage: nothing is sent without a socket
Send(c, m) == IF c.status = "connected" THEN [c EXCEPT !.out = Append(@, m)] ELSE c
SendPing(c, done, peer) == Send(c, [msg |-> "ping", done |-> done, peer |-> peer])
SendGetdata(c, blocks) == IF blocks = <<>> THEN c ELSE Send(c, [msg |-> "getdata", blocks |-> blocks])
\* BRPeerSendGetblocks, with the locators of the block at height from
SendGetblocks(c, from) == Send(c, [msg |-> "getblocks", from |-> from])

\* BRPeerSendFilterload
SendFilterload(c, f) == [Send(c, [msg |-> "filterload", filter |-> f]) EXCEPT !.sentFilter = TRUE]

\* BRPeerRerequestBlocks: from the last known hash of the block on
RerequestBlocks(c, from) ==
    LET at == {i \in DOMAIN c.knownBlocks : c.knownBlocks[i] = from}
        rest == SubSeq(c.knownBlocks, CHOOSE i \in at : \A j \in at : j <= i, Len(c.knownBlocks))
    IN  IF at = {} THEN c ELSE SendGetdata([c EXCEPT !.knownBlocks = rest], rest)

(***************************************************************************)
(* The filter.                                                             *)
(***************************************************************************)
Used(S) == IF S = {} THEN 0 ELSE CHOOSE a \in S : \A b \in S : b <= a
\* the addresses the wallet has after BRWalletUnusedAddrs(gap limit + 100)
Coverage == Used(received) + Gap + Spare

\* _BRPeerManagerLoadBloomFilter for the peers of S, the part on the peers; done is the callback of the
\* ping that follows, for the peer of each
LoadOn(cs, S, done) ==
    [p \in Peers |-> IF p \in S THEN SendPing(SendFilterload(cs[p], Coverage), done, p)
                     ELSE cs[p]]

\* mutated: a filter that is being replaced is not set again
LoadedNot(some) ==
    /\ filter' = filter
    /\ orphans' = IF some THEN {} ELSE orphans
    /\ lastOrphan' = IF some THEN 0 ELSE lastOrphan

\* ... and the part on the manager, when there is a peer to load it on
Loaded(some) ==
    /\ filter' = IF some THEN Coverage ELSE filter
    /\ orphans' = IF some THEN {} ELSE orphans
    /\ lastOrphan' = IF some THEN 0 ELSE lastOrphan

\* _BRPeerManagerUpdateFilter
UpdateFilter(cs) ==
    IF downloadPeer # NoPeer /\ ~cs[downloadPeer].needsUpdate
    THEN [cs EXCEPT ![downloadPeer] =
              SendPing([@ EXCEPT !.needsUpdate = TRUE], "updateFilterPingDone", downloadPeer)]
    ELSE cs

\* BRPeerConnectStatus(peer) == BRPeerStatusConnected: also after BRPeerDisconnect, until the thread ends
Connected(cs) == {p \in Peers : cs[p].status # "none"}

\* the peers _BRPeerManagerLoadMempools loads a new filter on, when d is the download peer
OtherPeers(cs, d) == Connected(cs) \ {d}

\* _updateFilterPingDone with info->peer = q: the new filter goes to the download peer during a sync
UpdateFilterPingDone(cs, q) ==
    LET syncing == lastBlock < estimated
        on == IF ~syncing THEN Connected(cs)
              ELSE IF downloadPeer = NoPeer THEN {} ELSE {downloadPeer}
        load(c, p) == SendPing(SendFilterload(c, Coverage),
                               "updateFilterLoadDone", IF syncing THEN q ELSE p)
    IN  /\ ctx' = [p \in Peers |-> IF p \in on THEN load(cs[p], p) ELSE cs[p]]
        /\ filter' = IF on = {} THEN 0 ELSE Coverage
        /\ orphans' = IF on = {} THEN orphans ELSE {}
        /\ lastOrphan' = IF on = {} THEN lastOrphan ELSE 0

\* _updateFilterLoadDone with info->peer = q. Without a download peer the code follows a NULL pointer
\* here, which has no next state.
UpdateFilterLoadDone(cs, q) ==
    LET done == [cs EXCEPT ![q].needsUpdate = FALSE]
    IN  /\ lastBlock < estimated => downloadPeer # NoPeer
        /\ ctx' = IF lastBlock < estimated
                  THEN [done EXCEPT ![downloadPeer] =
                            SendPing(RerequestBlocks(@, lastBlock), "updateFilterRerequestDone", q)]
                  ELSE done
        /\ UNCHANGED <<filter, orphans, lastOrphan>>

\* _updateFilterRerequestDone with info->peer = q
UpdateFilterRerequestDone(cs, q) ==
    /\ ctx' = IF cs[q].needsUpdate THEN cs ELSE [cs EXCEPT ![q] = SendGetblocks(@, lastBlock)]
    /\ UNCHANGED <<filter, orphans, lastOrphan>>

(***************************************************************************)
(* Messages: the thread of p takes the next one.                           *)
(***************************************************************************)
Reads(p, kind) == ctx[p].in # <<>> /\ Head(ctx[p].in).msg = kind
Taken(p) == [ctx EXCEPT ![p].in = Tail(@)]
\* p goes on with block h before it reads again
Relay(c, h) == [c EXCEPT !.in = <<[msg |-> "relayed", block |-> h]>> \o @]

\* the block hashes of an inv message that are requested
Wanted(c, blocks) == IF c.needsUpdate THEN <<>> ELSE blocks

\* _BRPeerAcceptInvMessage
AcceptInv(p) ==
    /\ Reads(p, "inv")
    /\ LET c == Taken(p)[p]
           all == Head(ctx[p].in).blocks
           blocks == IF ~c.sentFilter \/ (Len(all) = 1 /\ c.lastBlockHash = all[1]) THEN <<>> ELSE all
           last == IF Len(blocks) = 1 THEN blocks[1] ELSE c.lastBlockHash
           known == [c EXCEPT !.lastBlockHash = last, !.knownBlocks = @ \o blocks]
           asked == SendGetdata(known, Wanted(c, blocks))
       IN  ctx' = [ctx EXCEPT ![p] = IF Len(Wanted(c, blocks)) >= Batch
                                     THEN SendGetblocks(asked, blocks[Len(blocks)]) ELSE asked]
    /\ UNCHANGED <<maxConnectCount, tip, chainVars, received, filter, downloadPeer, degraded, faults>>

\* _BRPeerAcceptMerkleblockMessage
AcceptMerkleblock(p) ==
    /\ Reads(p, "merkleblock")
    /\ LET m == Head(ctx[p].in)
           c == Taken(p)[p]
       IN  ctx' = [ctx EXCEPT ![p] = IF m.txs = {} THEN Relay(c, m.block)
                                     ELSE [c EXCEPT !.currentBlock = m.block, !.currentTx = m.txs]]
    /\ UNCHANGED <<maxConnectCount, tip, chainVars, received, filter, downloadPeer, degraded, faults>>

\* the next gap limit unused addresses are in the filter
Covers(f, S) == Used(S) + Gap <= f

\* _BRPeerAcceptTxMessage with _peerRelayedTx: the last transaction of a block lets the block through
AcceptTx(p) ==
    /\ Reads(p, "tx")
    /\ LET t == Head(ctx[p].in).tx
           c == Taken(p)[p]
           left == [c EXCEPT !.currentTx = @ \ {t}]
           after == IF c.currentBlock # 0 /\ left.currentTx = {}
                    THEN Relay([left EXCEPT !.currentBlock = 0], c.currentBlock) ELSE left
           cs == [ctx EXCEPT ![p] = after]
       IN  /\ received' = received \cup {t}
           /\ IF filter # 0 /\ ~Covers(filter, received')
              THEN filter' = 0 /\ ctx' = UpdateFilter(cs)
              ELSE ctx' = cs /\ UNCHANGED filter
    /\ UNCHANGED <<maxConnectCount, tip, chainVars, downloadPeer, degraded, faults>>

\* _BRPeerAcceptPongMessage
AcceptPong(p) ==
    /\ Reads(p, "pong")
    /\ LET m == Head(ctx[p].in)
       IN  \/ m.done = "updateFilterPingDone" /\ UpdateFilterPingDone(Taken(p), m.peer)
           \/ m.done = "updateFilterLoadDone" /\ UpdateFilterLoadDone(Taken(p), m.peer)
           \/ m.done = "updateFilterRerequestDone" /\ UpdateFilterRerequestDone(Taken(p), m.peer)
           \/ m.done = "loadBloomFilterDone" /\ ctx' = Taken(p) /\ UNCHANGED <<filter, orphans, lastOrphan>>
    /\ UNCHANGED <<maxConnectCount, tip, lastBlock, estimated, received, downloadPeer, degraded, faults>>

\* the false positive rate is too high for the rest of the chain
Degrades(p) == p = downloadPeer /\ lastBlock + Far < ctx[p].lastblock /\ degraded < MaxDegrade

\* mutated: blocks are accepted while a filter update is pending
IgnoredNever(cs) == FALSE

\* a block is ignored while the filter is being replaced
Ignored(cs) == filter = 0

\* a block whose parent is not known
Orphan(p, cs, h) ==
    LET asks == lastBlock >= cs[p].lastblock /\ (lastOrphan = 0 \/ lastOrphan # h - 1)
    IN  /\ ctx' = IF asks THEN [cs EXCEPT ![p] = SendGetblocks(@, lastBlock)] ELSE cs
        /\ orphans' = orphans \cup {h} /\ lastOrphan' = h
        /\ UNCHANGED <<lastBlock, estimated, filter>>

\* mutated: the estimate is one block ahead
RaisedTooFar(h) == IF h >= estimated THEN h + 1 ELSE estimated

\* manager->estimatedHeight after a block
RaisedEstimate(h) == IF h > estimated THEN h ELSE estimated

\* a block of the chain: the last block of the sync loads filters on the other peers, and an orphan
\* that waits for the block comes next
Accepted(p, cs, h) ==
    LET others == IF h = estimated /\ h > lastBlock THEN OtherPeers(cs, downloadPeer) ELSE {}
        new == LoadOn(cs, others, "loadBloomFilterDone")
        waits == IF others = {} THEN orphans ELSE {}
    IN  /\ lastBlock' = IF h > lastBlock THEN h ELSE lastBlock
        /\ estimated' = RaisedEstimate(h)
        /\ filter' = IF others = {} THEN filter ELSE Coverage
        /\ lastOrphan' = IF others = {} THEN lastOrphan ELSE 0
        /\ orphans' = waits \ {h + 1}
        /\ ctx' = IF h + 1 \in waits THEN [new EXCEPT ![p] = Relay(@, h + 1)] ELSE new

\* _peerRelayedBlock
RelayedBlock(p) ==
    /\ Reads(p, "relayed")
    /\ LET h == Head(ctx[p].in).block
       IN  \E cs \in {Taken(p)} \cup (IF Degrades(p) THEN {UpdateFilter(Taken(p))} ELSE {}) :
              /\ degraded' = IF cs = Taken(p) THEN degraded ELSE degraded + 1
              /\ \/ Ignored(cs) /\ ctx' = cs /\ UNCHANGED <<chainVars, filter>>
                 \/ ~Ignored(cs) /\ h > lastBlock + 1 /\ Orphan(p, cs, h)
                 \/ ~Ignored(cs) /\ h <= lastBlock + 1 /\ Accepted(p, cs, h)
    /\ UNCHANGED <<maxConnectCount, tip, received, downloadPeer, faults>>

Handle(p) == AcceptInv(p) \/ AcceptMerkleblock(p) \/ AcceptTx(p) \/ AcceptPong(p) \/ RelayedBlock(p)

(***************************************************************************)
(* Connections.                                                            *)
(***************************************************************************)
StickWith(n) == downloadPeer # NoPeer /\ (ctx[downloadPeer].lastblock >= n \/ lastBlock >= n)

\* BRPeerDisconnect for the old download peer d: a message it has already read is still handled
Closing(cs, d, n) == [cs EXCEPT ![d] = [@ EXCEPT !.status = "closing", !.out = <<>>, !.in = SubSeq(cs[d].in, 1, n)]]

\* the peers with the highest reported block n; which of them is the fastest is open
Fastest(cs, n) == {p \in Connected(cs) : cs[p].lastblock >= n}

\* _peerConnected for a node with all blocks
PeerConnected(p) ==
    /\ ctx[p].status = "none" /\ Cardinality(Connected(ctx)) < maxConnectCount
    /\ LET new == [ctx EXCEPT ![p] = [NoContext EXCEPT !.status = "connected", !.lastblock = tip]]
       IN  IF StickWith(tip)
           THEN /\ ctx' = IF lastBlock >= tip THEN LoadOn(new, {p}, "loadBloomFilterDone") ELSE new
                /\ Loaded(lastBlock >= tip)
                /\ UNCHANGED <<downloadPeer, estimated>>
           ELSE \E n \in 0..1, d \in Fastest(new, tip) :
                LET old == IF downloadPeer = NoPeer THEN new
                           ELSE Closing(new, downloadPeer, IF new[downloadPeer].in = <<>> THEN 0 ELSE n)
                    mine == [old EXCEPT ![d] = SendFilterload(@, Coverage)]
                IN  /\ downloadPeer' = d /\ estimated' = tip
                    /\ Loaded(TRUE)
                    /\ ctx' = IF lastBlock < tip THEN [mine EXCEPT ![d] = SendGetblocks(@, lastBlock)]
                              ELSE LoadOn(mine, OtherPeers(mine, d), "loadBloomFilterDone")
    /\ UNCHANGED <<maxConnectCount, tip, lastBlock, received, degraded, faults>>

\* _peerDisconnected; the callbacks that wait for a pong do nothing when they fail
Gone(p) ==
    /\ ctx' = [ctx EXCEPT ![p] = NoContext]
    /\ downloadPeer' = IF p = downloadPeer THEN NoPeer ELSE downloadPeer
    /\ UNCHANGED <<maxConnectCount, tip, chainVars, received, filter, degraded>>

\* the sync timeout: p has nothing more to say, and the blocks are not complete
SyncTimeout(p) ==
    /\ p = downloadPeer /\ ctx[p].status = "connected" /\ lastBlock < estimated
    /\ ctx[p].in = <<>> /\ ctx[p].out = <<>>
    /\ Gone(p) /\ UNCHANGED faults

Closed(p) == ctx[p].status = "closing" /\ ctx[p].in = <<>> /\ Gone(p) /\ UNCHANGED faults
Breaks(p) == ctx[p].status = "connected" /\ faults < MaxFaults /\ faults' = faults + 1 /\ Gone(p)

(***************************************************************************)
(* The remote node.                                                        *)
(***************************************************************************)
Matched(h, f) == {a \in Pays[h] : a <= f}

\* the filtered block h: the matching transactions follow the block
Filtered(h, f) ==
    <<[msg |-> "merkleblock", block |-> h, txs |-> Matched(h, f)]>>
    \o [i \in 1..Cardinality(Matched(h, f)) |-> [msg |-> "tx", tx |-> SetToSeq(Matched(h, f))[i]]]

Reply(c, m) ==
    CASE m.msg = "getblocks" ->
            LET last == IF m.from + Batch < tip THEN m.from + Batch ELSE tip
            IN  IF last > m.from THEN <<[msg |-> "inv", blocks |-> [i \in 1..(last - m.from) |-> m.from + i]]>> ELSE <<>>
      [] m.msg = "getdata" -> FlattenSeq([i \in DOMAIN m.blocks |-> Filtered(m.blocks[i], c.remote)])
      [] m.msg = "ping" -> <<[msg |-> "pong", done |-> m.done, peer |-> m.peer]>>
      [] OTHER -> <<>>

\* the node at p serves the next request
Serve(p) ==
    /\ ctx[p].status = "connected" /\ ctx[p].out # <<>>
    /\ LET m == Head(ctx[p].out)
       IN  ctx' = [ctx EXCEPT ![p].out = Tail(@), ![p].in = @ \o Reply(ctx[p], m),
                              ![p].remote = IF m.msg = "filterload" THEN m.filter ELSE @]
    /\ UNCHANGED <<maxConnectCount, tip, chainVars, received, filter, downloadPeer, degraded, faults>>

\* a new block, which every node announces
Mine ==
    /\ tip < MaxHeight
    /\ tip' = tip + 1
    /\ ctx' = [p \in Peers |-> IF p \in Online
                               THEN [ctx[p] EXCEPT !.in = Append(@, [msg |-> "inv", blocks |-> <<tip + 1>>])]
                               ELSE ctx[p]]
    /\ UNCHANGED <<maxConnectCount, chainVars, received, filter, downloadPeer, degraded, faults>>

Next == Mine \/ \E p \in Peers : PeerConnected(p) \/ Closed(p) \/ SyncTimeout(p) \/ Breaks(p) \/ Handle(p) \/ Serve(p)

Spec == Init /\ [][Next]_vars

\* threads run, nodes answer, and a lost peer is replaced
Fairness ==
    \A p \in Peers : /\ WF_vars(Handle(p)) /\ WF_vars(Serve(p)) /\ WF_vars(Closed(p))
                     /\ WF_vars(SyncTimeout(p)) /\ WF_vars(PeerConnected(p))
FairSpec == Spec /\ Fairness

TypeOK ==
    /\ maxConnectCount \in {1, MaxConnect}
    /\ tip \in 0..MaxHeight /\ lastBlock \in 0..tip /\ estimated \in 0..tip
    /\ received \subseteq PaidBefore(tip) /\ filter \in Nat
    /\ downloadPeer \in Peers \cup {NoPeer}
    /\ orphans \subseteq 1..tip /\ lastOrphan \in 0..tip
    /\ ctx \in [Peers -> [status : {"none", "connected", "closing"}, lastblock : 0..tip, sentFilter : BOOLEAN,
                           needsUpdate : BOOLEAN, knownBlocks : Seq(1..tip), lastBlockHash : 0..tip, currentBlock : 0..tip,
                           currentTx : SUBSET PaidBefore(tip), out : Seq(Requests(tip)), in : Seq(Replies(tip)), remote : Nat]]
    /\ degraded \in 0..MaxDegrade /\ faults \in 0..MaxFaults

\* With a fixed peer the wallet has every transaction of the blocks it has taken: a block that was matched
\* with a filter which does not cover the next gap limit addresses is never accepted, whenever the filter is
\* replaced, whatever is in flight, and when the peer is lost in the middle and comes back.
NothingMissed == maxConnectCount = 1 => PaidBefore(lastBlock) \subseteq received

\* A sync comes to its end, whenever the filter is replaced: blocks that were ignored are requested again,
\* and where they are not (a single block hash that was announced before), the sync timeout brings a new
\* download peer.
SyncCompletes == lastBlock < estimated ~> lastBlock >= estimated

\* "ingore potentially incomplete blocks when a filter update is pending": a block the wallet has taken does
\* not stay incomplete.
IncompleteComes == \A h \in Heights : lastBlock >= h ~> Pays[h] \subseteq received
=============================================================================
