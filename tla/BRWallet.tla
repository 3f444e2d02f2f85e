------------------------------ MODULE BRWallet ------------------------------
(***************************************************************************)
(* The bitcoin wallet of pluswallet-core (BRWallet.c): the transactions it *)
(* lists, the ledger it derives from them and the address chains it grows. *)
(* Every operation that changes wallet state is an action; the callers are *)
(* the peer manager (relayed transactions, blocks, reorganisations, relay  *)
(* counts) and the user interface (addresses).                             *)
(*                                                                         *)
(* A transaction is an element of Txs with constant inputs and outputs; an *)
(* outpoint is a pair <<transaction, output index>>; an address of the     *)
(* wallet is a pair <<chain, index>>, any other address is foreign.        *)
(*                                                                         *)
(* The database is behind a serial queue: an operation of the wallet only  *)
(* queues its change of the rows, and a process that is stopped loses the  *)
(* changes still queued. The chain of the peer manager is environment, and *)
(* falls back on a restart and on a rescan without a word to the wallet.   *)
(***************************************************************************)
EXTENDS Integers, Sequences, FiniteSets, FiniteSetsExt, SequencesExt

CONSTANTS
    Txs,             \* the signed transactions that can reach the wallet
    Inputs,          \* Inputs[t]: the set of outpoints t spends
    Outputs,         \* Outputs[t]: sequence of [addr, amount] records
    Replaceable,     \* transactions pending whatever the chain says: RBF, dust output or oversized
    LockTime,        \* LockTime[t]: height below MaxLockHeight, else a time; 0 is no lock
    GapLimit,        \* GapLimit[c]: SEQUENCE_GAP_LIMIT_EXTERNAL / _INTERNAL
    ExtraGap,        \* addresses generated beyond the gap limit when a bloom filter is built
    Unconfirmed,     \* TX_UNCONFIRMED
    MaxLockHeight,   \* TX_MAX_LOCK_HEIGHT
    MaxHeight,       \* bound: highest block
    MaxTime,         \* bound: latest clock value
    MaxBlock,        \* bound: wallet transactions in one block
    MaxWrites        \* bound: changes waiting to be written to the database

External == "external"
Internal == "internal"
Chains == {External, Internal}

ASSUME ConstantsAssumption ==
    /\ IsFiniteSet(Txs)
    /\ MaxHeight \in Nat /\ MaxTime \in Nat /\ MaxLockHeight \in Nat /\ Unconfirmed \in Nat
    /\ MaxHeight < MaxLockHeight /\ MaxHeight < Unconfirmed /\ MaxLockHeight <= MaxTime
    /\ GapLimit \in [Chains -> Nat \ {0}] /\ ExtraGap \in Nat
    /\ MaxBlock \in Nat /\ MaxWrites \in Nat
    /\ LockTime \in [Txs -> Nat]

\* an address is a pair of a chain and an index, that of another wallet one of a name and a number
ASSUME OutputsAssumption ==
    /\ DOMAIN Outputs = Txs
    /\ \A t \in Txs : Outputs[t] \in Seq([addr : STRING \X Nat, amount : Nat])

VARIABLES
    height,        \* tx->blockHeight of each transaction object
    timestamp,     \* tx->timestamp: 0 is "not verified", 1 any time
    blockHeight,   \* wallet->blockHeight
    transactions,  \* wallet->transactions, oldest first
    allTx,         \* wallet->allTx
    chainLen,      \* number of addresses generated on each chain
    ledger,        \* everything _BRWalletUpdateBalance rebuilds, see EmptyLedger
    removing,      \* calls of BRWalletRemoveTransaction on the caller's stack, innermost first
    queue,         \* CoreDatabase.queue: the changes of rows and saved blocks not written yet
    rows,          \* the transaction rows of CoreDatabase
    start,         \* environment: the followed chain up to the last block written by saveBlocks
    alive,         \* FALSE after CoreDatabase.txUpdated called exit(0) or BRWalletNew returned NULL
    tip,           \* environment: height of the chain the peer manager follows
    mined,         \* environment: height of the block of that chain that holds t, 0 if none
    now            \* environment: time(NULL), never below MaxLockHeight

chainVars == <<tip, mined, now>>
dbVars == <<rows, start, alive>>
walletVars == <<height, timestamp, blockHeight, transactions, allTx, chainLen, ledger, removing>>
vars == <<walletVars, queue, dbVars, chainVars>>

\* the chain the peer manager follows, and the transactions of the scenario in its blocks
Chain == [tip |-> tip, mined |-> mined]

Blocks == {<<>>} \cup UNION {SetToSeqs(S) : S \in {S \in SUBSET Txs : Cardinality(S) <= MaxBlock}}
Listed == ToSet(transactions)

(***************************************************************************)
(* Reading transactions and addresses.                                     *)
(***************************************************************************)
Outpoints(t) == {<<t, n>> : n \in DOMAIN Outputs[t]}
ParentsOf(t) == {o[1] : o \in Inputs[t]}
Amount(o) == Outputs[o[1]][o[2]].amount
Total(os) == MapThenSumSet(Amount, os)
AddrOf(o) == Outputs[o[1]][o[2]].addr
AddrsOf(t) == {AddrOf(o) : o \in Outpoints(t)}
WalletAddrs(len) == UNION {{<<c, i>> : i \in 0 .. len[c] - 1} : c \in Chains}

\* wallet outputs among a set of transactions
OwnedBy(ts, addrs) == {o \in UNION {Outpoints(t) : t \in ts} : AddrOf(o) \in addrs}

\* _BRWalletContainsTx: t pays a wallet address, or spends an output of a known
\* transaction that does
ContainsTx(t, all, addrs) ==
    \/ AddrsOf(t) \cap addrs # {}
    \/ \E o \in Inputs[t] : o[1] \in all /\ o \in OwnedBy({o[1]}, addrs)

(***************************************************************************)
(* Sorting: the insertion sort of wallet->transactions.                    *)
(***************************************************************************)
\* _BRWalletTxIsAscending(tx1, tx2): tx1 belongs after tx2
TxIsAscending(tx1, tx2, hts, all) ==
    LET after[t \in Txs] ==
            \/ hts[t] > hts[tx2]
            \/ /\ hts[t] = hts[tx2]
               /\ \/ tx2 \in ParentsOf(t)
                  \/ /\ t \notin ParentsOf(tx2)
                     /\ \E p \in ParentsOf(t) \cap all : after[p]
    IN  after[tx1]

\* _txChainIndex: the last position of the chain that t pays, -1 for SIZE_MAX
TxChainIndex(t, c, len) == Max({-1} \cup {i \in 0 .. len[c] - 1 : <<c, i>> \in AddrsOf(t)})

\* _BRWalletTxCompare(tx1, tx2) > 0
TxCompareGreater(tx1, tx2, hts, all, len) ==
    \/ TxIsAscending(tx1, tx2, hts, all)
    \/ /\ ~ TxIsAscending(tx2, tx1, hts, all)
       /\ LET c == IF TxChainIndex(tx1, Internal, len) = -1 THEN External ELSE Internal
              j == TxChainIndex(tx2, c, len)
          IN  j # -1 /\ TxChainIndex(tx1, c, len) > j

\* mutated: no sorting
AppendTx(list, t, hts, all, len) == Append(list, t)

\* _BRWalletInsertTx: t goes behind the last transaction that is not greater
InsertTx(list, t, hts, all, len) ==
    InsertAt(list, SelectLastInSeq(list, LAMBDA u : ~ TxCompareGreater(u, t, hts, all, len)) + 1, t)

\* mutated: the old entry stays
InsertAgain(list, t, hts, all, len) ==
    IF t \in ToSet(list) THEN InsertTx(list, t, hts, all, len) ELSE list

\* array_rm of the entry of t that is found first, from the end
RemoveTx(list, t) ==
    IF t \in ToSet(list) THEN RemoveAt(list, SelectLastInSeq(list, LAMBDA u : u = t)) ELSE list

\* BRWalletUpdateTransactions: "remove and re-insert tx to keep wallet sorted"
Reinsert(list, t, hts, all, len) ==
    IF t \in ToSet(list) THEN InsertTx(RemoveTx(list, t), t, hts, all, len) ELSE list

(***************************************************************************)
(* _BRWalletUpdateBalance: one pass over the list, oldest first.           *)
(***************************************************************************)
EmptyLedger ==
    [balance |-> 0, prevBalance |-> 0, balanceHist |-> <<>>, totalSent |-> 0, totalReceived |-> 0,
     utxos |-> {}, spentOutputs |-> {}, invalidTx |-> {}, pendingTx |-> {}, usedAddrs |-> {}]

\* a lock that the current block or the clock has not reached yet
FutureLock(t, bh, clock) ==
    \/ LockTime[t] < MaxLockHeight /\ LockTime[t] > bh + 1
    \/ LockTime[t] > clock

\* mutated: double spends are not looked for
InvalidParent(l, t) == ParentsOf(t) \cap l.invalidTx # {}

\* an input is spent by, or belongs to, an earlier transaction of the list
InvalidInput(l, t) == \E o \in Inputs[t] : o \in l.spentOutputs \/ o[1] \in l.invalidTx

\* mutated: parents are assumed to come before their children
SpentByThis(l, t, added) == l.utxos \cap Inputs[t]

\* the utxos that t or an earlier transaction spends: "transaction ordering is not
\* guaranteed, so check the entire UTXO set against the entire spent output set"
SpentUtxos(l, t, added) == (l.utxos \cup added) \cap (l.spentOutputs \cup Inputs[t])

\* the wallet counts nothing on a pending transaction, or on one that spends its outputs
PendingInput(l, t, bh, clock) ==
    t \in Replaceable \/ FutureLock(t, bh, clock) \/ ParentsOf(t) \cap l.pendingTx # {}

CountInvalid(l, t) ==
    [l EXCEPT !.invalidTx = @ \cup {t}, !.balanceHist = Append(@, l.balance)]

CountPending(l, t) ==
    [l EXCEPT !.pendingTx = @ \cup {t}, !.balanceHist = Append(@, l.balance),
              !.spentOutputs = @ \cup Inputs[t]]

CountValid(l, t, addrs) ==
    LET added   == OwnedBy({t}, addrs)
        gone    == SpentUtxos(l, t, added)
        balance == (l.balance + Total(added)) - Total(gone)
    IN  [l EXCEPT !.spentOutputs = @ \cup Inputs[t],
                  !.usedAddrs = @ \cup AddrsOf(t),
                  !.utxos = (@ \cup added) \ gone,
                  !.balance = balance,
                  !.totalReceived = @ + Max({0, balance - l.prevBalance}),
                  !.totalSent = @ + Max({0, l.prevBalance - balance}),
                  !.balanceHist = Append(@, balance),
                  !.prevBalance = balance]

\* one listed transaction t added to the ledger l
CountTx(l, t, hts, addrs, bh, clock) ==
    IF hts[t] = Unconfirmed /\ InvalidInput(l, t) THEN CountInvalid(l, t)
    ELSE IF hts[t] = Unconfirmed /\ PendingInput(l, t, bh, clock) THEN CountPending(l, t)
    ELSE CountValid(l, t, addrs)

\* mutated: balanceHist is not cleared
UpdateBalanceKeepHist(list, hts, addrs, bh, clock) ==
    LET after[n \in 0 .. Len(list)] ==
            IF n = 0 THEN [EmptyLedger EXCEPT !.balanceHist = ledger.balanceHist]
            ELSE CountTx(after[n - 1], list[n], hts, addrs, bh, clock)
    IN  after[Len(list)]

\* after[n]: the ledger after the first n transactions of the list
UpdateBalance(list, hts, addrs, bh, clock) ==
    LET after[n \in 0 .. Len(list)] ==
            IF n = 0 THEN EmptyLedger ELSE CountTx(after[n - 1], list[n], hts, addrs, bh, clock)
    IN  after[Len(list)]

(***************************************************************************)
(* Address chains.                                                         *)
(***************************************************************************)
\* BRWalletUnusedAddrs: addresses are generated until gap unused ones follow the
\* last used one (an address used before it was generated restarts the gap)
UnusedAddrs(len, c, gap, used) ==
    LET reached(n) == \A i \in (n - gap) .. (n - 1) : <<c, i>> \notin used
        lengths == len[c] .. Max({len[c]} \cup {u[2] + 1 : u \in {a \in used : a[1] = c}}) + gap
    IN  [len EXCEPT ![c] = Min({n \in lengths : n >= gap /\ reached(n)})]

\* both chains topped up to their gap limit, plus extra
TopUp(len, extra, used) ==
    UnusedAddrs(UnusedAddrs(len, External, GapLimit[External] + extra, used),
                Internal, GapLimit[Internal] + extra, used)

\* the addresses BRWalletNew generates for a wallet without transactions
FirstLen == TopUp([c \in Chains |-> 0], 0, {})
FirstAddrs == WalletAddrs(FirstLen)

(***************************************************************************)
(* CoreDatabase.swift, driven by the wallet's txAdded, txUpdated and       *)
(* txDeleted callbacks: each leaves a change on the serial queue.          *)
(***************************************************************************)
Added(t) == [op |-> "added", txs |-> {t}]
Updated(hashes, h, ts) == [op |-> "updated", txs |-> hashes, height |-> h, timestamp |-> ts]
Deleted(t) == [op |-> "deleted", txs |-> {t}]
SavedBlocks(chain) == [op |-> "blocks", chain |-> chain]

\* mutated: blocks are written before the changes of the rows that wait
EnqueueBlocksFirst(q, change) == IF change.op = "blocks" THEN <<change>> \o q ELSE Append(q, change)

\* queue.async
Enqueue(q, change) == Append(q, change)

\* mutated: the row stays
TxDeletedNot(t) == queue' = queue

TxAdded(t) == queue' = Enqueue(queue, Added(t))
TxDeleted(t) == queue' = Enqueue(queue, Deleted(t))
TxUpdated(hashes, h, ts) ==
    queue' = IF hashes = {} THEN queue ELSE Enqueue(queue, Updated(hashes, h, ts))

\* the rows of some hashes rewritten with a height and a timestamp
UpdatedRows(hashes, h, ts) ==
    [t \in DOMAIN rows |-> IF t \in hashes THEN [height |-> h, timestamp |-> ts] ELSE rows[t]]

(***************************************************************************)
(* Queries on a transaction object.                                        *)
(***************************************************************************)
\* BRWalletTransactionIsValid, recursive over the known parents
TransactionIsValid(tx) ==
    LET valid[t \in Txs] ==
            height[t] = Unconfirmed =>
              /\ IF t \in allTx THEN t \notin ledger.invalidTx
                                ELSE Inputs[t] \cap ledger.spentOutputs = {}
              /\ \A p \in ParentsOf(t) \cap allTx : valid[p]
    IN  valid[tx]

\* mutated: replace-by-fee is not looked for
LockIsPending(tx) == height[tx] = Unconfirmed /\ FutureLock(tx, blockHeight, now)

\* BRWalletTransactionIsPending, computed from the wallet's current block height
TransactionIsPending(tx) ==
    LET pending[t \in Txs] ==
            /\ height[t] = Unconfirmed
            /\ \/ t \in Replaceable
               \/ FutureLock(t, blockHeight, now)
               \/ \E p \in ParentsOf(t) \cap allTx : pending[p]
    IN  pending[tx]

\* BRWalletTransactionIsVerified: 0-conf safe
TransactionIsVerified(tx) ==
    LET verified[t \in Txs] ==
            height[t] = Unconfirmed =>
              /\ timestamp[t] # 0 /\ TransactionIsValid(t) /\ ~ TransactionIsPending(t)
              /\ \A p \in ParentsOf(t) \cap allTx : verified[p]
    IN  verified[tx]

(***************************************************************************)
(* The operations. All callers but the address functions hold the peer     *)
(* manager's lock, so they cannot run inside a removal.                    *)
(***************************************************************************)
HasRoom == Len(queue) < MaxWrites
Ready == alive /\ removing = <<>> /\ HasRoom

Recompute(list, hts, bh) ==
    ledger' = UpdateBalance(list, hts, WalletAddrs(chainLen), bh, now)

\* BRWalletRegisterTransaction of an unknown transaction associated with the wallet
RegisterWalletTx(t, ts) ==
    /\ t \notin allTx /\ ContainsTx(t, allTx, WalletAddrs(chainLen))
    /\ allTx' = allTx \cup {t}
    /\ timestamp' = [timestamp EXCEPT ![t] = ts]
    /\ transactions' = InsertTx(transactions, t, height, allTx', chainLen)
    /\ Recompute(transactions', height, blockHeight)
    /\ chainLen' = TopUp(chainLen, 0, ledger'.usedAddrs)
    /\ TxAdded(t)
    /\ UNCHANGED <<height, blockHeight, removing, dbVars, chainVars>>

\* the same of an unconfirmed transaction of others: remembered, not listed
RegisterOtherTx(t, ts) ==
    /\ t \notin allTx /\ ~ ContainsTx(t, allTx, WalletAddrs(chainLen))
    /\ allTx' = allTx \cup {t}
    /\ timestamp' = [timestamp EXCEPT ![t] = ts]
    /\ UNCHANGED <<height, blockHeight, transactions, chainLen, ledger, removing, queue, dbVars, chainVars>>

\* the same of a transaction already in allTx: nothing happens, true is returned
RegisterKnownTx(t) == t \in allTx /\ UNCHANGED vars

\* ts is 1 for a transaction the user publishes, 0 for one a peer relays
RegisterTransaction(t, ts) ==
    /\ Ready /\ mined[t] = 0
    /\ RegisterWalletTx(t, ts) \/ RegisterOtherTx(t, ts) \/ RegisterKnownTx(t)

\* mutated: only pending transactions are looked for
WasPending(t) == t \in ledger.pendingTx

\* the ledger must be recomputed when a transaction it left out changes
NeedsUpdate(t) == t \in ledger.pendingTx \cup ledger.invalidTx

\* one hash of BRWalletUpdateTransactions
UpdateOne(s, t, h, ts) ==
    LET hts == [s.height EXCEPT ![t] = h]
    IN  IF t \notin s.all \/ (s.height[t] = h /\ s.timestamp[t] = ts) THEN s
        ELSE IF ContainsTx(t, s.all, WalletAddrs(chainLen))
        THEN [s EXCEPT !.height = hts, !.timestamp[t] = ts,
                       !.list = Reinsert(@, t, hts, s.all, chainLen),
                       !.hashes = @ \cup {t}]
        ELSE IF h = Unconfirmed
        THEN [s EXCEPT !.timestamp[t] = ts]
        ELSE [s EXCEPT !.all = @ \ {t}, !.timestamp[t] = 0]

\* mutated: heights are added up
SumHeight(h) == blockHeight + h

\* wallet->blockHeight only grows here; TX_UNCONFIRMED is taken for a height too
RaisedHeight(h) == Max({blockHeight, h})

\* what the loop over txHashes changes; after[n]: after the first n of them
UpdateAll(txHashes, h, ts) ==
    LET after[n \in 0 .. Len(txHashes)] ==
            IF n = 0 THEN [height |-> height, timestamp |-> timestamp, list |-> transactions,
                           all |-> allTx, hashes |-> {}]
            ELSE UpdateOne(after[n - 1], txHashes[n], h, ts)
    IN  after[Len(txHashes)]

UpdateTransactions(txHashes, h, ts) ==
    LET s == UpdateAll(txHashes, h, ts)
    IN  /\ blockHeight' = RaisedHeight(h)
        /\ height' = s.height /\ timestamp' = s.timestamp
        /\ transactions' = s.list /\ allTx' = s.all
        /\ IF \E t \in s.hashes : NeedsUpdate(t)
           THEN Recompute(s.list, s.height, blockHeight') ELSE UNCHANGED ledger
        /\ TxUpdated(s.hashes, h, ts)
        /\ UNCHANGED <<chainLen, removing, dbVars>>

\* the blocks the network can mine: no conflict, parents first, and (as peers send
\* the transactions a filter matches before the block) nothing of the wallet unseen
CanBeMined(block) ==
    LET chain == {t \in Txs : mined[t] # 0}
        before(i) == chain \cup {block[j] : j \in 1 .. i - 1}
    IN  \A i \in DOMAIN block :
            /\ mined[block[i]] = 0
            /\ ParentsOf(block[i]) \cap Txs \subseteq before(i)
            /\ \A t \in before(i) : Inputs[t] \cap Inputs[block[i]] = {}
            /\ block[i] \in allTx \/ ~ ContainsTx(block[i], allTx, WalletAddrs(chainLen))

\* the chain grows by one block; the wallet is called when the block has matches
BlockConfirms(block) ==
    /\ Ready /\ tip < MaxHeight /\ CanBeMined(block)
    /\ tip' = tip + 1
    /\ mined' = [t \in Txs |-> IF t \in ToSet(block) THEN tip + 1 ELSE mined[t]]
    /\ IF block # <<>>
       THEN UpdateTransactions(block, tip + 1, 1)
       ELSE UNCHANGED <<walletVars, queue, dbVars>>
    /\ UNCHANGED now

\* enough peers relayed the unconfirmed t (ts = 1), or it lost relays (ts = 0)
RelayCountChanges(t, ts) ==
    /\ Ready /\ t \in allTx /\ height[t] = Unconfirmed /\ timestamp[t] # ts
    /\ UpdateTransactions(<<t>>, Unconfirmed, ts)
    /\ UNCHANGED chainVars

\* mutated: the block at h + 1 is kept
ConfirmedUpToNext(h) == SelectLastInSeq(transactions, LAMBDA t : height[t] <= h + 1)

\* position of the last transaction confirmed at or below h
ConfirmedUpTo(h) == SelectLastInSeq(transactions, LAMBDA t : height[t] <= h)

\* the followed chain cut above h
Cut(h) == /\ h < tip /\ tip' = h
          /\ mined' = [t \in Txs |-> IF mined[t] > h THEN 0 ELSE mined[t]]

\* BRWalletSetTxUnconfirmedAfter: the chain reorganises from height h upwards
SetTxUnconfirmedAfter(h) ==
    LET i == ConfirmedUpTo(h)
        hashes == {transactions[k] : k \in i + 1 .. Len(transactions)}
    IN  /\ Ready /\ Cut(h)
        /\ blockHeight' = h
        /\ height' = [t \in Txs |-> IF t \in hashes THEN Unconfirmed ELSE height[t]]
        /\ IF hashes # {}
           THEN Recompute(transactions, height', h) /\ TxUpdated(hashes, Unconfirmed, 0)
           ELSE UNCHANGED <<ledger, queue>>
        /\ UNCHANGED <<timestamp, transactions, allTx, chainLen, removing, dbVars, now>>

\* BRPeerManagerRescan...: the peer manager goes back to a block it knows and downloads the chain
\* from there again; the wallet is not told
Rescan(h) ==
    /\ alive /\ removing = <<>> /\ Cut(h)
    /\ UNCHANGED <<walletVars, queue, dbVars, now>>

\* BRWalletRemoveTransaction of an unconfirmed transaction no peer has any more
RemoveTransaction(t) ==
    /\ Ready /\ t \in Listed /\ height[t] = Unconfirmed
    /\ removing' = <<t>>
    /\ UNCHANGED <<height, timestamp, blockHeight, transactions, allTx, chainLen, ledger, queue, dbVars,
                   chainVars>>

\* mutated: the search also stops at transactions of the same height
DependentsAbove(t) ==
    LET from == SelectLastInSeq(transactions, LAMBDA u : height[u] <= height[t])
        found[n \in from .. Len(transactions)] ==
            IF n = from THEN <<>>
            ELSE IF transactions[n] # t /\ t \in ParentsOf(transactions[n])
            THEN Append(found[n - 1], transactions[n]) ELSE found[n - 1]
    IN  found[Len(transactions)]

\* the listed transactions that spend an output of t, searched from the end of the
\* list down to the first transaction below the height of t
Dependents(t) ==
    LET from == SelectLastInSeq(transactions, LAMBDA u : height[u] < height[t])
        found[n \in from .. Len(transactions)] ==
            IF n = from THEN <<>>
            ELSE IF transactions[n] # t /\ t \in ParentsOf(transactions[n])
            THEN Append(found[n - 1], transactions[n]) ELSE found[n - 1]
    IN  found[Len(transactions)]

\* one locked section of the innermost call: it calls itself for the dependents it
\* finds and then for its own hash again, or it removes the transaction
RemoveStep ==
    LET t == Head(removing)
        dependents == Dependents(t)
    IN  /\ alive /\ removing # <<>> /\ HasRoom
        /\ IF dependents # <<>>
           THEN /\ removing' = dependents \o removing
                /\ UNCHANGED <<transactions, ledger, queue>>
           ELSE /\ removing' = Tail(removing)
                /\ transactions' = RemoveTx(transactions, t)
                /\ Recompute(transactions', height, blockHeight)
                /\ TxDeleted(t)
        /\ UNCHANGED <<height, timestamp, blockHeight, allTx, chainLen, dbVars, chainVars>>

\* BRWalletUnusedAddrs from the user interface (one external address) or from the
\* peer manager before it builds a bloom filter (both chains, ExtraGap more)
GenerateAddrs ==
    /\ alive
    /\ \/ chainLen' = UnusedAddrs(chainLen, External, 1, ledger.usedAddrs)
       \/ removing = <<>> /\ chainLen' = TopUp(chainLen, ExtraGap, ledger.usedAddrs)
    /\ chainLen' # chainLen
    /\ UNCHANGED <<height, timestamp, blockHeight, transactions, allTx, ledger, removing, queue, dbVars,
                   chainVars>>

(***************************************************************************)
(* The database queue. Each change is one closure, run in the order they   *)
(* were queued.                                                            *)
(***************************************************************************)
\* the manager's saveBlocks callback: a restart will continue from the present tip. It is called after
\* the lock is released; a save queued later leaves rows and blocks this action leaves as well.
SaveBlocks ==
    /\ alive /\ HasRoom
    /\ queue' = Enqueue(queue, SavedBlocks(Chain))
    /\ UNCHANGED <<walletVars, dbVars, chainVars>>

\* the closure at the head of the queue runs
Write(op) ==
    /\ alive /\ queue # <<>> /\ Head(queue).op = op
    /\ queue' = Tail(queue)
    /\ UNCHANGED <<walletVars, chainVars>>

\* txAdded reads the transaction object when its closure runs
WriteAdded ==
    /\ Write("added")
    /\ rows' = [t \in DOMAIN rows \cup Head(queue).txs |->
                  IF t \in Head(queue).txs THEN [height |-> height[t], timestamp |-> timestamp[t]]
                  ELSE rows[t]]
    /\ UNCHANGED <<start, alive>>

\* txUpdated ends the process when a hash has no row
WriteUpdated ==
    /\ Write("updated")
    /\ rows' = UpdatedRows(Head(queue).txs, Head(queue).height, Head(queue).timestamp)
    /\ alive' = (Head(queue).txs \subseteq DOMAIN rows)
    /\ UNCHANGED start

WriteDeleted ==
    /\ Write("deleted")
    /\ rows' = Restrict(rows, DOMAIN rows \ Head(queue).txs)
    /\ UNCHANGED <<start, alive>>

WriteBlocks ==
    /\ Write("blocks")
    /\ start' = Head(queue).chain
    /\ UNCHANGED <<rows, alive>>

(***************************************************************************)
(* Starting from what the database holds.                                  *)
(***************************************************************************)
\* the address chains BRWalletNew generates for the transactions of the database
LoadedLen(saved) == TopUp([c \in Chains |-> 0], 0, UNION {AddrsOf(t) : t \in DOMAIN saved})

\* BRWalletNew returns NULL when the first row is not associated with the wallet
MatchesMasterPubKey(t, saved) == ContainsTx(t, DOMAIN saved, WalletAddrs(LoadedLen(saved)))

\* the list after its first n transactions have been inserted, before any address is generated
LoadedList(order, hts) ==
    LET after[n \in 0 .. Len(order)] ==
            IF n = 0 THEN <<>>
            ELSE InsertTx(after[n - 1], order[n], hts, {order[i] : i \in 1 .. n}, [c \in Chains |-> 0])
    IN  after[Len(order)]

LoadedHeight(saved) == [t \in Txs |-> IF t \in DOMAIN saved THEN saved[t].height ELSE Unconfirmed]
LoadedTimestamp(saved) == [t \in Txs |-> IF t \in DOMAIN saved THEN saved[t].timestamp ELSE 0]

\* BRWalletNew with the rows of the database in the given order
BRWalletNew(order, saved) ==
    /\ height' = LoadedHeight(saved) /\ timestamp' = LoadedTimestamp(saved)
    /\ transactions' = LoadedList(order, height') /\ allTx' = DOMAIN saved
    /\ blockHeight' = 0 /\ chainLen' = LoadedLen(saved)
    /\ ledger' = UpdateBalance(transactions', height', WalletAddrs(chainLen'), 0, now)
    /\ alive' = (order = <<>> \/ MatchesMasterPubKey(Head(order), saved))

\* the rows a stopped process leaves: txUpdated rewrites them one by one, so that some of the hashes
\* of the running closure may be done; the other closures are single statements or transactions of SQLite
RowsLeft ==
    {rows} \cup (IF alive /\ queue # <<>> /\ Head(queue).op = "updated"
                 THEN {UpdatedRows(S, Head(queue).height, Head(queue).timestamp) : S \in SUBSET Head(queue).txs}
                 ELSE {})

\* the application ends, stopped by the system or by exit(0), and starts again: BRPeerManagerNew
\* continues from the saved blocks, whatever the heights in the rows are
Restart ==
    /\ rows' \in RowsLeft
    /\ \E order \in SetToSeqs(DOMAIN rows) : BRWalletNew(order, rows')
    /\ queue' = <<>> /\ removing' = <<>>
    /\ tip' = start.tip /\ mined' = start.mined
    /\ UNCHANGED <<start, now>>

Tick == /\ now < MaxTime /\ now' = now + 1
        /\ UNCHANGED <<walletVars, queue, dbVars, tip, mined>>

Init ==
    /\ height = [t \in Txs |-> Unconfirmed] /\ timestamp = [t \in Txs |-> 0]
    /\ blockHeight = 0 /\ transactions = <<>> /\ allTx = {}
    /\ chainLen = FirstLen
    /\ ledger = EmptyLedger /\ removing = <<>>
    /\ queue = <<>> /\ rows = <<>> /\ alive = TRUE
    /\ tip = 0 /\ mined = [t \in Txs |-> 0] /\ start = Chain /\ now = MaxLockHeight

\* what happens while the application runs and the chain only moves by blocks and reorganisations
Running ==
    \/ \E t \in Txs, ts \in {0, 1} : RegisterTransaction(t, ts)
    \/ \E block \in Blocks : BlockConfirms(block)
    \/ \E t \in Txs, ts \in {0, 1} : RelayCountChanges(t, ts)
    \/ \E h \in 0 .. MaxHeight : SetTxUnconfirmedAfter(h)
    \/ \E t \in Txs : RemoveTransaction(t)
    \/ RemoveStep
    \/ GenerateAddrs
    \/ SaveBlocks
    \/ WriteAdded \/ WriteUpdated \/ WriteDeleted \/ WriteBlocks
    \/ Tick

Rescanning == \E h \in 0 .. MaxHeight : Rescan(h)

Next == Running \/ Rescanning \/ Restart

Spec == Init /\ [][Next]_vars

\* a restart finds every row to be associated with the wallet. BRWalletNew only looks at the first one,
\* and generates the addresses that follow from the rows, which may be fewer than there were.
RowsRecognized(saved) == \A t \in DOMAIN saved : MatchesMasterPubKey(t, saved)
NextRecognized == Running \/ Rescanning \/ (Restart /\ RowsRecognized(rows))
SpecRecognized == Init /\ [][NextRecognized]_vars

\* a chain of blocks: no conflict, and parents before their children
IsChain(chain) ==
    /\ \A t \in Txs : chain.mined[t] <= chain.tip
    /\ \A t \in Txs : chain.mined[t] # 0 =>
          /\ \A p \in ParentsOf(t) \cap Txs : chain.mined[p] \in 1 .. chain.mined[t]
          /\ \A u \in Txs \ {t} : chain.mined[u] # 0 => Inputs[t] \cap Inputs[u] = {}

\* the height a transaction has in a chain
HeightIn(chain, t) == IF chain.mined[t] = 0 THEN Unconfirmed ELSE chain.mined[t]

\* rows that agree with the saved blocks: the wallet's transactions of the chain, at their heights, and
\* unconfirmed ones
RowsAgree(saved, chain) ==
    /\ \A t \in DOMAIN saved : saved[t].height = HeightIn(chain, t)
    /\ \A t \in Txs \ DOMAIN saved :
          chain.mined[t] # 0 => ~ ContainsTx(t, DOMAIN saved, WalletAddrs(LoadedLen(saved)))
    /\ RowsRecognized(saved)

\* a session starts with such rows, none the first time
InitSession ==
    /\ tip \in 0 .. MaxHeight /\ mined \in [Txs -> 0 .. MaxHeight] /\ IsChain(Chain)
    /\ start = Chain /\ now = MaxLockHeight
    /\ \E kept \in SUBSET Txs : \E ts \in [kept -> {0, 1}] :
          rows = [t \in kept |-> [height |-> HeightIn(Chain, t), timestamp |-> ts[t]]]
    /\ RowsAgree(rows, Chain)
    /\ height = LoadedHeight(rows) /\ timestamp = LoadedTimestamp(rows)
    /\ \E order \in SetToSeqs(DOMAIN rows) : transactions = LoadedList(order, height)
    /\ blockHeight = 0 /\ allTx = DOMAIN rows /\ chainLen = LoadedLen(rows)
    /\ ledger = UpdateBalance(transactions, height, WalletAddrs(chainLen), 0, now)
    /\ queue = <<>> /\ removing = <<>> /\ alive = TRUE

\* one session: from such a start, until the application ends or rescans
SpecSession == InitSession /\ [][Running]_vars

(***************************************************************************)
(* Properties.                                                             *)
(***************************************************************************)
Counted == Listed \ (ledger.invalidTx \cup ledger.pendingTx)

Heights == 0 .. MaxHeight \cup {Unconfirmed}
Row == [height : Heights, timestamp : {0, 1}]
ChainSet == [tip : 0 .. MaxHeight, mined : [Txs -> 0 .. MaxHeight]]
Changes == [op : {"added", "deleted"}, txs : SUBSET Txs]
           \cup [op : {"updated"}, txs : SUBSET Txs, height : Heights, timestamp : {0, 1}]
           \cup [op : {"blocks"}, chain : ChainSet]

\* Every variable has the type BRWallet.c gives it.
TypeOK ==
    /\ height \in [Txs -> Heights] /\ timestamp \in [Txs -> {0, 1}] /\ blockHeight \in Heights
    /\ transactions \in Seq(Txs) /\ removing \in Seq(Txs) /\ allTx \subseteq Txs
    /\ chainLen \in [Chains -> Nat]
    /\ DOMAIN ledger = DOMAIN EmptyLedger
    /\ queue \in Seq(Changes)
    /\ DOMAIN rows \subseteq Txs /\ \A t \in DOMAIN rows : rows[t] \in Row
    /\ start \in ChainSet /\ Chain \in ChainSet
    /\ alive \in BOOLEAN /\ now \in MaxLockHeight .. MaxTime

\* wallet->transactions is sorted by block height, unconfirmed ones last: the loops of
\* BRWalletTxUnconfirmedBefore, BRWalletSetTxUnconfirmedAfter and BRWalletRemoveTransaction
\* stop at the first transaction that is too old.
SortedByHeight ==
    \A i, j \in DOMAIN transactions : i <= j => height[transactions[i]] <= height[transactions[j]]

\* wallet->transactions holds each transaction once and never one that has been freed
\* (BRWalletUpdateTransactions frees what it drops from allTx), and no output in the
\* utxo list points to a transaction that allTx cannot find.
NoDanglingTx ==
    /\ IsInjective(transactions)
    /\ Listed \subseteq allTx
    /\ {o[1] : o \in ledger.utxos} \subseteq allTx

\* When the database queue has been worked off, there is a row for exactly the listed transactions, with
\* their heights: also after stops that lost queued changes or left one half done, whatever was
\* registered, confirmed, reorganised and removed in between.
SavedMatchesListed ==
    queue = <<>> => DOMAIN rows = Listed /\ \A t \in Listed : rows[t].height = height[t]

\* A stop never loses a payment to the wallet's first addresses that is confirmed at or below the saved
\* blocks, which are not downloaded again: saveBlocks comes after the rows on the one queue.
ConfirmedSurvivesKill ==
    \A t \in Listed : start.mined[t] # 0 /\ AddrsOf(t) \cap FirstAddrs # {} => t \in DOMAIN rows

\* In a session that starts with rows that agree with the saved blocks, a listed transaction is confirmed
\* exactly at the height of its block in the chain the peer manager follows, through blocks and
\* reorganisations. (Not after a restart or rescan that goes back below confirmed transactions.)
HeightsFollowChain ==
    alive => \A t \in Listed : height[t] = HeightIn(Chain, t)

\* The numbers _BRWalletUpdateBalance accumulates agree: the balance is the value of the
\* utxos, and what was received less what was sent; balanceHist is aligned with the list,
\* which BRWalletBalanceAfterTx relies on.
LedgerAdds ==
    /\ ledger.balance = Total(ledger.utxos)
    /\ ledger.balance = ledger.totalReceived - ledger.totalSent
    /\ Len(ledger.balanceHist) = Len(transactions)

Conflicting(t, u) == t # u /\ Inputs[t] \cap Inputs[u] # {}

\* In such a session no two listed transactions that the wallet considers valid spend the same output,
\* whatever the order in which they were relayed, confirmed, reorganised or removed.
NoConflictIsValid ==
    \A t, u \in Listed \ ledger.invalidTx : ~ Conflicting(t, u)

\* Through restarts and rescans, where the rows may keep confirmations of an abandoned branch, this is left
\* of it: an unconfirmed transaction is never valid beside another valid one that spends the same output.
ConflictsAreConfirmed ==
    \A t, u \in Listed \ ledger.invalidTx : Conflicting(t, u) => height[t] # Unconfirmed

\* No utxo is spent by a transaction whose own outputs count in the balance.
UtxosNotSpentByCounted ==
    \A t \in Counted : Inputs[t] \cap ledger.utxos = {}

\* A confirmed transaction is never treated as invalid or pending: confirmation of one
\* that was recomputes the ledger.
ConfirmedIsCounted ==
    \A t \in Listed : height[t] # Unconfirmed => t \in Counted

\* When BRWalletRemoveTransaction returns in such a session, the transaction and all that depend on its
\* outputs are off the list, although the lock is released between the removals.
DependentsRemoved ==
    [][ RemoveStep /\ removing' = <<>> =>
          LET t == Last(removing) IN
          t \notin ToSet(transactions') /\ \A u \in ToSet(transactions') : t \notin ParentsOf(u) ]_vars

\* Through restarts and rescans, the transaction and the unconfirmed ones that depend on it are off the list
\* (one that kept a confirmation of an abandoned branch is above the part of the list that is searched).
UnconfirmedDependentsRemoved ==
    [][ RemoveStep /\ removing' = <<>> =>
          LET t == Last(removing) IN
          /\ t \notin ToSet(transactions')
          /\ \A u \in ToSet(transactions') : t \in ParentsOf(u) => height[u] # Unconfirmed ]_vars

\* A listed transaction that BRWalletTransactionIsVerified calls 0-conf safe counts in the
\* balance (for transactions without lock times, whose status no block can change).
VerifiedIsCounted ==
    \A t \in Listed : TransactionIsVerified(t) => t \in Counted

(***************************************************************************)
(* What comments of the code say, and the code does not do.                *)
(***************************************************************************)

\* CoreDatabase.txUpdated expects a row for every hash the wallet reports as updated.
UpdatedHaveRows ==
    queue # <<>> /\ Head(queue).op = "updated" => Head(queue).txs \subseteq DOMAIN rows
=============================================================================
