# TLA+ specification of the wallet core

This directory models the bitcoin core of the application in `src/`: an SPV
wallet written in C (`src/Modules/pluswallet-core/`) with a Swift application
around it (`src/pluswallet/src/`). Five modules model it: the wallet
(`BRWallet.c`), and three views of the peer manager (`BRPeerManager.c`): its
block chain, its connections with the transactions it publishes, and its bloom
filter. The fifth is the application's replicated key-value store. The rows that
`CoreDatabase.swift` keeps are part of the first two modules, the message handlers
of `BRPeer.c` part of the last two views. Paths below are relative to these two
directories.

## 1. Inventory

| Component | State | Operations | Modelled |
|---|---|---|---|
| Wallet, `BRWallet.c` | listed transactions in order, all known transactions, address chains, ledger (balance, utxos, spent outputs, invalid and pending transactions, used addresses), block height | register, update heights and timestamps, set unconfirmed after a height, remove, generate addresses, load; queries valid, pending, verified, balance after a transaction; coin selection, fees, signing | `BRWallet` (not coin selection, fees, signing) |
| Block chain of the peer manager, `BRPeerManager.c` 266-279, 718-799, 1087-1363, 1466-1508, 1683-1785 | blocks, orphans, checkpoints, last block, estimated height | relay a block (extend, verify, prune, keep as orphan, fork, reorganise), save, load, rescan | `BRPeerManagerChain` |
| Publishing and relay counting, `BRPeerManager.c` 72-134, 223-239, 450-543, 917-1085, 1365-1433, 1886-1953 | publish list with callbacks, peers that have or were asked for each transaction, synced flags | publish, transaction relayed, known, rejected, requested, peer gone, mempools compared | `BRPeerManagerPeers` |
| Connection and sync lifecycle, `BRPeerManager.c` 208-221, 545-618, 718-885, 1582-1681 | connected peers, download peer, failure count, sync start height | connect, disconnect, peer connected and gone, sync started and stopped, timeouts | `BRPeerManagerPeers` (not the list of addresses) |
| Bloom filter update, `BRPeerManager.c` 266-448, 718-799, 917-990, 1140-1260 | the filter, update flags, orphans, last orphan, estimated height | load, update in three pings, ignore blocks, request them again | `BRPeerManagerFilter` |
| Peer, `BRPeer.c` | handshake, message loop, pong callbacks, block being assembled from its transactions, known hashes, timeouts | one handler per message | in `BRPeerManagerPeers` (transactions, pings, timeouts) and `BRPeerManagerFilter` (blocks) |
| Database, `CoreDatabase.swift` | one serial queue; rows of transactions, blocks, peers | every change is a closure on the queue: add, update, delete, save blocks, load | with the two components |
| Merkle blocks, `BRMerkleBlock.c`; Bloom filter; `BRSet.h` | pure data structures | tree walk, difficulty, hashing, open addressing | no: see section 5 |
| Transactions, keys, addresses, encodings, payment protocol | bytes | serialise, sign, derive | no: cryptography and formats |
| Ethereum core, `ethereum/` | event queue, accounts, nonces, light node | announce, submit, handle events | no: see section 5 |
| Replicated key-value store, `BRReplicatedKVStore.swift` | local rows, remote objects, running sync | set, delete, sync one key, sync all, record a remote version | `BRReplicatedKVStore` |
| Wallet managers, sender | listeners | forward core callbacks | no: glue |
| PIN and biometrics, `WalletManager+Auth.swift` | failure count, lock-out time | authenticate, change PIN, wipe | no: see section 5 |
| Application state, user interface, platform services, JNI bindings, vendored libraries | | | no: presentation, I/O, third party |

How the modelled parts meet. Each connected peer has a thread; its messages call handlers of
the peer manager, which take `manager->lock` and call the wallet while they hold it. The
wallet has its own lock, which the user interface also takes. The wallet reports changed
transactions to the database through `txAdded`, `txUpdated` and `txDeleted`, the peer
manager blocks through `saveBlocks`, after each released its lock. The database does nothing
at once: all four leave a closure on its one serial queue (`CoreDatabase.swift` 33, 167,
227, 270, 284), which runs later, reads objects that belong to the wallet and the peer
manager, and is lost when the process stops. At the next start the rows become the arguments
of `BRWalletNew` and `BRPeerManagerNew`. The two are loaded independently: the heights of
transactions come from their rows, the last block from the rows of blocks, which are saved
seldom (`BRPeerManager.c` 1247-1252), and nobody compares them. The key-value store stands
apart: it has a database of its own and talks HTTP with a server that all devices of a user
share.

What is hard here:

* relayed transactions come in any order: the child before the parent, the
  double spend before or after what it conflicts with, and confirmed or
  reorganised in yet another order, while the ledger is rebuilt only in some
  of these cases;
* three loops of the wallet stop early because they rely on the list being
  sorted by height, which every operation has to maintain;
* a removal gives up the lock between the dependents it found and their
  removal; the application may end in between;
* what the wallet did and what the database holds differ until the queue has run; a stop
  loses what is queued, and an update may be half done;
* a restart and a rescan take the last block back below heights the transactions keep,
  and what follows may be another branch;
* relayed blocks free blocks (pruning while *verifying* a block that may then
  be rejected), while `lastBlock`, checkpoints, orphans and queued saves hold
  pointers;
* blocks of several peers interleave between the lock, the save and the orphan
  that is relayed next;
* a fork is compared by two walks in lockstep over a chain whose older part is
  gone;
* the rows of different saves are merged by the next start, which must find a
  difficulty transition to go on from;
* the thread of a peer that has been replaced or closed still runs handlers, fails
  its callbacks and reconnects, while other threads choose a new download peer;
* a sync ends, and a publish callback is called, only through chains of
  messages, callbacks and timeouts of peers any of which may be lost;
* the filter a remote node matches a block with, the filter of the manager and the
  addresses of the wallet differ while an update is in flight;
* the application writes a key while a sync of it is in flight, uploads succeed whose
  answer is lost, and three clocks decide who wins.

`PROJECT.json` lists these hazards at their lines with the properties for them.

What makes each component correct. Wallet: the list is sorted and ends up in the database,
a stop loses no payment that saved blocks confirm, the ledger adds up, what is confirmed
counts, an unconfirmed conflict or dependent never stays; and while the last block is not
taken back, heights are those of the followed chain, no conflict counts twice and a removal
leaves no dependents at all. Chain: the last block exists and is the highest verified
one, transactions have the heights of exactly the chain that is followed, the
next transition can always be verified, saves can be loaded. Connections: no
handler follows a pointer to a peer that has gone, a started sync ends, a publish
callback is called. Filter: no payment of a block that was taken is missed, a
sync completes however often the filter is replaced. Key-value store: a row that
says it is equal to the server's object is, and syncs end.

## 2. Modules

### BRWallet

`BRWallet.tla` is `BRWallet.c` with the transaction rows of `CoreDatabase` and its queue.
A transaction is a constant with its inputs (outpoints) and outputs (address,
amount). The variables are the fields of the C structure: `transactions`
(ordered), `allTx`, `blockHeight`, `chainLen` (the two address arrays), and
`ledger`, a record of everything `_BRWalletUpdateBalance` rebuilds; `height`
and `timestamp` are fields of the transaction objects; `removing` is the stack of nested
`BRWalletRemoveTransaction` calls. `queue` is the serial queue of the database, `rows` its
transaction rows. `tip`, `mined`, `start` and `now` are the environment: the chain the peer
manager follows, the part of it that its saved blocks give back to a restart, and the clock.

| Action | Code |
|---|---|
| `RegisterTransaction` | `BRWalletRegisterTransaction`: the three outcomes for a wallet transaction, one of strangers, a known one; sort, ledger, gap limit and the queued row included |
| `BlockConfirms`, `RelayCountChanges` | `BRWalletUpdateTransactions` as called for a block and for a change of the relay count |
| `SetTxUnconfirmedAfter` | `BRWalletSetTxUnconfirmedAfter` |
| `RemoveTransaction`, `RemoveStep` | `BRWalletRemoveTransaction`; a step per locked section |
| `GenerateAddrs` | `BRWalletUnusedAddrs` from the user interface (also inside a removal) and for a bloom filter |
| `SaveBlocks` | `manager->saveBlocks` hands blocks over: a restart is to continue from the present tip |
| `WriteAdded`, `WriteUpdated`, `WriteDeleted`, `WriteBlocks` | the closure at the head of the queue runs. `txAdded` reads the transaction object now; `txUpdated` calls `exit(0)` when a hash has no row |
| `Restart` | the process stops anywhere: the queue is lost, the update that was running has done any part of its rows (`RowsLeft`; the other closures are one statement or transaction of SQLite); then `BRWalletNew` with the rows in any order, and `BRPeerManagerNew` with the saved blocks |
| `Rescan` | `_BRPeerManagerRescan`: the followed chain is cut, the wallet is not told |
| `Tick` | the clock passes |

`InsertTx` is the insertion sort with the code's comparison (height, then
dependency through known parents, then position on an address chain);
`UpdateBalance` is one pass over the list, a `CountTx` per transaction, which is left out as
invalid (`CountInvalid`) or pending (`CountPending`) or counts (`CountValid`). The loops of
`BRWalletUpdateTransactions`, of the search for dependents and of loading are recursive
functions of the number of elements handled (`UpdateAll`, `Dependents`, `LoadedList`).
`CanBeMined` is the network's promise: no block holds a double spend, parents
come first, and, as a peer sends the matching transactions before the block,
wallet transactions are registered before they are confirmed.

A restart and a rescan take the followed chain back and leave the heights of the wallet;
what is mined next may be the same branch or another one. Three specifications differ
in what they take in:

* `Spec`: everything.
* `SpecRecognized`: a restart happens only when `_BRWalletContainsTx` recognises every row
  with the addresses that are generated for them (`RowsRecognized`), which `BRWalletNew`
  verifies of the first row only.
* `SpecSession`: one session of the application, without rescans. It starts with any rows
  that agree with the saved blocks (`RowsAgree`): every transaction of the wallet in these
  blocks has a row with its height, the others are unconfirmed, and all are recognised. The
  first start of a new wallet is one (no rows, no blocks), and so is a start after a session
  that saved its blocks when the download was complete and then stopped with an empty queue.
  It ends with the process, also when `txUpdated` calls `exit(0)`.

### BRPeerManagerChain and FollowedChain

`BRPeerManagerChain.tla` is the chain part of the peer manager. A block stands
for its hash; `Prev`, `Height` and `Ancestors` are constants over the blocks
that exist, which may form any tree. `blocks` and `orphans` are the two hash
sets (orphans indexed by `prevBlock`, so a second orphan replaces the first),
`stubs` the checkpoints that have no `prevBlock` yet, where every walk ends.
`calls[p]` is what the thread of peer p still has to do after it unlocked:
blocks to save, then the orphan to relay next. `saves` is the database's queue
of saves, with the objects that have been freed in the meantime; `saved` the
rows. `running` turns FALSE where the code dereferences NULL.

`PeerRelayedBlock` is `_peerRelayedBlock` as one step under the lock, a
disjunct per branch: `RelayedIgnored`, `RelayedOrphan`, `RelayedInvalid`,
`RelayedNext`, `RelayedExisting`, `RelayedEarly` (the special case for a block
mined during a rescan), `RelayedOldFork`, `RelayedFork`, `RelayedReorganizes`.
Each includes the verification that comes first, with the pruning it does
(`Verified`, `Pruned`). `SaveCallback`, `RelayNext` and `WriteBlocks` are what
happens after the unlock; `LoadBloomFilter` and `DownloadPeer` clear the
orphans and set the estimated height; `Rescan` is the three rescan functions;
`Restart` is `BRPeerManagerNew` with whatever rows there are, for every way
its index by `prevBlock` may resolve rows with the same parent.

`FollowedChain.tla` is the promise to the wallet in six lines: there is a best
block, it changes only to a higher one, and every transaction has the height of
its block in the chain below the best block, or none. `FollowsChain` states
that `BRPeerManagerChain` implements it, with `lastBlock` and `txHeight` as the
refinement mapping. It does so under four hypotheses about the network and the wallet,
`Environment`: `SyncedPeers` (no peer reported a height below the last checkpoint),
`ShortForks` (a fork that gets higher left the other branch at most an interval before),
`NewWallet` (nothing of the wallet is below the checkpoint the download starts from) and
`ConfirmedOnce` (a chain has a transaction in one block). They are constant formulas;
`MCBRPeerManagerChain` assumes them, so that TLC evaluates them for every tree it uses.
`Recent(b)` is the part of the tree where nothing but the code is needed.

### BRPeerManagerPeers

`BRPeerManagerPeers.tla` is the connections of the peer manager. `ctx[a]` is the
`BRPeerContext` of the peer at address a, with `queue`, what was sent to the peer and not
answered (messages and the callbacks that wait for a pong, in the order of
sending). The manager's fields have their names, with `failures`, `syncing` and
`estimated` for `connectFailureCount`, `syncStartHeight > 0` and `estimatedHeight`;
`callbacks` are the entries of the publish list whose callback has not been
called. `reconnects` and `connecting` count threads between two locked sections,
`app` is the thread of the application. Blocks are only counted.

| Action | Code |
|---|---|
| `Connect`, `Reconnect`, `ConnectFill` | `BRPeerManagerConnect` from the application, from the thread of a lost peer; a step per locked section |
| `PeerConnected` | `_peerConnected`: unsuitable, next to a download peer, or choosing one; with the filter, pending transactions, mempools |
| `Closed`, `Timeout`, `Breaks` | the thread of `BRPeer.c` leaves its loop |
| `PongFails`, `PeerDisconnected` | the end of the thread: failed callbacks one by one, then `_peerDisconnected` |
| `AnswerPing` | `_BRPeerAcceptPongMessage` with `_publishTxInvDone`, `_requestUnrelayedTxGetdataDone`, `_loadBloomFilterDone`, `_mempoolDone` |
| `AnswerInv`, `AnswerGetdata`, `AnswerMempool`, `Spread`, `Reject` | `_peerRequestedTx`, `_peerRelayedTx` and `_peerDataNotfound`, inv with `_peerHasTx`, `_peerRejectedTx` |
| `MempoolTimer` | the mempool timeout of the message loop |
| `RelayedBlock` | the effect of `_peerRelayedBlock` on timeouts, failure count and mempools |
| `PublishTx`, `PublishContinues` | `BRPeerManagerPublishTx`, in two steps without a connection |
| `DisconnectAll`, `DisconnectReturns` | `BRPeerManagerDisconnect` and its wait |

### BRPeerManagerFilter

`BRPeerManagerFilter.tla` composes the filter of the manager with the block
messages of `BRPeer.c` and a remote node. The wallet makes its addresses in order,
so a filter is the number of addresses it covers (0 is NULL) and a transaction is
the address it pays. `ctx[p]` has the flags and lists of the peer, `out` and `in`, the
messages on their way, and `remote`, the filter the node at p has. A block is its
height on one chain.

| Action | Code |
|---|---|
| `PeerConnected`, `Closed`, `SyncTimeout`, `Breaks` | `_peerConnected` and `_peerDisconnected`, as far as filter and download peer go |
| `AcceptInv` | `_BRPeerAcceptInvMessage` for blocks: known hashes, requests, the repeated single hash |
| `AcceptMerkleblock`, `AcceptTx` | a block and its transactions; `_peerRelayedTx` with the check of the gap limit and `_BRPeerManagerUpdateFilter` |
| `AcceptPong` | `_updateFilterPingDone`, `_updateFilterLoadDone`, `_updateFilterRerequestDone` |
| `RelayedBlock` | `_peerRelayedBlock`: degraded filter, ignored, orphan, accepted |
| `Serve`, `Mine` | external: the remote node answers in order; a block is mined and announced |

`FilterAssumption` says that payments keep to the gap limit: an address is paid only when
it is one of the next `Gap` ones after an address paid before.

### BRReplicatedKVStore

`BRReplicatedKVStore.tla` is several devices and their server. `local[d][k]` is the newest
row of a key, `server[k]` the object, both with version, time, deletion and the
number of the application's write that is stored. `task[d][k]` is a sync of one key
between two of its steps, `mode[d]` what set `syncRunning`, `late` the requests that were
given up and may still arrive.

| Action | Code |
|---|---|
| `Set`, `Del` | `set`, `del` |
| `SyncAllKeys`, `KeysAnswered`, `FinishAll` | `syncAllKeys` with its handlers |
| `SyncKey` | `syncKey` |
| `StartKey`, `Remove`, `UploadAnswered`, `GetAnswered`, `Record` | `_syncKey` with every branch and handler, `setRemoteVersion` |
| `ServeVer`, `ServeKeys`, `ServeUpload`, `ServeGet`, `ServeLate` | external: the server, from how `BRAPIClient+KV.swift` uses it |
| `Timeout`, `TimeoutKeys`, `Crash`, `Tick` | requests that fail, a kill, the clock |

The `MC` modules define the scenarios: the transactions, block trees, payments
and reported heights the configurations use. Definitions whose comment starts
with "mutated" are plausible bugs of the definition after them; they are used
by no specification and serve to show that the properties can fail.

## 3. Runs

Deadlock is checked in the runs of `BRWallet` under `Spec` and in those of
`BRPeerManagerChain`; the other systems may rest, when everything has been sent and answered,
the bounds on faults and writes are used up, or the session has ended.

### Fairness

Safety runs assume none. The liveness properties assume:

* `PeersSync`: one weak fairness condition over all steps of threads (also
  the two halves of connecting and publishing) and all answers of connected peers.
  It says that the processor and the network do not rest while there is something to do,
  which operating system scheduling gives; it is weaker than fairness to every thread. A
  peer that does not answer is a `Breaks` (with error timeout when a timer runs), which
  needs no fairness and is bounded. The application is under no obligation.
* `FilterSync`, `FilterPeers`: weak fairness for every peer's handlers, for its
  node's answers, and for connecting, as the manager reconnects after every loss
  below its failure limit; the sync timeout of `BRPeer.c` runs out when nothing
  comes any more.
* `KVStore`: weak fairness of the sync of each device: every HTTP request is answered
  or fails, and its handler runs.

### What holds

| Run | Scenario | What it shows |
|---|---|---|
| `WalletConflict` (`Spec`) | a payment `pay`, a `spend` of it, a replaceable `rival` of the spend; blocks of up to two transactions, height 1, stops and rescans at any point; 197,000 states | when the queue is empty the rows are those of the list, whatever a stop lost or left half done (`SavedMatchesListed`); the ledger adds up (`LedgerAdds`, `UtxosNotSpentByCounted`), what is confirmed counts (`ConfirmedIsCounted`), what is called 0-conf safe counts (`VerifiedIsCounted`), also with confirmations of an abandoned branch. Of two valid transactions that spend the same output both are confirmed (`ConflictsAreConfirmed`); a removal takes the unconfirmed dependents (`UnconfirmedDependentsRemoved`); no pointer to a freed transaction, and no transaction twice (`NoDanglingTx`) |
| `WalletFamily` (`SpecSession`) | the same kind of payment, a child with a height lock, a payment that conflicts with the first; every start whose rows agree with the saved blocks, heights to 2; 479,000 states | in a session listed heights follow the chain through reorganisations (`HeightsFollowChain`), two transactions that spend the same output are never both valid (`NoConflictIsValid`), the list is sorted (`SortedByHeight`), and a removal takes all dependents (`DependentsRemoved`) |
| `WalletOther` (`SpecSession`) | a payment with a time lock that spends a transaction of strangers, up to three changes in the queue; 278,000 states | saved blocks never confirm a payment whose row a stop at this moment would lose (`ConfirmedSurvivesKill`); rows end up as the list with several changes in flight (`SavedMatchesListed`); nothing dangles when the transaction of strangers is freed (`NoDanglingTx`) |
| `ChainFork` | sync through a checkpoint, with a fork that passes a transition first, a fork below the checkpoint, a block that contradicts the checkpoint and one with a wrong target; two peers with different reported heights | `BRPeerManagerChain` implements `FollowedChain` (`FollowsChain`); saved pieces can be loaded (`SavesReload`); orphans wait only for a missing parent (`OrphansWait`) |
| `ChainRestart` | an interval of three blocks, a chain past the transition at 3 and a fork that is first at 6; one peer, a restart at any point | the last block exists and is the best (`LastBlockIsBest`), and the next difficulty transition can be verified (`NextTransitionVerifiable`), although saves may be lost and rows of different saves meet; no checkpoint is freed (`CheckpointsKept`); no recent block makes the walks meet NULL (`RecentBlocksHandled`) |
| `PeersSync` | two peers, one a block ahead; a transaction is published while peers connect, break, time out and are replaced, and the application disconnects and connects again | the download peer is one the manager has, and `isConnected` agrees (`DownloadPeerLives`); a peer that has gone does not count as relaying, although its callbacks fail on its way out (`RelaysAreConnected`); a publish callback is called (`PublishAnswered`) and a sync stops (`SyncEnds`) unless the manager is short of peers and has stopped looking for more |
| `FilterSync` | three blocks whose payments use up the filter twice, with a degraded filter, a lost peer and a block mined meanwhile; a fixed peer or up to two | with a fixed peer nothing that a taken block pays is missed (`NothingMissed`); a sync completes (`SyncCompletes`) |
| `KVStore` | two devices write and delete a key while syncs of one or all keys run, requests time out and arrive late, the application is killed, data cannot be decrypted | a row that records the server's version shows what the server has (`RecordedIsEqual`); a sync ends (`SyncEnds`) |

### Disagreements between code and comments

Four runs end in a counterexample: the property is what a comment or an
assertion says, the model does what the code does.

* `WalletRows`: a removed transaction stays in `allTx` but has no row; when a
  block confirms it, the update is queued with its hash, `CoreDatabase` finds fewer rows
  than hashes and ends the process (`UpdatedHaveRows`).
* `ChainRescan`: one chain over three transitions and a rescan at any point while blocks keep
  coming. A block mined meanwhile is to be kept "as orphan til we're caught up"
  (BRPeerManager.c:1278), but it is verified first; if it is a transition block the
  verification frees what lies more than an interval below it, which can be
  `manager->lastBlock`, now inside the old chain (1113). No further block finds its parent
  (`RescanContinues`).
* `FilterPeers`: blocks are ignored while `manager->bloomFilter` is NULL
  ("ingore potentially incomplete blocks when a filter update is pending",
  BRPeerManager.c:1192). There is one such object and one filter per remote node. While an
  update waits for the old download peer, a peer with a higher block connects, becomes
  download peer and sets the object; a block the old one had sent, matched with its
  old filter, is then accepted, and its payment never comes (`IncompleteComes`). With a
  fixed peer this cannot happen (`NothingMissed`).
* `KVWrites`: a value is written while the upload of the one before is in flight; the
  server stamps the upload later than the write, so the next sync takes the remote
  object for newer and puts the older write back, on one device (`LastWriteWins`
  against "this is a basic last-write-wins strategy", BRReplicatedKVStore.swift:559).

More follow from the same models and are not kept as runs. In these the property
one would state is false for the code.

Wallet:
* a restart continues from the saved blocks (BRPeerManager.c:1247-1252, 1491-1508) and a rescan
  from a checkpoint or an older block (1683-1698) with the heights that rows and list have, and
  `BRWalletSetTxUnconfirmedAfter` is not called. If another branch is downloaded from there,
  it only extends `lastBlock`: transactions of abandoned blocks stay confirmed
  (`HeightsFollowChain` is false), one of them and the conflicting one of the new
  branch are both confirmed and both valid, as the ledger looks for conflicts of unconfirmed ones
  only (BRWallet.c:171; `NoConflictIsValid` is false), and a removal stops its search below a
  dependent that is still confirmed (769; `DependentsRemoved` is false). TLC finds each of the
  three under `Spec`. `ConflictsAreConfirmed` and `UnconfirmedDependentsRemoved` are what is left;
* a stop loses the changes in the database queue (CoreDatabase.swift:167, 227, 270): an
  added transaction is forgotten, a removed one comes back, old heights stay or stay in
  part. While changes are queued, rows and list differ; what holds is that blocks are not saved
  before the rows they confirm, and that rows and list agree again once the queue is empty;
* a confirmation moves a transaction in the list and `balanceHist` keeps the old order, so
  `BRWalletBalanceAfterTx` reads another position (BRWallet.c:953 against the comment at 1063);
* marking a transaction unconfirmed passes `TX_UNCONFIRMED` as a height and raises
  `wallet->blockHeight` to it; no height lock counts as pending after that
  (BRWallet.c:941 against 869);
* registering a removed transaction again returns true without listing it (723);
* a child listed before its invalid parent counts in the balance, and the inputs of a
  pending transaction stay in the utxo list (207, 232);
* generating addresses extends `allAddrs` without a new ledger (360), and a
  reorganisation saves timestamp 0 while the transaction keeps its own (992);
* a restart generates the addresses of the rows that are left, which may be fewer than before
  (a removed transaction used one, or a bloom filter asked for more). A listed
  transaction that only they relate to the wallet is then not recognised by
  `_BRWalletContainsTx`, and its confirmation frees it while it is listed (962). The
  scenarios of the runs keep all addresses within the gap limit.

Chain (BRPeerManager.c):
* between the unlock and the write of the database a second relay of a block replaces and
  frees the object that is queued (1355); the same relay frees a checkpoint object
  `manager->checkpoints` still points to (1272);
* a rescan can jump over blocks when a peer that reported a lower height relays a new
  block (1275); a restart may continue from a transition block that was reorganised
  away (1247), and one that relays a block below the loaded chain meets NULL (1262);
* a peer that reported a height below a checkpoint can relay the child of that
  checkpoint, and the walks of the reorganisation end in NULL (1295): `SyncedPeers`;
* the walks of a fork that left the main chain more than an interval before its top need not
  meet either (1295): `ShortForks`; a block from before the last but one transition, on
  the main chain or on a fork, that is relayed again meets NULL (1260);
* a second orphan with the same parent replaces the first, which is leaked (1222);
  `OrphansWait` is about the orphans in the set and does not see this one go;
* a rescan with a peer that reported a low height can reorganise to a block of the old chain
  and take confirmations back that the new pass does not give again (1275).

Connections (BRPeerManager.c):
* `BRPeerManagerDisconnect` sets the failure count to "prevent futher automatic
  reconnect attempts" (1666); a thread that was already told to reconnect takes the
  count for a manual retry (1586) and connects again;
* when connecting finds no addresses, publish callbacks stay uncalled (1650), and so does
  one that is stored after the last failure, as publishing gives the lock up (1910);
  this is what `GaveUp` excludes from the liveness properties, together with a download
  peer that is lost when there are no other addresses: the sync flag stays on. So
  `SyncEnds` and `PublishAnswered` say nothing of these states;
* the failure count is compared with `==` (847); with the download peer connected it
  passes the maximum, and a transaction only sent to a dying peer is not sent again. These
  states are among those of `GaveUp`, too;
* a transaction that another peer announced and has not sent yet can be removed as
  unrelayed, and as the wallet still knows it, it is not listed again (487);
  `txRequests` is not cleaned when a peer goes (833), which hides others from removal;
* publishing a transaction twice loses the second callback (228); a cancelled
  transaction stays in the publish list (862);
* `BRPeerManagerDisconnect` waits for peers that wait for the network (1674).

Filter (BRPeerManager.c unless named):
* when the download peer has gone, `_updateFilterLoadDone` follows a NULL pointer (385); the
  model has no next state there;
* the callbacks carry a pointer to a peer that may have been freed (402): the model takes
  the peer that has connected again at that address for it;
* an inv with the single hash announced before is dropped although the block was ignored
  (BRPeer.c:352): during a sync the sync timeout helps, after it only the next block;
* loading filters on other peers drops the orphan that waits for the block (1251). As the
  chain has then reached the estimate, `SyncCompletes` asks for nothing more and does not
  see it.

Key-value store (BRReplicatedKVStore.swift):
* recording a remote version stamps the row with the present time (384-404): an old value
  becomes newer than what another device uploaded, and is put back over it;
* an object is created with version 1 (634), the documented protocol says zero (55):
  the second of two creators overwrites the first unseen;
* data that cannot be decrypted deletes the row, and the next sync the remote object (682);
* `try?` at 549 drops an error without calling the handler: `syncRunning` stays on;
* a view model caches a version that a sync raises (ViewModels/Transaction.swift:142): its
  next save is a conflict, which is only printed.

### Bounds

* Wallet: three transactions are enough for every relation the code tells apart
  (parent, conflict, dependent, stranger). Heights up to 2 allow two blocks, the
  reorganisation of either or both, and a lock beyond both; with restarts and rescans a
  height of 1 has both branches already. `MaxWrites = 1` makes the wallet wait for one
  queued change, which a stop can lose; `WalletOther` has three, so that a save of blocks waits
  behind two rows, and `SavedMatchesCorrect` is for any number. A save that is queued later than
  the chain it names has moved on is the same as one before it with the rows in between
  written. `Unconfirmed = 99`
  and `MaxLockHeight = 50` keep the order of the code's constants. Gap limits of
  2 instead of 10 and 5 let a used address extend a chain. `MaxBlock = 2` puts a
  parent and its child in one block. `MaxTime` lets the time lock end where there
  is one.
* Chain: intervals of two and three blocks instead of 2016 put pruning, a fork across a
  transition and the boundary cases of a save into trees of five to nine blocks. Pruning,
  verification and saving only depend on heights relative to transitions: on one,
  before one, after one, which `D = 3` keeps apart. `MaxSaves = 1` is one save waiting in the
  queue; a second one waits in `calls`, which keeps its order free. Two peers are
  the two threads a race needs; `ChainRestart` and `ChainRescan` have one, as restarts
  and rescans add the other party. `StartCheckpoint` is the oldest checkpoint, so
  that sync has to pass the other one where there is one.
* The heights peers report (`PeerLastBlock`) are chosen at, below and above the
  heights where `estimatedHeight` and the special case of a rescan matter, and none is
  below a checkpoint (`SyncedPeers`). All theorems but `FollowsChainCorrect` hold for all
  reported heights.
* Connections: two peers are the least with a download peer and another one, and one
  peer is a block ahead so that it replaces the other as download peer. `MaxFail = 2`
  instead of 20 is reached within a run. One fault (a break, a refused peer, an empty
  lookup, a rejection or a call of disconnect) on top of the timeouts, which are not
  bounded, keeps the run within 623,000 states. One transaction without parents: parents only
  add to the list that is published.
* Filter: the payments `<<{2}, {3, 4}, {5}>>` with `Gap = 2` and `Spare = 1` make the first and
  the second block need an update each; `Batch = 2` lets one inv be full and the next be
  short. Block 3 is mined during the sync, so a later peer is higher. One break, one
  degraded filter.
* Key-value store: two devices, one key (keys do not meet except in `FinishAll`), a clock of
  three ticks with two ticks in a second, so that times are equal, rounded and
  different; two writes and three syncs let a write fall into a sync and another sync
  meet the outcome; one fault.

## 4. Proofs

The theorems hold for every value of the constants that meets the named assumptions of
the modules, which TLC evaluates in every run. Each rests on an inductive invariant that TLC
checked on the runs before it was proved.

| Module | Theorem | Statement |
|---|---|---|
| `BRWalletProofs` | `WalletTypeCorrect`, `ConfirmedIsCountedCorrect`, `UtxosNotSpentCorrect` | `Spec => []TypeOK`, `[]ConfirmedIsCounted`, `[]UtxosNotSpentByCounted` |
| | `SortedCorrect`, `NoDanglingCorrect`, `SavedMatchesCorrect` | `SpecRecognized => []SortedByHeight`, `[]NoDanglingTx`, `[]SavedMatchesListed` |
| | `LedgerAddsCorrect`, `ConflictsAreConfirmedCorrect` | `SpecRecognized => []LedgerAdds`, `[]ConflictsAreConfirmed` |
| | `UnconfirmedDependentsRemovedCorrect` | `SpecRecognized => UnconfirmedDependentsRemoved`, an action property |
| | `VerifiedIsCountedCorrect` | without lock times, `SpecRecognized => []VerifiedIsCounted` |
| | `HeightsFollowCorrect`, `NoConflictCorrect`, `SessionListCorrect` | `SpecSession => []HeightsFollowChain`, `[]NoConflictIsValid`, `[](SortedByHeight /\ NoDanglingTx)` |
| | `DependentsRemovedCorrect` | `SpecSession => DependentsRemoved`, an action property |
| `BRPeerManagerChainProofs` | `TypeCorrect`, `LastBlockCorrect` | `SpecRestart => []TypeOK`, `SpecRestart => []LastBlockIsBest` |
| | `CheckpointsCorrect` | `CheckpointsKept` through blocks, restarts and rescans together |
| `BRPeerManagerOrphansProofs` | `OrphansWaitCorrect` | `Spec => []OrphansWait` |
| `BRPeerManagerIntervalProofs` | `NextTransitionCorrect`, `SavesReloadCorrect` | `SpecRestart => []NextTransitionVerifiable`, `SpecRestart => []SavesReload` |
| | `RecentBlocksCorrect` | `SpecRestart => RecentBlocksHandled`, an action property |
| | `FollowsChainCorrect` | `Environment` implies `Spec => FollowsChain`: the refinement of `FollowedChain` |
| `BRPeerManagerPeersProofs` | `PeersTypeCorrect`, `DownloadPeerCorrect`, `RelaysCorrect` | `Spec => []TypeOK`, `[]DownloadPeerLives`, `[]RelaysAreConnected` |
| `BRPeerManagerFilterProofs` | `FilterTypeCorrect`, `NothingMissedCorrect` | `Spec => []TypeOK`, `[]NothingMissed` |
| `BRReplicatedKVStoreProofs` | `StoreTypeCorrect`, `RecordedIsEqualCorrect` | `Spec => []TypeOK`, `[]RecordedIsEqual` |

`InductionLemmas` has what several of them need of the naturals and of finite sets. The
library's induction theorems have an operator as a parameter, which the installed provers
cannot instantiate; `SetInduction` says the same of a set, which they can.

### The wallet

Whatever is loaded, the ledger fits the list (`Inv`): what it leaves out is listed and
unconfirmed, no utxo is spent by what it counts, and `balanceHist` has an entry per
transaction. The delicate step is `BRWalletUpdateTransactions`, which changes heights and
computes the ledger anew only if one of the changed transactions was left out (`FitsStill`).
The pass itself is an induction over its steps (`CountFits`, `UpdateFits`).

Whatever chain follows a restart or rescan, four parts hold each other up as long as restarts
recognise every row (`WalletInv`):

* `ListOK`: the list has each transaction once, sorted, all of them known and recognised by
  `_BRWalletContainsTx`, and so is every transaction that has a height, so that none comes back
  with one when it is registered. Sorting depends on the comparison: `InsertKeeps`
  rests on `AscendingHeights`, that a transaction which belongs after another is not lower.
  Recognised is needed as `BRWalletUpdateTransactions` frees what is not; freeing one
  transaction leaves the others recognised, as it pays no address of the wallet
  (`ContainsSame`).
* `QueueOK`: the queue, run to its end, leaves the rows of the list with their heights: of
  each transaction the last change that is queued says so, or its row if there is none. The
  closure of `txAdded` takes the height the object has when it runs, not when it was queued.
  A stop drops the queue, and the list that is loaded is the rows that are left.
* `RemovingOK`: what is being removed is unconfirmed. Blocks wait for the end of a removal
  as both hold the lock of the peer manager. The search for dependents, which stops at the first
  confirmed transaction, sees all unconfirmed ones (`DependentsAre`).
* `LedgerOK`: the sums, and that an unconfirmed valid transaction conflicts with no valid one. The
  pass finds a conflict between an unconfirmed transaction and what came before it; confirmed
  ones come first, as the list is sorted (`CountValidates`).

In one session (`SpecSession`) three more parts follow the chain (`SessionInv`):

* `ChainOK`: the chain holds no conflict and no child below its parent.
* `Follows`: listed transactions have the heights of the chain. A reorganisation has to
  pass exactly what the chain loses, which it finds as the end of the sorted list (`PassedAre`).
* `RemovingMined`: what is being removed is in no block; a dependent that the search would miss
  is confirmed, and then its parent is too.

A restart breaks the second, and with it the claims about sessions; `WalletInv` it restores.

Sums over sets of outputs are sums of a fold; `TotalFunction` and `TotalAdds` derive what the
pass needs from the definition of the fold.

A restart that does not recognise a row breaks `ListOK`, and then `NoDanglingTx` is false: the
confirmation of that transaction frees it while it is listed (section 3). That is why no more than
`Inv` is proved of `Spec`.

`VerifiedIsCounted` needs that everything the ledger holds for pending is still found by
`BRWalletTransactionIsPending`, which asks anew and from the children up: without lock times
a pending transaction is replaceable or has a pending parent, and so on (`Derived`,
`PendingFound`). The three recursive queries are functions that satisfy their equations, as
`LeastClosure` gives one.

### The last block and the checkpoints

`LastBlockIsBest` is not inductive by itself: a relayed block
frees blocks while it is verified, and one has to know that `lastBlock` is not
among them. `Pruned(b)` holds only blocks that are no transitions and lie more
than `D` below the transition `b`. The parent of `b` is in `blocks`. Either it is no
checkpoint; then it is at most as high as `lastBlock`, so `b` is at most one higher and
`lastBlock` is too high to be freed (lemma `LastBlockSurvives`). Or it is a
checkpoint; then it is a transition block, and `b`, one above it, is none, as
transitions are `D >= 2` apart (lemma `TransitionsApart`), and nothing is freed.
The second case needs that checkpoints are transitions and blocks keep their
types, hence the inductive invariant `Safe == TypeOK /\ CheckpointsKept /\
LastBlockIsBest`. That checkpoints are kept follows as they are transitions and
`Pruned` has none (`CheckpointsSurvive`). A restart
builds `blocks` from the checkpoints and a chain of rows whose highest block
becomes `lastBlock`, or is empty (`RestartSafe`). A rescan sets `lastBlock` to a
lower block and breaks `LastBlockIsBest` on purpose, so the third theorem uses
the first two parts of the invariant only.

### Orphans

A block above `lastBlock + 1` whose parent is known
follows a checkpoint that lies ahead (`ParentIsCheckpoint`), and two things have
to be known about these checkpoints: they are still bare (`AheadAreStubs`), so
that a walk back from their child ends there (`WalkEndsAtStub`) and a
reorganisation to it cannot leave orphans behind, as the two walks do not meet
and the code does not get through (`NoJumpOverCheckpoints`); and they stay bare, because
below the most recent checkpoint no fork block is as high as `lastBlock`
(`OneBranchBelow`). The inductive invariant is `SafeFresh == Safe /\ (running =>
OneBranchBelow /\ AheadAreStubs /\ Waits)`, where `Waits` is `OrphansWait` without its
condition. That ancestors are lower than their descendants, for every block tree,
is proved by a least counterexample (`AncestorsBelow`). Restarts are not part of
this theorem: `BRPeerManagerNew` makes orphans of rows it does not connect.

### The blocks since the last transition

One would like to say that the parent of every block is in `blocks`. That is false: a fork stays
when the blocks it grew from are freed. It holds above the last transition at or below
`lastBlock` (`Joined`), and there it is inductive with `Safe` and `SavesReload`
(`SafeJoined`): a verified block is at most one above `lastBlock`, so that what it frees is
below that transition, and a restart connects the rows of a save, which start at a
transition. `NextTransitionVerifiable` is the walk along `Joined` down to the transition;
`RecentBlocksHandled` follows as both walks of a recent block stay above it;
`SavesReload` is part of the invariant because a restart depends on what was saved.

### The refinement

A step that changes `lastBlock` must be a step of `FollowedChain`. When a block extends the
chain its transactions get its height, and others keep theirs. When a fork becomes
higher, the code walks both branches to the block where they meet, takes back what is above
it and confirms what the fork has. The result is right if the walks meet at the
highest common block and find every block above it. `SafeFollowing == SafeFresh /\
Following` has what this needs: no block above `Deep`, one interval below the last
transition, lacks its parent (`JoinedAbove`; a restart does not give that much, hence
`Spec`), all blocks descend from `StartCheckpoint` (`Rooted`), and the heights of the wallet
are those of the chain that ends in `lastBlock` (`Held`). `ShortForks` puts the common block
above `Deep` (`WalksMeet`); `SyncedPeers` excludes a child of a checkpoint ahead,
whose walk ends at once; `NewWallet` makes the initial heights right; `ConfirmedOnce` makes the
height of a transaction in a chain unique, which `FollowedChain` presupposes. Each hypothesis is
needed: section 3 lists what the code does without the first two.

### Connections

`TypeOK`, `DownloadPeerLives` and `RelaysAreConnected` are inductive together. Most handlers
leave the status of every peer alone, so most of the proof is about what the functions on
contexts keep (`Like`, `Alike`). The steps that matter change a status: a peer is added, its
handshake is done, its thread ends, it is reported as gone. The last one clears its relays
and, if it is the download peer, that pointer, in one locked section.

### The filter

With one peer at a time the messages between the manager and the node arrive in order, and the
invariant `Fixed` follows them. While the filter is set it covers the gap limit after everything
received, and every block in flight or kept as orphan was matched with it
(`FilterAgrees`). Behind the first ping of an update nothing is requested, so nothing matched
with the old filter is in flight when its pong comes (`InOrder`, `OutOrder`, `Crossing`), and
until the second pong no block comes at all (`SecondWaits`). A block that is accepted was
therefore matched with a filter that covers what was received, its own payments included
(`CompleteBlock`). The type theorem holds with any number of peers.

### The key-value store

`Agree` says for each device and key what its row and its running sync know. A row records no
version the server has not reached, and the present one only with its content
(`RowAgrees`). A sync knows no version the server or the database has not reached; a
tombstone it heard of is one while the version is the same; what it sent, what was
answered and what it stored are the row's or the object's content while the versions are
the same (`TaskAgrees`). Versions only grow, so a write or an upload that arrives late makes
these conditions void instead of false.

### Only model-checked

The liveness properties (`PublishAnswered`, both `SyncEnds`, `SyncCompletes`), as the prover
does not handle fairness; `ConfirmedSurvivesKill`, which relates the rows to the chain of
each save in the queue; and, of course, the violations. `VerifiedIsCounted` is false with
lock times: a lock ends with the clock or a block, which the query sees and the ledger does
not.

## 5. What is left out, and why

Wallet: coin selection and fees (arithmetic over sizes), signing, SQL statements that fail,
wrap-around of sums (amounts are small). Chain: `lastOrphan` and the block requests (they
decide what arrives, and in this module anything may arrive at any time;
`BRPeerManagerFilter` has them), misbehaviour and disconnects, the false positive rate,
`txStatusUpdate`, and the effects of loading mempools other than clearing orphans. Headers
and merkleblocks are one kind of message; a header is a block without transactions.
Difficulty verification is a constant set of blocks with a bad target. The rows of
transactions are part of `BRWallet`, in which what a restart or rescan does to the chain is
reduced to where it continues; in the chain module the heights of transactions survive a
restart, and nothing is said of the time their rows take. An object that is freed between
the unlock and the call of `saveBlocks` is counted as freed when it is no longer in
`blocks`. Reads of freed memory are the outcomes "old content" or "something that is no row
of the chain"; a crash at such a read is a `Restart`.

Connections: starting a thread and opening its socket are one step, and so is the
handshake; the list of addresses with its timestamps and rows, DNS threads, the
misbehaviour count, a fixed peer, peers that wait for the network, rescans, the reload of a
degraded filter. The application connects when nothing is connected any more and
publishes a transaction once.

Filter: unconfirmed transactions, matches by outpoints (`BLOOM_UPDATE_ALL`), header
requests, the disconnect at a very high false positive rate, the reload of the
download peer's filter when mempools are loaded, orphans older than a week,
known transaction hashes.

Key-value store: failing SQL statements, opening, migrating and removing the
database, reading old versions, the limit of ten parallel requests, results that
are only logged. Clocks are equal; a difference between them makes "last write" a
matter of the clocks. The recorded remote version and the row are read in one step, though
the code uses two transactions.

Not modelled at all: the hash set `BRSet` and the merkle tree walk, sequential data
structures behind the sets and functions used here; the Ethereum core, a system of the
same size as the bitcoin core with an event queue, listeners and a light node;
PIN and biometrics, sequential code on two stored numbers; wallet managers, user
interface, platform services, bindings (presentation, I/O, glue); keys, encodings,
signing (cryptography and formats); and the vendored libraries in `src/Modules/` (unbound,
nettle and others), which are most of the lines of the repository and not part of
the program's own logic.

## 6. Plan

Every invariant and action property of the passing runs but `ConfirmedSurvivesKill` is
proved. What could be proved next: that one, from an invariant on the rows behind each
queued save; which rows a restart recognises, so that the hypothesis of `SpecRecognized`
becomes one about the transactions (payments within the gap limit of what is listed), and
`NothingMissed` with more peers, in a weaker form that the code keeps.

Models that could follow: the composition of `BRWallet` and `BRPeerManagerChain`, in which
`CanBeMined` and the heights of `HeightsFollowChain` become consequences of `FollowsChain`;
operators with reference definitions for `BRSet`, the merkle tree walk and coin
selection; the Ethereum event queue and nonces; the PIN lock-out.
