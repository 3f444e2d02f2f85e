------------------------- MODULE BRPeerManagerChain -------------------------
(***************************************************************************)
(* The block chain of the SPV peer manager of pluswallet-core              *)
(* (BRPeerManager.c): the headers it keeps, the orphans it waits with, the *)
(* block it considers best, the transaction heights it gives the wallet,   *)
(* and the headers CoreDatabase.swift keeps for the next start.            *)
(*                                                                         *)
(* One thread per peer delivers blocks. A call of _peerRelayedBlock is one *)
(* step under manager->lock; what it does after the unlock (handing blocks *)
(* to the database, relaying the orphan that was waiting) are steps of its *)
(* own, so that calls of several threads interleave there.                 *)
(*                                                                         *)
(* A block stands for its hash: Prev and Height are functions of it. Left  *)
(* to the modules of the sync protocol: which requests are sent (and       *)
(* lastOrphan, which only decides that), bloom filter state, disconnects.  *)
(***************************************************************************)
EXTENDS Integers, Sequences, FiniteSets, FiniteSetsExt, Functions

CONSTANTS
    Blocks,           \* the blocks that exist, on the best chain and on forks
    NoBlock,          \* the hash before the genesis block; also C's NULL
    Prev,             \* Prev[b]: block->prevBlock
    Height,           \* Height[b]: the height b gets once its place is known
    Ancestors,        \* Ancestors[b]: all blocks below b, see AncestorsAssumption
    Checkpoints,      \* params->checkpoints
    StartCheckpoint,  \* the most recent one at least a week older than earliestKeyTime
    D,                \* BLOCK_DIFFICULTY_INTERVAL
    BadTarget,        \* blocks that fail params->verifyDifficulty
    Txs,              \* transactions of the wallet
    BlockTxs,         \* BlockTxs[b]: those of b
    Unconfirmed,      \* TX_UNCONFIRMED
    Peers,            \* threads, one per connected peer
    PeerLastBlock,    \* PeerLastBlock[p]: the height the peer reported in its version message
    MaxSaves          \* bound: calls of saveBlocks waiting in the queue of the database

Transition(b) == Height[b] % D = 0

ASSUME BlocksAssumption ==
    /\ NoBlock \notin Blocks
    /\ Prev \in [Blocks -> Blocks \cup {NoBlock}] /\ Height \in [Blocks -> Nat]
    /\ \A b \in Blocks : Prev[b] # NoBlock => Height[b] = Height[Prev[b]] + 1

ASSUME AncestorsAssumption ==
    /\ Ancestors \in [Blocks -> SUBSET Blocks]
    /\ \A b \in Blocks :
          Ancestors[b] = IF Prev[b] = NoBlock THEN {} ELSE {Prev[b]} \cup Ancestors[Prev[b]]

\* the hardcoded checkpoints are transition blocks, one per height
ASSUME CheckpointsAssumption ==
    /\ Checkpoints \subseteq Blocks /\ StartCheckpoint \in Checkpoints
    /\ \A c \in Checkpoints : Transition(c)
    /\ \A c, d \in Checkpoints : Height[c] = Height[d] => c = d

ASSUME ParametersAssumption ==
    /\ D \in Nat /\ D >= 2
    /\ BadTarget \subseteq Blocks
    /\ BlockTxs \in [Blocks -> SUBSET Txs]
    /\ Unconfirmed \in Nat /\ \A b \in Blocks : Height[b] < Unconfirmed
    /\ PeerLastBlock \in [Peers -> Nat]
    /\ MaxSaves \in Nat

VARIABLES
    blocks,           \* manager->blocks
    stubs,            \* the checkpoints in blocks that still are bare, without a prevBlock
    orphans,          \* manager->orphans, indexed by prevBlock: [block, known]
    lastBlock,        \* manager->lastBlock
    estimatedHeight,  \* manager->estimatedHeight
    calls,            \* calls[p]: what the call of p's thread has to do after the unlock
    saves,            \* the saves in the queue of the database: [replace, blocks, freed]
    saved,            \* the rows of the database: [block, prevBlock]
    txHeight,         \* the heights the wallet has for its transactions
    running           \* FALSE after a NULL block was dereferenced

chainVars == <<blocks, stubs, orphans, lastBlock, estimatedHeight, txHeight, running>>
vars == <<chainVars, calls, saves, saved>>

(***************************************************************************)
(* Walking back: block = BRSetGet(manager->blocks, &block->prevBlock).     *)
(***************************************************************************)
\* the blocks of S a walk from b, whose prevBlock is known, comes to
Linked(S, b) ==
    {x \in Ancestors[b] :
        \A y \in Ancestors[b] : /\ Height[y] >= Height[x] => y \in S
                                /\ Height[y] > Height[x] => y \notin stubs}

Chain(b) == Ancestors[b] \cup {b}
Walk(S, b) == {b} \cup Linked(S, b)

\* the walk from lastBlock, which may be a bare checkpoint
MainChain(S) == IF lastBlock \in stubs THEN {lastBlock} ELSE Walk(S, lastBlock)

Heights(S) == {Height[b] : b \in S}
Highest(S) == CHOOSE b \in S : \A c \in S : Height[c] <= Height[b]

(***************************************************************************)
(* _BRPeerManagerVerifyBlock                                               *)
(***************************************************************************)
\* mutated: the blocks since the previous transition are freed too
PrunedToBlock(b) ==
    {x \in Linked(blocks, b) : Transition(b) /\ Height[x] < Height[b] /\ ~ Transition(x)}

\* mutated: transition blocks are freed too
PrunedTransitions(b) == {x \in Linked(blocks, b) : Transition(b) /\ Height[x] < Height[b] - D}

\* "free up some memory": what lies before the previous difficulty transition
Pruned(b) ==
    {x \in Linked(blocks, b) : Transition(b) /\ Height[x] < Height[b] - D /\ ~ Transition(x)}

\* the previous difficulty transition can be reached, the target is right, and the
\* block is the checkpoint if there is one of its height
Verified(b) ==
    /\ Transition(b) => Height[b] - D \in Heights(Linked(blocks, b))
    /\ b \notin BadTarget
    /\ Height[b] \in Heights(Checkpoints) => b \in Checkpoints

(***************************************************************************)
(* What a relayed block leaves to do after the unlock.                     *)
(***************************************************************************)
Idle == [replace |-> FALSE, save |-> {}, next |-> NoBlock, known |-> FALSE]

\* mutated: the first transition block is cut too
SaveAfterTransition(S, b, saveCount) ==
    LET run == {x \in Walk(S, b) : Height[x] > Height[b] - saveCount}
    IN  {x \in run : \E y \in run : Transition(y) /\ Height[y] < Height[x]}

\* the last saveCount blocks up to b, cut to "start at a difficulty interval"
SaveBlocks(S, b, saveCount) ==
    LET run == {x \in Walk(S, b) : Height[x] > Height[b] - saveCount}
    IN  {x \in run : \E y \in run : Transition(y) /\ Height[y] <= Height[x]}

\* how many blocks to save when b becomes the last block
SaveCount(b) ==
    IF Height[b] = estimatedHeight THEN (Height[b] % D) + D + 1
    ELSE IF Transition(b) /\ Prev[b] = lastBlock THEN 1 ELSE 0

\* "i > 1 ? 1 : 0": one block is added to those in the database, more replace them
Several(S) == \E x, y \in S : x # y

\* mutated: orphans are not looked for
ForgetNext(p, b, save, waiting) ==
    /\ estimatedHeight' = Max({estimatedHeight, Height[b]})
    /\ orphans' = waiting
    /\ calls' = [calls EXCEPT ![p] = [Idle EXCEPT !.save = save, !.replace = Several(save)]]

\* "check if the next block was received as an orphan"; save is to be saved
TakeNext(p, b, save, waiting) ==
    LET found == b \in DOMAIN waiting
    IN  /\ estimatedHeight' = Max({estimatedHeight, Height[b]})
        /\ orphans' = Restrict(waiting, DOMAIN waiting \ {b})
        /\ calls' = [calls EXCEPT ![p] =
                        [replace |-> Several(save), save |-> save,
                         next |-> IF found THEN waiting[b].block ELSE NoBlock,
                         known |-> IF found THEN waiting[b].known ELSE FALSE]]

\* BRSetAdd(manager->orphans, block): an orphan with the same prevBlock gives way
AddOrphan(b, known) ==
    [q \in DOMAIN orphans \cup {Prev[b]} |->
        IF q = Prev[b] THEN [block |-> b, known |-> known] ELSE orphans[q]]

\* the block is freed
Dropped(p) ==
    /\ calls' = [calls EXCEPT ![p] = Idle]
    /\ UNCHANGED <<orphans, estimatedHeight>>

\* the orphans the new lastBlock b leaves: when the "chain download is complete",
\* _BRPeerManagerLoadMempools loads a filter on the other peers, which clears them
Waiting(b) == {orphans} \cup {w \in {<<>>} : Height[b] = estimatedHeight}

\* BRMerkleBlockFree of the objects of S: saves not written yet still point to them
Free(S) == saves' = [i \in DOMAIN saves |-> [saves[i] EXCEPT !.freed = @ \cup (S \cap saves[i].blocks)]]

(***************************************************************************)
(* The wallet, as BRWallet.tla has it in detail.                           *)
(***************************************************************************)
\* BRWalletUpdateTransactions for the blocks of S in heights hts
UpdateTransactions(S, hts) ==
    [t \in Txs |-> LET holders == {b \in S : t \in BlockTxs[b]}
                   IN  IF holders = {} THEN hts[t] ELSE Min(Heights(holders))]

\* mutated: another mark than TX_UNCONFIRMED
SetTxAfterMinusOne(h) == [t \in Txs |-> IF txHeight[t] > h THEN -1 ELSE txHeight[t]]

\* BRWalletSetTxUnconfirmedAfter
SetTxUnconfirmedAfter(h) == [t \in Txs |-> IF txHeight[t] > h THEN Unconfirmed ELSE txHeight[t]]

(***************************************************************************)
(* _peerRelayedBlock: peer p relays block b; known tells whether the       *)
(* height of the block object was set before (an orphan relayed again).    *)
(***************************************************************************)
\* ignored: a header where merkleblocks are wanted, or any block while a filter update is pending
RelayedIgnored(p) ==
    /\ Dropped(p)
    /\ UNCHANGED <<blocks, stubs, lastBlock, txHeight, running, saves>>

\* "block is an orphan": ignored when older than a week, else kept
RelayedOrphan(p, b, known) ==
    /\ Prev[b] \notin blocks
    /\ \/ Dropped(p)
       \/ /\ b \notin Checkpoints
          /\ IF known
             THEN TakeNext(p, b, {}, AddOrphan(b, TRUE))
             ELSE /\ orphans' = AddOrphan(b, FALSE)
                  /\ calls' = [calls EXCEPT ![p] = Idle]
                  /\ UNCHANGED estimatedHeight
    /\ UNCHANGED <<blocks, stubs, lastBlock, txHeight, running, saves>>

\* "block is invalid": what the verification freed stays freed
RelayedInvalid(p, b) ==
    /\ Prev[b] \in blocks /\ ~ Verified(b)
    /\ blocks' = blocks \ Pruned(b)
    /\ Free(Pruned(b))
    /\ Dropped(p)
    /\ UNCHANGED <<stubs, lastBlock, txHeight, running>>

\* a block that passed the verification, and the blocks the verification kept
Accepted(b) == Prev[b] \in blocks /\ Verified(b)
Kept(b) == blocks \ Pruned(b)

\* "new block extends main chain"
RelayedNext(p, b) ==
    /\ Accepted(b) /\ Prev[b] = lastBlock
    /\ blocks' = Kept(b) \cup {b} /\ stubs' = stubs \ {b}
    /\ lastBlock' = b
    /\ txHeight' = UpdateTransactions({b}, txHeight)
    /\ Free(Pruned(b))
    /\ \E waiting \in Waiting(b) : TakeNext(p, b, SaveBlocks(blocks', b, SaveCount(b)), waiting)
    /\ UNCHANGED running

\* "we already have the block": b replaces the object in blocks; a block of the main
\* chain sets the heights of its transactions again. BRMerkleBlockEq takes no NULL.
RelayedExisting(p, b) ==
    LET main == MainChain(Kept(b))
        known == \E x \in main : Height[x] <= Height[b]
    IN  /\ Accepted(b) /\ Prev[b] # lastBlock /\ b \in Kept(b)
        /\ IF ~ known
           THEN running' = FALSE /\ UNCHANGED <<stubs, txHeight>>
           ELSE /\ stubs' = stubs \ {b}
                /\ txHeight' = IF b \in main THEN UpdateTransactions({b}, txHeight) ELSE txHeight
                /\ UNCHANGED running
        /\ blocks' = Kept(b)
        /\ Free(Pruned(b) \cup {b})
        /\ TakeNext(p, b, {}, orphans)
        /\ UNCHANGED lastBlock

NewBlock(b) == Accepted(b) /\ Prev[b] # lastBlock /\ b \notin Kept(b)

\* "special case, new block mined durring rescan"
Postponed(p, b) == Height[lastBlock] < PeerLastBlock[p] /\ Height[b] > Height[lastBlock] + 1

\* "mark as orphan til we're caught up"
RelayedEarly(p, b) ==
    /\ NewBlock(b) /\ Postponed(p, b)
    /\ blocks' = Kept(b)
    /\ Free(Pruned(b))
    /\ TakeNext(p, b, {}, AddOrphan(b, TRUE))
    /\ UNCHANGED <<stubs, lastBlock, txHeight, running>>

\* "ignoring block on fork older than most recent checkpoint"
OldFork(b) == Height[b] <= Height[Highest(Checkpoints)]

RelayedOldFork(p, b) ==
    /\ NewBlock(b) /\ ~ Postponed(p, b) /\ OldFork(b)
    /\ blocks' = Kept(b)
    /\ Free(Pruned(b))
    /\ Dropped(p)
    /\ UNCHANGED <<stubs, lastBlock, txHeight, running>>

\* mutated: off by one
RelayedForkLonger(p, b) ==
    /\ NewBlock(b) /\ ~ Postponed(p, b) /\ ~ OldFork(b) /\ Height[b] <= Height[lastBlock] + 1
    /\ blocks' = Kept(b) \cup {b}
    /\ Free(Pruned(b))
    /\ TakeNext(p, b, {}, orphans)
    /\ UNCHANGED <<stubs, lastBlock, txHeight, running>>

\* "new block is on a fork", and the fork is not longer than the main chain
RelayedFork(p, b) ==
    /\ NewBlock(b) /\ ~ Postponed(p, b) /\ ~ OldFork(b) /\ Height[b] <= Height[lastBlock]
    /\ blocks' = Kept(b) \cup {b}
    /\ Free(Pruned(b))
    /\ TakeNext(p, b, {}, orphans)
    /\ UNCHANGED <<stubs, lastBlock, txHeight, running>>

\* mutated: transactions of the old main chain stay confirmed
ReorganizedKeep(fork, main) ==
    LET join == Height[Highest(fork \cap main)]
    IN  UpdateTransactions({x \in fork : Height[x] > join}, txHeight)

\* "set transaction heights for new main chain", which joins the old one
Reorganized(fork, main) ==
    LET join == Height[Highest(fork \cap main)]
    IN  UpdateTransactions({x \in fork : Height[x] > join}, SetTxUnconfirmedAfter(join))

\* "reorganizing chain": two walks back look for the block where the fork joins. When
\* they do not meet, the one that ends first decides: past the end of the main chain
\* no transaction gets a new height, past the end of the fork a NULL is dereferenced.
RelayedReorganizes(p, b) ==
    LET fork == Walk(Kept(b) \cup {b}, b)
        main == MainChain(Kept(b) \cup {b})
        bottom == Min(Heights(main))
    IN  /\ NewBlock(b) /\ ~ Postponed(p, b) /\ ~ OldFork(b) /\ Height[b] > Height[lastBlock]
        /\ blocks' = Kept(b) \cup {b}
        /\ lastBlock' = b
        /\ CASE fork \cap main # {} -> txHeight' = Reorganized(fork, main) /\ UNCHANGED running
             [] fork \cap main = {} /\ bottom - 1 \in Heights(fork) ->
                  txHeight' = SetTxUnconfirmedAfter(bottom - 1) /\ UNCHANGED running
             [] OTHER -> running' = FALSE /\ UNCHANGED txHeight
        /\ Free(Pruned(b))
        /\ \E waiting \in Waiting(b) : TakeNext(p, b, SaveBlocks(blocks', b, SaveCount(b)), waiting)
        /\ UNCHANGED stubs

PeerRelayedBlock(p, b, known) ==
    /\ \/ RelayedIgnored(p)
       \/ RelayedOrphan(p, b, known)
       \/ RelayedInvalid(p, b)
       \/ RelayedNext(p, b)
       \/ RelayedExisting(p, b)
       \/ RelayedEarly(p, b)
       \/ RelayedOldFork(p, b)
       \/ RelayedFork(p, b)
       \/ RelayedReorganizes(p, b)
    /\ UNCHANGED saved

(***************************************************************************)
(* The steps of the threads, of the database and of the application.       *)
(***************************************************************************)
\* a merkleblock message arrives
BlockArrives(p, b) == running /\ calls[p] = Idle /\ PeerRelayedBlock(p, b, FALSE)

\* after the unlock: the blocks go to manager->saveBlocks, which queues them
SaveCallback(p) ==
    /\ running /\ calls[p].save # {} /\ Len(saves) < MaxSaves
    /\ saves' = Append(saves, [replace |-> calls[p].replace, blocks |-> calls[p].save,
                              freed |-> calls[p].save \ blocks])
    /\ calls' = [calls EXCEPT ![p].save = {}, ![p].replace = FALSE]
    /\ UNCHANGED <<chainVars, saved>>

\* "if (next) _peerRelayedBlock(info, next)"
RelayNext(p) ==
    /\ running /\ calls[p].save = {} /\ calls[p].next # NoBlock
    /\ PeerRelayedBlock(p, calls[p].next, calls[p].known)

\* a bare checkpoint is saved without its prevBlock
Row(b) == [block |-> b, prevBlock |-> IF b \in stubs THEN NoBlock ELSE Prev[b]]

\* CoreDatabase.saveBlocks runs its queued block; objects freed in the meantime may
\* still hold the header or something else, which makes no row of the chain
WriteBlocks ==
    /\ running /\ saves # <<>>
    /\ \E readable \in SUBSET Head(saves).freed :
          LET written == {Row(b) : b \in (Head(saves).blocks \ Head(saves).freed) \cup readable}
          IN  saved' = IF Head(saves).replace THEN written ELSE saved \cup written
    /\ saves' = Tail(saves)
    /\ UNCHANGED <<chainVars, calls>>

\* _BRPeerManagerLoadBloomFilter: "clear out orphans that may have been received on an
\* old filter"
LoadBloomFilter ==
    /\ running
    /\ orphans' = <<>>
    /\ UNCHANGED <<blocks, stubs, lastBlock, txHeight, running, calls, saves, saved>>

\* _peerConnected selects p to download the chain from
DownloadPeer(p) ==
    /\ PeerLastBlock[p] + 10 >= Height[lastBlock]
    /\ estimatedHeight' = PeerLastBlock[p]
    /\ LoadBloomFilter

\* BRPeerManagerRescan, RescanFromLastHardcodedCheckpoint, RescanFromBlockNumber(n):
\* the block with that number on the main chain, the checkpoint of that height, or the
\* checkpoint before it
BlockFromNumber(n) ==
    LET found == {b \in MainChain(blocks) \cup Checkpoints : Height[b] = n}
        before == {c \in Checkpoints : Height[c] < n}
    IN  IF found \cap MainChain(blocks) # {} THEN Highest(found \cap MainChain(blocks))
        ELSE IF found # {} THEN Highest(found)
        ELSE IF before # {} THEN Highest(before)
        ELSE CHOOSE c \in Checkpoints : \A d \in Checkpoints : Height[c] <= Height[d]

Rescan ==
    /\ running
    /\ \/ lastBlock' = StartCheckpoint
       \/ lastBlock' = Highest(Checkpoints)
       \/ \E n \in Heights(Blocks) : lastBlock' = BlockFromNumber(n)
    /\ UNCHANGED <<blocks, stubs, orphans, estimatedHeight, txHeight, running, calls, saves, saved>>

\* mutated: the last block is taken
LastRows(rows) == {r \in rows : \A s \in rows : Height[s.block] <= Height[r.block]}

\* "find last transition block"
LastTransitions(rows) ==
    {r \in rows : Transition(r.block) /\ \A s \in rows : Transition(s.block) => Height[s.block] <= Height[r.block]}

\* the rows BRPeerManagerNew comes to from first, through an index of rows by prevBlock
Loaded(rows, first, index) ==
    {r \in rows :
        \/ r = first
        \/ /\ first.block \in Ancestors[r.block]
           /\ \A y \in Chain(r.block) : Height[y] > Height[first.block] =>
                  Prev[y] \in DOMAIN index /\ index[Prev[y]].block = y
           /\ index[Prev[r.block]] = r}

\* what BRSetAdd may leave of rows with the same prevBlock
Indexes(rows) ==
    {f \in [{r.prevBlock : r \in rows} -> rows] : \A q \in DOMAIN f : f[q].prevBlock = q}

\* BRPeerManagerNew for a chain of loaded rows
BRPeerManagerNew(index, loaded) ==
    LET chain == {r.block : r \in loaded}
    IN  /\ blocks' = Checkpoints \cup chain
        /\ stubs' = Checkpoints \ {r.block : r \in {s \in loaded : s.prevBlock # NoBlock}}
        /\ lastBlock' = IF chain = {} THEN StartCheckpoint ELSE Highest(chain)
        /\ orphans' = [q \in DOMAIN index \ {r.prevBlock : r \in loaded} |->
                          [block |-> index[q].block, known |-> TRUE]]

\* the application ends, at any point, and starts again
Restart ==
    /\ \E index \in Indexes(saved) :
          \/ LastTransitions(saved) = {} /\ BRPeerManagerNew(index, {})
          \/ \E first \in LastTransitions(saved) : BRPeerManagerNew(index, Loaded(saved, first, index))
    /\ estimatedHeight' = 0 /\ running' = TRUE
    /\ calls' = [p \in Peers |-> Idle] /\ saves' = <<>>
    /\ UNCHANGED <<txHeight, saved>>

Init ==
    /\ blocks = Checkpoints /\ stubs = Checkpoints /\ orphans = <<>>
    /\ lastBlock = StartCheckpoint /\ estimatedHeight = 0
    /\ calls = [p \in Peers |-> Idle] /\ saves = <<>> /\ saved = {}
    /\ txHeight = [t \in Txs |-> Unconfirmed] /\ running = TRUE

\* the peers' threads and the database
Next ==
    \/ \E p \in Peers, b \in Blocks : BlockArrives(p, b)
    \/ \E p \in Peers : SaveCallback(p) \/ RelayNext(p) \/ DownloadPeer(p)
    \/ LoadBloomFilter /\ UNCHANGED estimatedHeight
    \/ WriteBlocks

Spec == Init /\ [][Next]_vars

\* the same with restarts
NextRestart == Next \/ Restart
SpecRestart == Init /\ [][NextRestart]_vars

\* the threads, the database and rescans
NextRescan == Next \/ Rescan
SpecRescan == Init /\ [][NextRescan]_vars

(***************************************************************************)
(* Properties.                                                             *)
(***************************************************************************)
BlockIds == Blocks \cup {NoBlock}
Calls == [replace : BOOLEAN, save : SUBSET Blocks, next : BlockIds, known : BOOLEAN]
Saves == [replace : BOOLEAN, blocks : SUBSET Blocks, freed : SUBSET Blocks]
Rows == [block : Blocks, prevBlock : BlockIds]

OrphanIndex(f) ==
    DOMAIN f \subseteq BlockIds /\ \A q \in DOMAIN f : f[q] \in [block : Blocks, known : BOOLEAN]

\* Every variable has the type BRPeerManager.c gives it.
TypeOK ==
    /\ blocks \subseteq Blocks /\ stubs \subseteq Checkpoints
    /\ OrphanIndex(orphans)
    /\ lastBlock \in Blocks /\ estimatedHeight \in Nat
    /\ calls \in [Peers -> Calls] /\ saves \in Seq(Saves) /\ saved \subseteq Rows
    /\ txHeight \in [Txs -> Nat] /\ running \in BOOLEAN

\* manager->lastBlock points to a block that is still in manager->blocks, although
\* verifying any relayed block may free blocks, and no verified block is higher:
\* BRPeerManagerLastBlockHeight is the "proof-of-work verified best block height".
LastBlockIsBest ==
    /\ lastBlock \in blocks
    /\ \A b \in blocks \ Checkpoints : Height[b] <= Height[lastBlock]

\* The hardcoded checkpoints are never freed, so each of them can be looked up in blocks
\* when a rescan starts from it ("if (NULL == newLastBlock) return 0" would drop it).
CheckpointsKept == Checkpoints \subseteq blocks

\* The difficulty transition at or below lastBlock can be reached by walking back, so the
\* next transition block can be verified ("missing previous difficulty tansition" would
\* stop the sync for good), also after a restart from the saved blocks.
NextTransitionVerifiable ==
    running => \E b \in MainChain(blocks) : Transition(b) /\ Height[b] > Height[lastBlock] - D

\* An orphan waits only while its parent is missing, or while the chain has not come
\* to the checkpoint it follows: no thread adds a parent without taking the orphan.
OrphansWait ==
    running => \A q \in DOMAIN orphans :
        /\ Prev[orphans[q].block] = q
        /\ q \in blocks => q \in Checkpoints /\ Height[q] > Height[lastBlock]

\* What goes to saveBlocks is an unbroken piece of chain that starts at a difficulty
\* transition (the assertion of _peerRelayedBlock) from which BRPeerManagerNew gets
\* back to its last block.
SavesReload ==
    \A p \in Peers : calls[p].save # {} =>
        LET S == calls[p].save
            top == Highest(S)
            bottom == Min(Heights(S))
        IN  /\ bottom % D = 0
            /\ S = {x \in Chain(top) : Height[x] >= bottom}
            /\ calls[p].replace = (S # {top})

\* b leaves the chain of lastBlock since the last difficulty transition, and is at most one block above it
Recent(b) ==
    /\ Height[b] <= Height[lastBlock] + 1
    /\ \E x \in Chain(b) \cap Chain(lastBlock) : Height[x] >= Height[lastBlock] - (Height[lastBlock] % D)

\* The walks of _peerRelayedBlock that look for the main chain and for the block where a fork joins it
\* never dereference a missing block when the relayed block is a recent one, whatever blocks of other
\* forks the verification has freed and wherever a restart began. (An older block can make them do it.)
RecentBlocksHandled ==
    [][ running /\ ~ running' =>
            \A p \in Peers, b \in Blocks, known \in BOOLEAN : PeerRelayedBlock(p, b, known) => ~ Recent(b) ]_vars

\* The peer manager follows one chain and changes to another one only for a higher
\* block; a transaction is confirmed at the height of the block of that chain that
\* contains it, and unconfirmed if there is none (FollowedChain.tla).
Followed == INSTANCE FollowedChain WITH best <- lastBlock, confirmed <- txHeight
FollowsChain == Followed!Spec

(***************************************************************************)
(* What FollowsChain rests on, besides the code: the theorem that states   *)
(* it for every block tree has these as hypotheses.                        *)
(***************************************************************************)
\* every peer has reported a height at or above the most recent checkpoint
SyncedPeers == \A p \in Peers : PeerLastBlock[p] >= Height[Highest(Checkpoints)]

\* a fork that gets higher than another one left it at most one difficulty interval before
ShortForks ==
    \A b, c \in Blocks : Height[b] = Height[c] + 1 /\ Height[b] > Height[Highest(Checkpoints)] =>
        \E x \in Chain(b) \cap Chain(c) : Height[x] >= Height[b] - D

\* the wallet is younger than the checkpoint the download starts from
NewWallet == \A x \in Chain(StartCheckpoint) : BlockTxs[x] = {}

\* a transaction is in one block of a chain
ConfirmedOnce == \A b \in Blocks : \A x, y \in Chain(b) : BlockTxs[x] \cap BlockTxs[y] # {} => x = y

Environment == SyncedPeers /\ ShortForks /\ NewWallet /\ ConfirmedOnce

\* "mark as orphan til we're caught up": a block that is mined during a rescan leaves the rescan its
\* lastBlock, which the next block has to find in blocks.
RescanContinues == lastBlock \in blocks
=============================================================================
