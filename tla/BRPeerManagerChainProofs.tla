---------------------- MODULE BRPeerManagerChainProofs ----------------------
(***************************************************************************)
(* Theorems about BRPeerManagerChain, for every block tree, every set of   *)
(* checkpoints and any number of peers.                                    *)
(***************************************************************************)
EXTENDS BRPeerManagerChain, TLAPS, WellFoundedInduction, SequenceTheorems

(***************************************************************************)
(* Minima and maxima.                                                      *)
(***************************************************************************)
\* A nonempty set of naturals has a least element.
LEMMA NatMin ==
    ASSUME NEW S, S \subseteq Nat, S # {}
    PROVE  \E n \in S : \A m \in S : n <= m
<1>1. PICK n \in S : \A m \in S : ~ (<<m, n>> \in OpToRel(<, Nat))
  BY NatLessThanWellFounded, WFMin
<1>2. \A m \in S : <<m, n>> \notin {ss \in Nat \X Nat : ss[1] < ss[2]}
  BY <1>1, Zenon DEF OpToRel
<1>3. ASSUME NEW m \in S PROVE n <= m
  <2>1. <<m, n>> \notin {ss \in Nat \X Nat : ss[1] < ss[2]}
    BY <1>2
  <2>2. m \in Nat /\ n \in Nat
    OBVIOUS
  <2>3. ~ (m < n)
    BY <2>1, <2>2
  <2> QED
    BY <2>2, <2>3
<1> QED
  BY <1>3

\* Min, which the wallet's heights are taken with, is that element.
LEMMA MinInSet ==
    ASSUME NEW S, S \subseteq Nat, S # {}
    PROVE  Min(S) \in S
  BY NatMin DEF Min

\* Max of the two heights _peerRelayedBlock compares is a height.
LEMMA MaxOfTwo ==
    ASSUME NEW m \in Nat, NEW n \in Nat
    PROVE  Max({m, n}) \in Nat
<1>1. \E x \in {m, n} : \A y \in {m, n} : x >= y
  <2>1. CASE m >= n BY <2>1
  <2>2. CASE ~ (m >= n) BY <2>2
  <2> QED BY <2>1, <2>2
<1>2. Max({m, n}) \in {m, n}
  BY <1>1, Zenon DEF Max
<1> QED BY <1>2

\* Highest finds a highest block of every nonempty set, as heights are bounded.
LEMMA HighestBlock ==
    ASSUME NEW S, S \subseteq Blocks, S # {}
    PROVE  Highest(S) \in S /\ \A c \in S : Height[c] <= Height[Highest(S)]
<1> DEFINE Below == {Unconfirmed - Height[b] : b \in S}
<1>1. \A b \in S : Height[b] \in Nat /\ Height[b] < Unconfirmed /\ Unconfirmed \in Nat
  BY BlocksAssumption, ParametersAssumption
<1>2. Below \subseteq Nat /\ Below # {}
  BY <1>1
<1>3. PICK n \in Below : \A m \in Below : n <= m
  <2> HIDE DEF Below
  <2> QED BY <1>2, NatMin
<1>4. PICK b \in S : n = Unconfirmed - Height[b]
  OBVIOUS
<1>5. ASSUME NEW c \in S PROVE Height[c] <= Height[b]
  <2>1. n <= Unconfirmed - Height[c]
    BY <1>3
  <2> QED
    BY <1>1, <1>4, <2>1
<1> QED
  BY <1>5 DEF Highest

(***************************************************************************)
(* Type correctness, along the helpers the handlers are made of.           *)
(***************************************************************************)
\* Walking back from a block of the tree comes to blocks of the tree.
LEMMA WalkType ==
    ASSUME NEW S, NEW b \in Blocks
    PROVE  Linked(S, b) \subseteq Blocks /\ Walk(S, b) \subseteq Blocks
  BY AncestorsAssumption DEF Linked, Walk

\* Taking the waiting orphan leaves typed orphans, heights and calls.
LEMMA TakeNextType ==
    ASSUME TypeOK, NEW p \in Peers, NEW b \in Blocks, NEW save \in SUBSET Blocks,
           NEW waiting, OrphanIndex(waiting), TakeNext(p, b, save, waiting)
    PROVE  OrphanIndex(orphans)' /\ estimatedHeight' \in Nat /\ calls' \in [Peers -> Calls]
<1>1. estimatedHeight' \in Nat
  BY MaxOfTwo, BlocksAssumption DEF TypeOK, TakeNext
<1>2. OrphanIndex(orphans)'
  BY DEF OrphanIndex, TakeNext, Restrict
<1>3. calls' \in [Peers -> Calls]
  <2> DEFINE found == b \in DOMAIN waiting
             next == IF found THEN waiting[b].block ELSE NoBlock
             known == IF found THEN waiting[b].known ELSE FALSE
  <2>1. Several(save) \in BOOLEAN
    BY DEF Several
  <2>2. next \in BlockIds /\ known \in BOOLEAN
    BY DEF BlockIds, OrphanIndex
  <2>3. calls' = [calls EXCEPT ![p] = [replace |-> Several(save), save |-> save,
                                       next |-> next, known |-> known]]
    BY DEF TakeNext
  <2> HIDE DEF found, next, known
  <2>4. [replace |-> Several(save), save |-> save, next |-> next, known |-> known] \in Calls
    BY <2>1, <2>2 DEF Calls
  <2> QED
    BY <2>3, <2>4 DEF TypeOK
<1> QED
  BY <1>1, <1>2, <1>3

\* Nor do the orphans that a new lastBlock leaves lose their type.
LEMMA WaitingType ==
    ASSUME TypeOK, NEW b \in Blocks
    PROVE  \A waiting \in Waiting(b) : OrphanIndex(waiting)
<1>1. OrphanIndex(<<>>)
  BY DEF OrphanIndex
<1> QED
  BY <1>1 DEF Waiting, TypeOK

\* Dropping the block leaves typed orphans, heights and calls.
LEMMA DroppedType ==
    ASSUME TypeOK, NEW p \in Peers, Dropped(p)
    PROVE  OrphanIndex(orphans)' /\ estimatedHeight' \in Nat /\ calls' \in [Peers -> Calls]
<1>1. Idle \in Calls
  BY DEF Idle, Calls, BlockIds
<1> QED
  BY <1>1 DEF TypeOK, Dropped, OrphanIndex

\* An orphan can be added to the index.
LEMMA AddOrphanType ==
    ASSUME TypeOK, NEW b \in Blocks, NEW known \in BOOLEAN
    PROVE  OrphanIndex(AddOrphan(b, known))
<1>1. Prev[b] \in BlockIds
  BY BlocksAssumption DEF BlockIds
<1> QED
  BY <1>1 DEF TypeOK, OrphanIndex, AddOrphan

\* Freeing blocks marks them in the queued saves.
LEMMA FreeType ==
    ASSUME TypeOK, NEW S \in SUBSET Blocks, Free(S)
    PROVE  saves' \in Seq(Saves)
<1> DEFINE mark(s) == [s EXCEPT !.freed = @ \cup (S \cap s.blocks)]
<1>1. \A s \in Saves : mark(s) \in Saves
  BY DEF Saves
<1>2. saves' = [i \in 1 .. Len(saves) |-> mark(saves[i])]
  BY DEF Free, TypeOK
<1>3. \A i \in 1 .. Len(saves) : saves[i] \in Saves
  BY DEF TypeOK
<1>4. Len(saves) \in Nat
  BY DEF TypeOK
<1> HIDE DEF mark
<1> QED
  BY <1>1, <1>2, <1>3, <1>4

\* The wallet gets heights for its transactions.
LEMMA UpdateType ==
    ASSUME NEW S, S \subseteq Blocks, NEW hts \in [Txs -> Nat]
    PROVE  UpdateTransactions(S, hts) \in [Txs -> Nat]
<1>1. ASSUME NEW T, T \subseteq S, T # {} PROVE Min(Heights(T)) \in Nat
  <2>1. Heights(T) \subseteq Nat /\ Heights(T) # {}
    BY <1>1, BlocksAssumption DEF Heights
  <2> QED
    BY <2>1, MinInSet
<1>2. ASSUME NEW t \in Txs
      PROVE  (IF {b \in S : t \in BlockTxs[b]} = {} THEN hts[t]
              ELSE Min(Heights({b \in S : t \in BlockTxs[b]}))) \in Nat
  BY <1>1
<1> QED
  BY <1>2 DEF UpdateTransactions

\* A reorganisation leaves heights or TX_UNCONFIRMED.
LEMMA UnconfirmType ==
    ASSUME TypeOK, NEW h
    PROVE  SetTxUnconfirmedAfter(h) \in [Txs -> Nat]
  BY ParametersAssumption DEF TypeOK, SetTxUnconfirmedAfter

(***************************************************************************)
(* What the verification of a block may free.                              *)
(***************************************************************************)
\* Only blocks more than an interval below b that are no transition blocks are freed.
LEMMA PrunedBlocks ==
    ASSUME NEW b \in Blocks
    PROVE  /\ Pruned(b) \subseteq Blocks
           /\ \A x \in Pruned(b) : Transition(b) /\ ~ Transition(x) /\ Height[x] < Height[b] - D
  BY WalkType DEF Pruned

\* No checkpoint is freed, as checkpoints are transition blocks.
LEMMA CheckpointsSurvive ==
    ASSUME CheckpointsKept, NEW b \in Blocks
    PROVE  Checkpoints \subseteq Kept(b)
  BY PrunedBlocks, CheckpointsAssumption DEF CheckpointsKept, Kept

\* The block after a transition block is none.
LEMMA TransitionsApart ==
    ASSUME NEW b \in Blocks, Prev[b] \in Blocks, Transition(Prev[b])
    PROVE  ~ Transition(b)
<1>1. Height[b] = Height[Prev[b]] + 1 /\ Height[Prev[b]] \in Nat
  BY BlocksAssumption
<1>2. D \in Nat /\ D >= 2
  BY ParametersAssumption
<1> DEFINE h == Height[Prev[b]]
<1>3. h \in Nat /\ h % D = 0
  BY <1>1 DEF Transition
<1> HIDE DEF h
<1>4. (h + 1) % D # 0
  BY <1>2, <1>3, SMT
<1> QED
  BY <1>1, <1>4 DEF h, Transition

\* A block whose parent is there is at most one above lastBlock, or follows a checkpoint;
\* so verifying it never frees lastBlock.
LEMMA LastBlockSurvives ==
    ASSUME TypeOK, LastBlockIsBest, NEW b \in Blocks, Prev[b] \in blocks
    PROVE  lastBlock \in Kept(b)
<1> SUFFICES ASSUME lastBlock \in Pruned(b) PROVE FALSE
  BY DEF Kept, LastBlockIsBest
<1>1. Transition(b) /\ Height[lastBlock] < Height[b] - D
  BY PrunedBlocks
<1>2. Prev[b] \in Blocks /\ lastBlock \in Blocks
  BY DEF TypeOK
<1>3. /\ Height[b] = Height[Prev[b]] + 1
      /\ Height[Prev[b]] \in Nat /\ Height[lastBlock] \in Nat /\ D \in Nat /\ D >= 2
  BY <1>2, BlocksAssumption, ParametersAssumption
<1>4. CASE Prev[b] \in Checkpoints
  <2>1. Transition(Prev[b])
    BY <1>4, CheckpointsAssumption
  <2> QED
    BY <1>1, <1>2, <2>1, TransitionsApart
<1>5. CASE Prev[b] \notin Checkpoints
  <2>1. Height[Prev[b]] <= Height[lastBlock]
    BY <1>5 DEF LastBlockIsBest
  <2> QED
    BY <1>1, <1>3, <2>1
<1> QED
  BY <1>4, <1>5

(***************************************************************************)
(* The inductive invariant.                                                *)
(***************************************************************************)
Typed == TypeOK /\ CheckpointsKept
Safe == Typed /\ LastBlockIsBest

\* What a relayed block does to the chain, whichever branch it takes.
LEMMA RelayTyped ==
    ASSUME Typed, NEW p \in Peers, NEW b \in Blocks, NEW known \in BOOLEAN,
           PeerRelayedBlock(p, b, known)
    PROVE  Typed'
<1> USE DEF Typed
<1>1. /\ Pruned(b) \in SUBSET Blocks /\ Kept(b) \subseteq Blocks
      /\ Checkpoints \subseteq Kept(b)
  BY PrunedBlocks, CheckpointsSurvive DEF Kept, TypeOK
<1>2. saved' \subseteq Rows
  BY DEF PeerRelayedBlock, TypeOK
<1>0. CASE RelayedIgnored(p)
  BY <1>2, <1>0, DroppedType DEF RelayedIgnored, TypeOK, CheckpointsKept
<1>3. CASE RelayedOrphan(p, b, known)
  <2>1. OrphanIndex(orphans)' /\ estimatedHeight' \in Nat /\ calls' \in [Peers -> Calls]
    <3>1. CASE Dropped(p)
      BY <3>1, DroppedType
    <3>2. CASE known /\ TakeNext(p, b, {}, AddOrphan(b, TRUE))
      BY <3>2, TakeNextType, AddOrphanType
    <3>3. CASE ~ known /\ orphans' = AddOrphan(b, FALSE) /\ UNCHANGED estimatedHeight
                /\ calls' = [calls EXCEPT ![p] = Idle]
      <4>1. OrphanIndex(orphans)'
        BY <3>3, AddOrphanType DEF OrphanIndex
      <4>2. Idle \in Calls
        BY DEF Idle, Calls, BlockIds
      <4> QED
        BY <3>3, <4>1, <4>2 DEF TypeOK
    <3> QED
      BY <1>3, <3>1, <3>2, <3>3 DEF RelayedOrphan
  <2> QED
    BY <1>2, <1>3, <2>1 DEF RelayedOrphan, TypeOK, CheckpointsKept
<1>4. CASE RelayedInvalid(p, b)
  <2>1. /\ OrphanIndex(orphans)' /\ estimatedHeight' \in Nat /\ calls' \in [Peers -> Calls]
        /\ saves' \in Seq(Saves)
    BY <1>1, <1>4, DroppedType, FreeType DEF RelayedInvalid
  <2> QED
    BY <1>1, <1>2, <1>4, <2>1 DEF RelayedInvalid, Kept, TypeOK, CheckpointsKept
<1>5. CASE RelayedNext(p, b)
  <2>1. SaveBlocks(blocks', b, SaveCount(b)) \in SUBSET Blocks
    BY WalkType DEF SaveBlocks
  <2>2. OrphanIndex(orphans)' /\ estimatedHeight' \in Nat /\ calls' \in [Peers -> Calls]
    BY <1>5, <2>1, TakeNextType, WaitingType DEF RelayedNext
  <2>3. saves' \in Seq(Saves)
    BY <1>1, <1>5, FreeType DEF RelayedNext
  <2>4. txHeight' \in [Txs -> Nat]
    BY <1>5, UpdateType DEF RelayedNext, TypeOK
  <2> QED
    BY <1>1, <1>2, <1>5, <2>2, <2>3, <2>4 DEF RelayedNext, TypeOK, CheckpointsKept
<1>6. CASE RelayedExisting(p, b)
  <2>1. OrphanIndex(orphans)' /\ estimatedHeight' \in Nat /\ calls' \in [Peers -> Calls]
    BY <1>6, TakeNextType DEF RelayedExisting, TypeOK
  <2>2. saves' \in Seq(Saves)
    <3>1. Pruned(b) \cup {b} \in SUBSET Blocks /\ Free(Pruned(b) \cup {b})
      BY <1>1, <1>6 DEF RelayedExisting
    <3> QED
      BY <3>1, FreeType
  <2>3. txHeight' \in [Txs -> Nat] /\ stubs' \subseteq Checkpoints /\ running' \in BOOLEAN
    <3>1. UpdateTransactions({b}, txHeight) \in [Txs -> Nat]
      BY UpdateType DEF TypeOK
    <3> QED
      BY <1>6, <3>1 DEF RelayedExisting, TypeOK
  <2> QED
    BY <1>1, <1>2, <1>6, <2>1, <2>2, <2>3 DEF RelayedExisting, TypeOK, CheckpointsKept
<1>7. CASE RelayedEarly(p, b)
  <2>1. OrphanIndex(orphans)' /\ estimatedHeight' \in Nat /\ calls' \in [Peers -> Calls]
    BY <1>7, TakeNextType, AddOrphanType DEF RelayedEarly
  <2>2. saves' \in Seq(Saves)
    BY <1>1, <1>7, FreeType DEF RelayedEarly
  <2> QED
    BY <1>1, <1>2, <1>7, <2>1, <2>2 DEF RelayedEarly, TypeOK, CheckpointsKept
<1>8. CASE RelayedOldFork(p, b)
  <2>1. /\ OrphanIndex(orphans)' /\ estimatedHeight' \in Nat /\ calls' \in [Peers -> Calls]
        /\ saves' \in Seq(Saves)
    BY <1>1, <1>8, DroppedType, FreeType DEF RelayedOldFork
  <2> QED
    BY <1>1, <1>2, <1>8, <2>1 DEF RelayedOldFork, TypeOK, CheckpointsKept
<1>9. CASE RelayedFork(p, b)
  <2>1. OrphanIndex(orphans)' /\ estimatedHeight' \in Nat /\ calls' \in [Peers -> Calls]
    BY <1>9, TakeNextType DEF RelayedFork, TypeOK
  <2>2. saves' \in Seq(Saves)
    BY <1>1, <1>9, FreeType DEF RelayedFork
  <2> QED
    BY <1>1, <1>2, <1>9, <2>1, <2>2 DEF RelayedFork, TypeOK, CheckpointsKept
<1>10. CASE RelayedReorganizes(p, b)
  <2> DEFINE fork == Walk(Kept(b) \cup {b}, b)
             main == MainChain(Kept(b) \cup {b})
  <2>1. SaveBlocks(blocks', b, SaveCount(b)) \in SUBSET Blocks
    BY WalkType DEF SaveBlocks
  <2>2. OrphanIndex(orphans)' /\ estimatedHeight' \in Nat /\ calls' \in [Peers -> Calls]
    BY <1>10, <2>1, TakeNextType, WaitingType DEF RelayedReorganizes
  <2>3. saves' \in Seq(Saves)
    BY <1>1, <1>10, FreeType DEF RelayedReorganizes
  <2>4. Reorganized(fork, main) \in [Txs -> Nat]
    <3> DEFINE join == Height[Highest(fork \cap main)]
    <3>1. {x \in fork : Height[x] > join} \subseteq Blocks
      BY WalkType
    <3>2. SetTxUnconfirmedAfter(join) \in [Txs -> Nat]
      BY UnconfirmType
    <3> QED
      BY <3>1, <3>2, UpdateType DEF Reorganized
  <2>5. txHeight' \in [Txs -> Nat] /\ running' \in BOOLEAN
    <3>1. \/ txHeight' = Reorganized(fork, main) /\ UNCHANGED running
          \/ txHeight' = SetTxUnconfirmedAfter(Min(Heights(main)) - 1) /\ UNCHANGED running
          \/ running' = FALSE /\ UNCHANGED txHeight
      BY <1>10 DEF RelayedReorganizes
    <3> HIDE DEF fork, main
    <3> QED
      BY <2>4, <3>1, UnconfirmType DEF TypeOK
  <2> QED
    BY <1>1, <1>2, <1>10, <2>2, <2>3, <2>5 DEF RelayedReorganizes, TypeOK, CheckpointsKept
<1> QED
  BY <1>0, <1>3, <1>4, <1>5, <1>6, <1>7, <1>8, <1>9, <1>10 DEF PeerRelayedBlock

\* A relayed block leaves lastBlock in blocks and no verified block above it.
LEMMA RelayBest ==
    ASSUME Safe, NEW p \in Peers, NEW b \in Blocks, NEW known \in BOOLEAN,
           PeerRelayedBlock(p, b, known)
    PROVE  LastBlockIsBest'
<1> USE DEF Safe, Typed
<1>1. Prev[b] \in blocks => lastBlock \in Kept(b)
  BY LastBlockSurvives
<1>2. Kept(b) \subseteq blocks
  BY DEF Kept
<1>3. \A x \in blocks : Height[x] \in Nat
  BY BlocksAssumption DEF TypeOK
<1>4. Height[b] \in Nat /\ Height[lastBlock] \in Nat
  BY BlocksAssumption DEF TypeOK
<1>5. CASE UNCHANGED <<blocks, lastBlock>>
  BY <1>5 DEF LastBlockIsBest
<1>6. CASE Prev[b] \in blocks /\ blocks' = Kept(b) /\ lastBlock' = lastBlock
  BY <1>1, <1>2, <1>6 DEF LastBlockIsBest
<1>7. CASE /\ Prev[b] \in blocks /\ blocks' = Kept(b) \cup {b} /\ lastBlock' = lastBlock
           /\ Height[b] <= Height[lastBlock]
  BY <1>1, <1>2, <1>7 DEF LastBlockIsBest
<1>8. CASE blocks' = Kept(b) \cup {b} /\ lastBlock' = b /\ Height[b] > Height[lastBlock]
  <2>1. ASSUME NEW x \in Kept(b) \cup {b}, x \notin Checkpoints PROVE Height[x] <= Height[b]
    <3>1. CASE x = b
      BY <1>4, <3>1
    <3>2. CASE x # b
      <4>1. x \in blocks /\ Height[x] <= Height[lastBlock]
        BY <1>2, <2>1, <3>2 DEF LastBlockIsBest
      <4> QED
        BY <1>3, <1>4, <1>8, <4>1
    <3> QED
      BY <3>1, <3>2
  <2> QED
    BY <1>8, <2>1 DEF LastBlockIsBest
<1>9. RelayedNext(p, b) => Height[b] > Height[lastBlock]
  BY <1>4, BlocksAssumption DEF RelayedNext, TypeOK
<1> QED
  BY <1>5, <1>6, <1>7, <1>8, <1>9
  DEF PeerRelayedBlock, RelayedIgnored, RelayedOrphan, RelayedInvalid, RelayedNext, RelayedExisting, RelayedEarly,
      RelayedOldFork, RelayedFork, RelayedReorganizes, NewBlock, Accepted, Kept

\* The other steps of the threads and of the database leave the chain alone.
LEMMA OtherTyped ==
    ASSUME Typed,
           \/ \E p \in Peers : SaveCallback(p) \/ DownloadPeer(p)
           \/ LoadBloomFilter /\ UNCHANGED estimatedHeight
           \/ WriteBlocks
    PROVE  Typed' /\ UNCHANGED <<blocks, lastBlock>>
<1> USE DEF Typed
<1>1. ASSUME NEW p \in Peers, SaveCallback(p) PROVE Typed' /\ UNCHANGED <<blocks, lastBlock>>
  <2>1. calls[p] \in Calls
    BY DEF TypeOK
  <2>2. saves' \in Seq(Saves)
    <3>1. [replace |-> calls[p].replace, blocks |-> calls[p].save,
           freed |-> calls[p].save \ blocks] \in Saves
      BY <2>1 DEF Calls, Saves
    <3> QED
      BY <1>1, <3>1, AppendProperties DEF SaveCallback, TypeOK
  <2>3. calls' \in [Peers -> Calls]
    BY <1>1, <2>1 DEF SaveCallback, TypeOK, Calls
  <2> QED
    BY <1>1, <2>2, <2>3 DEF SaveCallback, chainVars, TypeOK, CheckpointsKept, OrphanIndex
<1>2. ASSUME LoadBloomFilter, estimatedHeight' \in Nat PROVE Typed' /\ UNCHANGED <<blocks, lastBlock>>
  BY <1>2 DEF LoadBloomFilter, TypeOK, CheckpointsKept, OrphanIndex
<1>4. ASSUME NEW p \in Peers, DownloadPeer(p) PROVE estimatedHeight' \in Nat /\ LoadBloomFilter
  BY <1>4, ParametersAssumption DEF DownloadPeer
<1>5. UNCHANGED estimatedHeight => estimatedHeight' \in Nat
  BY DEF TypeOK
<1>3. ASSUME WriteBlocks PROVE Typed' /\ UNCHANGED <<blocks, lastBlock>>
  <2>1. saves # <<>> /\ saves \in Seq(Saves)
    BY <1>3 DEF WriteBlocks, TypeOK
  <2>2. Head(saves) \in Saves /\ Tail(saves) \in Seq(Saves)
    BY <2>1, HeadTailProperties
  <2>3. \A b \in Blocks : Row(b) \in Rows
    BY BlocksAssumption DEF Row, Rows, BlockIds
  <2>4. PICK readable \in SUBSET Head(saves).freed :
          saved' = LET written == {Row(b) : b \in (Head(saves).blocks \ Head(saves).freed) \cup readable}
                   IN  IF Head(saves).replace THEN written ELSE saved \cup written
    BY <1>3 DEF WriteBlocks
  <2>5. saved' \subseteq Rows
    BY <2>2, <2>3, <2>4 DEF Saves, TypeOK
  <2> QED
    BY <1>3, <2>2, <2>5 DEF WriteBlocks, chainVars, TypeOK, CheckpointsKept, OrphanIndex
<1> QED
  BY <1>1, <1>2, <1>3, <1>4, <1>5

\* A step of the threads or of the database.
LEMMA NextTyped ==
    ASSUME Typed, Next
    PROVE  Typed'
<1>1. ASSUME NEW p \in Peers, NEW b \in Blocks, BlockArrives(p, b) PROVE Typed'
  BY <1>1, RelayTyped DEF BlockArrives
<1>2. ASSUME NEW p \in Peers, RelayNext(p) PROVE Typed'
  <2>1. calls[p].next \in Blocks /\ calls[p].known \in BOOLEAN
    BY <1>2 DEF RelayNext, Typed, TypeOK, Calls, BlockIds
  <2> QED
    BY <1>2, <2>1, RelayTyped DEF RelayNext
<1> QED
  BY <1>1, <1>2, OtherTyped DEF Next

\* Nor does such a step touch lastBlock but for a better block.
LEMMA NextBest ==
    ASSUME Safe, Next
    PROVE  LastBlockIsBest'
<1>1. ASSUME NEW p \in Peers, NEW b \in Blocks, BlockArrives(p, b) PROVE LastBlockIsBest'
  BY <1>1, RelayBest DEF BlockArrives
<1>2. ASSUME NEW p \in Peers, RelayNext(p) PROVE LastBlockIsBest'
  <2>1. calls[p].next \in Blocks /\ calls[p].known \in BOOLEAN
    BY <1>2 DEF RelayNext, Safe, Typed, TypeOK, Calls, BlockIds
  <2> QED
    BY <1>2, <2>1, RelayBest DEF RelayNext
<1>3. ASSUME UNCHANGED <<blocks, lastBlock>> PROVE LastBlockIsBest'
  BY <1>3 DEF Safe, LastBlockIsBest
<1> QED
  BY <1>1, <1>2, <1>3, OtherTyped DEF Next, Safe

\* The chain a restart loads ends in its highest block.
LEMMA RestartSafe ==
    ASSUME Typed, Restart
    PROVE  Safe'
<1> USE DEF Typed
<1>1. PICK index \in Indexes(saved), loaded \in SUBSET saved : BRPeerManagerNew(index, loaded)
  BY DEF Restart, Loaded
<1> DEFINE chain == {r.block : r \in loaded}
<1>2. chain \subseteq Blocks /\ saved \subseteq Rows
  BY DEF TypeOK, Rows
<1>3. blocks' = Checkpoints \cup chain /\ stubs' \subseteq Checkpoints
  BY <1>1 DEF BRPeerManagerNew
<1>4. lastBlock' = IF chain = {} THEN StartCheckpoint ELSE Highest(chain)
  BY <1>1 DEF BRPeerManagerNew
<1>5. lastBlock' \in blocks' /\ \A x \in chain : Height[x] <= Height[lastBlock']
  <2> HIDE DEF chain
  <2> QED
    BY <1>2, <1>3, <1>4, HighestBlock, CheckpointsAssumption
<1>6. OrphanIndex(orphans)'
  <2>1. DOMAIN index \subseteq BlockIds /\ \A q \in DOMAIN index : index[q].block \in Blocks
    BY <1>2 DEF Indexes, Rows
  <2>2. orphans' = [q \in DOMAIN index \ {r.prevBlock : r \in loaded} |->
                       [block |-> index[q].block, known |-> TRUE]]
    BY <1>1 DEF BRPeerManagerNew
  <2> QED
    BY <2>1, <2>2 DEF OrphanIndex
<1>7. calls' \in [Peers -> Calls]
  <2>1. Idle \in Calls
    BY DEF Idle, Calls, BlockIds
  <2> QED
    BY <2>1 DEF Restart
<1>8. /\ estimatedHeight' \in Nat /\ saves' \in Seq(Saves) /\ saved' \subseteq Rows
      /\ txHeight' \in [Txs -> Nat] /\ running' \in BOOLEAN
  BY DEF Restart, TypeOK
<1>9. blocks' \subseteq Blocks /\ lastBlock' \in Blocks
  BY <1>2, <1>3, <1>5, CheckpointsAssumption
<1> HIDE DEF chain
<1> QED
  BY <1>3, <1>5, <1>6, <1>7, <1>8, <1>9 DEF Safe, TypeOK, CheckpointsKept, LastBlockIsBest

\* A rescan starts from a block of the tree.
LEMMA RescanTyped ==
    ASSUME Typed, Rescan
    PROVE  Typed'
<1> USE DEF Typed
<1>1. Checkpoints \subseteq Blocks /\ Checkpoints # {} /\ StartCheckpoint \in Checkpoints
  BY CheckpointsAssumption
<1>2. MainChain(blocks) \subseteq Blocks
  BY WalkType DEF MainChain, TypeOK
<1>3. \A n : BlockFromNumber(n) \in Blocks
  <2> TAKE n
  <2> DEFINE found == {b \in MainChain(blocks) \cup Checkpoints : Height[b] = n}
             before == {c \in Checkpoints : Height[c] < n}
  <2>1. found \cap MainChain(blocks) # {} => Highest(found \cap MainChain(blocks)) \in Blocks
    BY <1>2, HighestBlock
  <2>2. found # {} => Highest(found) \in Blocks
    BY <1>1, <1>2, HighestBlock
  <2>3. before # {} => Highest(before) \in Blocks
    BY <1>1, HighestBlock
  <2>4. (CHOOSE c \in Checkpoints : \A d \in Checkpoints : Height[c] <= Height[d]) \in Blocks
    <3>1. \E c \in Checkpoints : \A d \in Checkpoints : Height[c] <= Height[d]
      <4>1. Heights(Checkpoints) \subseteq Nat /\ Heights(Checkpoints) # {}
        BY <1>1, BlocksAssumption DEF Heights
      <4>2. PICK n0 \in Heights(Checkpoints) : \A m \in Heights(Checkpoints) : n0 <= m
        BY <4>1, NatMin
      <4> QED
        BY <4>2 DEF Heights
    <3> QED
      BY <1>1, <3>1
  <2> QED
    BY <2>1, <2>2, <2>3, <2>4 DEF BlockFromNumber
<1>4. Highest(Checkpoints) \in Blocks
  BY <1>1, HighestBlock
<1>5. lastBlock' \in Blocks
  BY <1>1, <1>3, <1>4 DEF Rescan
<1> QED
  BY <1>5 DEF Rescan, TypeOK, CheckpointsKept, OrphanIndex

\* Before anything is relayed the chain is the starting checkpoint.
LEMMA InitSafe ==
    ASSUME Init
    PROVE  Safe
<1>1. Idle \in Calls
  BY DEF Idle, Calls, BlockIds
<1>2. OrphanIndex(<<>>)
  BY DEF OrphanIndex
<1> QED
  BY <1>1, <1>2, CheckpointsAssumption, ParametersAssumption
  DEF Init, Safe, Typed, TypeOK, CheckpointsKept, LastBlockIsBest

(***************************************************************************)
(* The theorems.                                                           *)
(***************************************************************************)
\* Safe is inductive through relayed blocks, database writes and restarts.
THEOREM SafeInvariant == SpecRestart => []Safe
<1>1. ASSUME Safe, [NextRestart]_vars PROVE Safe'
  <2>1. CASE Next
    BY <1>1, <2>1, NextTyped, NextBest DEF Safe
  <2>2. CASE Restart
    BY <1>1, <2>2, RestartSafe DEF Safe
  <2>3. CASE UNCHANGED vars
    BY <1>1, <2>3 DEF Safe, Typed, TypeOK, CheckpointsKept, LastBlockIsBest, OrphanIndex, vars, chainVars
  <2> QED
    BY <1>1, <2>1, <2>2, <2>3 DEF NextRestart
<1> QED
  BY <1>1, InitSafe, PTL DEF SpecRestart

\* Every variable keeps its type, for any number of peers, any tree and any restarts.
THEOREM TypeCorrect == SpecRestart => []TypeOK
  BY SafeInvariant, PTL DEF Safe, Typed

\* manager->lastBlock is never freed and is the best verified block, whatever blocks
\* the peers relay in which order, and after every restart.
THEOREM LastBlockCorrect == SpecRestart => []LastBlockIsBest
  BY SafeInvariant, PTL DEF Safe

\* The checkpoints stay in manager->blocks through relayed blocks, rescans and restarts.
THEOREM CheckpointsCorrect == Init /\ [][NextRestart \/ Rescan]_vars => []CheckpointsKept
<1>1. Init => Typed
  BY InitSafe DEF Safe
<1>2. ASSUME Typed, [NextRestart \/ Rescan]_vars PROVE Typed'
  <2>1. CASE UNCHANGED vars
    BY <1>2, <2>1 DEF Typed, TypeOK, CheckpointsKept, OrphanIndex, vars, chainVars
  <2>2. CASE Restart
    BY <1>2, <2>2, RestartSafe DEF Safe
  <2> QED
    BY <1>2, <2>1, <2>2, NextTyped, RescanTyped DEF NextRestart
<1>3. Typed => CheckpointsKept
  BY DEF Typed
<1> QED
  BY <1>1, <1>2, <1>3, PTL
=============================================================================
