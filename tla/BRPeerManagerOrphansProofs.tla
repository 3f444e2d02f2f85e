--------------------- MODULE BRPeerManagerOrphansProofs ---------------------
(***************************************************************************)
(* No orphan is forgotten: the theorem OrphansWaitCorrect, for every block *)
(* tree, every set of checkpoints and any number of peers.                 *)
(***************************************************************************)
EXTENDS BRPeerManagerChainProofs

(***************************************************************************)
(* Heights along a branch.                                                 *)
(***************************************************************************)
\* The ancestors of a block are below it.
LEMMA AncestorsBelow ==
    ASSUME NEW b \in Blocks, NEW x \in Ancestors[b]
    PROVE  x \in Blocks /\ Height[x] < Height[b]
<1> DEFINE High(y) == \E z \in Ancestors[y] : ~ (Height[z] < Height[y])
           Bad == {Height[y] : y \in {z \in Blocks : High(z)}}
<1>1. \A y \in Blocks : Height[y] \in Nat /\ Ancestors[y] \subseteq Blocks
  BY BlocksAssumption, AncestorsAssumption
<1>2. Bad = {}
  <2> SUFFICES ASSUME Bad # {} PROVE FALSE
    OBVIOUS
  <2>1. Bad \subseteq Nat
    BY <1>1
  <2>2. PICK n \in Bad : \A m \in Bad : n <= m
    <3> HIDE DEF Bad
    <3> QED BY <2>1, NatMin
  <2>3. PICK y \in Blocks : High(y) /\ Height[y] = n
    BY <2>2
  <2>4. PICK z \in Ancestors[y] : ~ (Height[z] < Height[y])
    BY <2>3
  <2>5. /\ Prev[y] \in Blocks /\ Height[y] = Height[Prev[y]] + 1
        /\ Ancestors[y] = {Prev[y]} \cup Ancestors[Prev[y]]
    BY <2>4, BlocksAssumption, AncestorsAssumption
  <2>6. ~ High(Prev[y])
    <3> SUFFICES ASSUME High(Prev[y]) PROVE FALSE
      OBVIOUS
    <3>1. Height[Prev[y]] \in Bad
      <4> HIDE DEF High
      <4> QED BY <2>5
    <3>2. n <= Height[Prev[y]]
      BY <2>2, <3>1
    <3> QED
      BY <1>1, <2>3, <2>5, <3>2
  <2>7. Height[z] <= Height[Prev[y]]
    BY <1>1, <2>4, <2>5, <2>6
  <2> QED
    BY <1>1, <2>4, <2>5, <2>7
<1> QED
  BY <1>1, <1>2

\* A walk back from a block whose parent is a bare checkpoint ends there.
LEMMA WalkEndsAtStub ==
    ASSUME NEW S, NEW b \in Blocks, Prev[b] \in stubs, Prev[b] \in Blocks
    PROVE  Walk(S, b) \subseteq {b, Prev[b]}
<1>1. Ancestors[b] = {Prev[b]} \cup Ancestors[Prev[b]]
  BY BlocksAssumption, AncestorsAssumption
<1>2. \A x \in Ancestors[Prev[b]] : Height[x] < Height[Prev[b]] /\ Height[x] \in Nat
  BY AncestorsBelow, BlocksAssumption
<1>3. ASSUME NEW x \in Linked(S, b) PROVE x = Prev[b]
  <2>1. x \in Ancestors[b] /\ ~ (Height[Prev[b]] > Height[x])
    BY <1>1 DEF Linked
  <2> QED
    BY <1>1, <1>2, <2>1, BlocksAssumption
<1> QED
  BY <1>3 DEF Walk

\* The walk from lastBlock stays at or below it.
LEMMA MainChainBelow ==
    ASSUME TypeOK, NEW S
    PROVE  /\ lastBlock \in MainChain(S) /\ MainChain(S) \subseteq Blocks
           /\ \A x \in MainChain(S) : Height[x] <= Height[lastBlock]
<1>1. lastBlock \in Blocks /\ \A x \in Blocks : Height[x] \in Nat
  BY BlocksAssumption DEF TypeOK
<1>2. \A x \in Walk(S, lastBlock) : x \in Blocks /\ Height[x] <= Height[lastBlock]
  BY <1>1, AncestorsBelow DEF Walk, Linked
<1>3. lastBlock \in Walk(S, lastBlock)
  BY DEF Walk
<1> QED
  BY <1>1, <1>2, <1>3 DEF MainChain

(***************************************************************************)
(* The inductive invariant.                                                *)
(***************************************************************************)
\* the checkpoints that sync has not come to are bare
AheadAreStubs == \A c \in Checkpoints : Height[c] > Height[lastBlock] => c \in stubs

\* below the most recent checkpoint no fork is as high as lastBlock
OneBranchBelow ==
    \A x \in blocks \ Checkpoints :
        Height[x] = Height[lastBlock] /\ Height[x] < Height[Highest(Checkpoints)] => x = lastBlock

Waits == \A q \in DOMAIN orphans :
            /\ Prev[orphans[q].block] = q
            /\ q \in blocks => q \in Checkpoints /\ Height[q] > Height[lastBlock]

Fresh == OneBranchBelow /\ AheadAreStubs /\ Waits
SafeFresh == Safe /\ (running => Fresh)

\* A block that is higher than lastBlock by more than one follows a checkpoint.
LEMMA ParentIsCheckpoint ==
    ASSUME TypeOK, LastBlockIsBest, NEW b \in Blocks, Prev[b] \in blocks,
           Height[b] > Height[lastBlock] + 1
    PROVE  Prev[b] \in Checkpoints /\ Height[Prev[b]] > Height[lastBlock]
<1>1. Prev[b] \in Blocks /\ lastBlock \in Blocks
  BY DEF TypeOK
<1>2. /\ Height[b] = Height[Prev[b]] + 1
      /\ Height[Prev[b]] \in Nat /\ Height[lastBlock] \in Nat
  BY <1>1, BlocksAssumption
<1>3. Height[Prev[b]] > Height[lastBlock]
  BY <1>2
<1> QED
  BY <1>2, <1>3 DEF LastBlockIsBest

\* The most recent checkpoint is the highest one.
LEMMA MostRecentCheckpoint ==
    /\ Highest(Checkpoints) \in Blocks
    /\ \A c \in Checkpoints : Height[c] <= Height[Highest(Checkpoints)]
  BY HighestBlock, CheckpointsAssumption

(***************************************************************************)
(* The branches of _peerRelayedBlock.                                      *)
(***************************************************************************)
\* The branches that leave lastBlock and the stubs alone and add no block.
LEMMA FreshUnchanged ==
    ASSUME Safe, Fresh, blocks' \subseteq blocks,
           UNCHANGED <<stubs, lastBlock>>, Waits'
    PROVE  Fresh'
  BY DEF Fresh, OneBranchBelow, AheadAreStubs

\* With no block added, fewer orphans wait as before.
LEMMA WaitsFewer ==
    ASSUME Waits, blocks' \subseteq blocks, UNCHANGED lastBlock,
           DOMAIN orphans' \subseteq DOMAIN orphans,
           \A q \in DOMAIN orphans' : orphans'[q] = orphans[q]
    PROVE  Waits'
  BY DEF Waits

\* The block itself is kept as an orphan, as its parent is missing.
LEMMA OrphanFresh ==
    ASSUME Safe, Fresh, NEW p \in Peers, NEW b \in Blocks, NEW known \in BOOLEAN,
           RelayedOrphan(p, b, known)
    PROVE  Fresh'
<1>1. Prev[b] \notin blocks /\ blocks' = blocks /\ UNCHANGED <<stubs, lastBlock>>
  BY DEF RelayedOrphan
<1>2. CASE Dropped(p)
  BY <1>1, <1>2, WaitsFewer, FreshUnchanged DEF Dropped, Fresh
<1>3. CASE ~ Dropped(p)
  <2>1. /\ DOMAIN orphans' \subseteq DOMAIN AddOrphan(b, known)
        /\ \A q \in DOMAIN orphans' : orphans'[q] = AddOrphan(b, known)[q]
    <3>1. CASE known
      <4>1. known = TRUE /\ TakeNext(p, b, {}, AddOrphan(b, TRUE))
        BY <1>3, <3>1 DEF RelayedOrphan
      <4> QED
        BY <4>1 DEF TakeNext, Restrict
    <3>2. CASE ~ known
      <4>1. known = FALSE /\ orphans' = AddOrphan(b, FALSE)
        BY <1>3, <3>2 DEF RelayedOrphan
      <4> QED
        BY <4>1
    <3> QED
      BY <3>1, <3>2
  <2>2. Waits'
    <3>1. ASSUME NEW q \in DOMAIN orphans'
          PROVE  /\ Prev[orphans'[q].block] = q
                 /\ q \in blocks => q \in Checkpoints /\ Height[q] > Height[lastBlock]
      <4>1. CASE q = Prev[b]
        <5>0. orphans'[q] = [block |-> b, known |-> known]
          BY <2>1, <4>1 DEF AddOrphan
        <5>1. PICK k : orphans'[q] = [block |-> b, known |-> k]
          BY <5>0, Zenon
        <5>2. orphans'[q].block = b
          BY <5>1
        <5> QED
          BY <1>1, <4>1, <5>2
      <4>2. CASE q # Prev[b]
        <5>1. q \in DOMAIN orphans /\ orphans'[q] = orphans[q]
          BY <2>1, <4>2 DEF AddOrphan
        <5> QED
          BY <5>1 DEF Fresh, Waits
      <4> QED
        BY <4>1, <4>2
    <3> QED
      BY <1>1, <3>1 DEF Waits
  <2> QED
    BY <1>1, <2>2, FreshUnchanged
<1> QED
  BY <1>2, <1>3

\* The block extends the main chain: it is no waiting orphan's parent any more, and a
\* checkpoint at its height would be the block itself.
LEMMA NextFresh ==
    ASSUME Safe, Fresh, NEW p \in Peers, NEW b \in Blocks, RelayedNext(p, b)
    PROVE  Fresh'
<1>1. /\ Prev[b] = lastBlock /\ blocks' = Kept(b) \cup {b} /\ Kept(b) \subseteq blocks
      /\ stubs' = stubs \ {b} /\ lastBlock' = b /\ Verified(b)
  BY DEF RelayedNext, Accepted, Kept
<1>2. /\ lastBlock \in Blocks /\ blocks \subseteq Blocks
      /\ \A x \in Blocks : Height[x] \in Nat
      /\ Height[b] = Height[lastBlock] + 1
  BY <1>1, BlocksAssumption DEF Safe, Typed, TypeOK
<1>3. OneBranchBelow'
  <2>1. \A x \in blocks \ Checkpoints : Height[x] < Height[b]
    BY <1>2 DEF Safe, LastBlockIsBest
  <2> QED
    BY <1>1, <1>2, <2>1 DEF OneBranchBelow
<1>4. AheadAreStubs'
  BY <1>1, <1>2, CheckpointsAssumption DEF AheadAreStubs, Fresh
<1>5. Waits'
  <2>1. PICK waiting \in Waiting(b) :
          TakeNext(p, b, SaveBlocks(blocks', b, SaveCount(b)), waiting)
    BY DEF RelayedNext
  <2>2. /\ DOMAIN orphans' \subseteq DOMAIN orphans /\ b \notin DOMAIN orphans'
        /\ \A q \in DOMAIN orphans' : orphans'[q] = orphans[q]
    BY <2>1 DEF Waiting, TakeNext, Restrict
  <2>3. ASSUME NEW q \in DOMAIN orphans', q \in blocks
        PROVE  q \in Checkpoints /\ Height[q] > Height[b]
    <3>1. q \in Checkpoints /\ Height[q] > Height[lastBlock] /\ q # b
      BY <2>2, <2>3 DEF Fresh, Waits
    <3>2. Height[q] # Height[b]
      <4> SUFFICES ASSUME Height[q] = Height[b] PROVE FALSE
        OBVIOUS
      <4>1. b \in Checkpoints
        BY <1>1, <3>1 DEF Verified, Heights
      <4> QED
        BY <3>1, <4>1, CheckpointsAssumption
    <3> QED
      BY <1>2, <2>3, <3>1, <3>2
  <2>4. \A q \in DOMAIN orphans' : Prev[orphans'[q].block] = q
    BY <2>2 DEF Fresh, Waits
  <2> QED
    BY <1>1, <2>2, <2>3, <2>4 DEF Waits
<1> QED
  BY <1>3, <1>4, <1>5 DEF Fresh

\* The block is there already. A bare checkpoint ahead is not replaced: its parent would
\* be as high as lastBlock, and below the checkpoints only lastBlock itself is.
LEMMA ExistingFresh ==
    ASSUME Safe, Fresh, NEW p \in Peers, NEW b \in Blocks, RelayedExisting(p, b), running'
    PROVE  Fresh'
<1>1. /\ Prev[b] \in blocks /\ Prev[b] # lastBlock /\ lastBlock' = lastBlock
      /\ blocks' = Kept(b) /\ Kept(b) \subseteq blocks /\ stubs' \in {stubs, stubs \ {b}}
      /\ TakeNext(p, b, {}, orphans)
  BY DEF RelayedExisting, Accepted, Kept
<1>2. /\ lastBlock \in Blocks /\ blocks \subseteq Blocks /\ Prev[b] \in Blocks
      /\ \A x \in Blocks : Height[x] \in Nat
      /\ Height[b] = Height[Prev[b]] + 1
  BY <1>1, BlocksAssumption DEF Safe, Typed, TypeOK
<1>3. OneBranchBelow'
  BY <1>1 DEF Fresh, OneBranchBelow
<1>4. AheadAreStubs'
  <2> SUFFICES ASSUME b \in Checkpoints, Height[b] > Height[lastBlock] PROVE FALSE
    BY <1>1 DEF Fresh, AheadAreStubs
  <2>1. Prev[b] \notin Checkpoints
    BY <1>2, TransitionsApart, CheckpointsAssumption
  <2>2. Height[Prev[b]] <= Height[lastBlock]
    BY <1>1, <2>1 DEF Safe, LastBlockIsBest
  <2>3. Height[Prev[b]] = Height[lastBlock]
    BY <1>2, <2>2
  <2>4. Height[Prev[b]] < Height[Highest(Checkpoints)]
    BY <1>2, MostRecentCheckpoint
  <2> QED
    BY <1>1, <2>1, <2>3, <2>4 DEF Fresh, OneBranchBelow
<1>5. Waits'
  BY <1>1, WaitsFewer DEF Fresh, TakeNext, Restrict
<1> QED
  BY <1>3, <1>4, <1>5 DEF Fresh

\* A block mined during a rescan waits behind a checkpoint that lies ahead.
LEMMA EarlyFresh ==
    ASSUME Safe, Fresh, NEW p \in Peers, NEW b \in Blocks, RelayedEarly(p, b)
    PROVE  Fresh'
<1>1. /\ Prev[b] \in blocks /\ Height[b] > Height[lastBlock] + 1
      /\ blocks' = Kept(b) /\ Kept(b) \subseteq blocks
      /\ UNCHANGED <<stubs, lastBlock>>
      /\ TakeNext(p, b, {}, AddOrphan(b, TRUE))
  BY DEF RelayedEarly, NewBlock, Accepted, Postponed, Kept
<1>2. Prev[b] \in Checkpoints /\ Height[Prev[b]] > Height[lastBlock]
  BY <1>1, ParentIsCheckpoint DEF Safe, Typed
<1>3. /\ DOMAIN orphans' \subseteq DOMAIN AddOrphan(b, TRUE)
      /\ \A q \in DOMAIN orphans' : orphans'[q] = AddOrphan(b, TRUE)[q]
  BY <1>1 DEF TakeNext, Restrict
<1>4. Waits'
  <2>1. ASSUME NEW q \in DOMAIN orphans'
        PROVE  /\ Prev[orphans'[q].block] = q
               /\ q \in blocks => q \in Checkpoints /\ Height[q] > Height[lastBlock]
    <3>1. CASE q = Prev[b]
      <4>1. orphans'[q] = [block |-> b, known |-> TRUE]
        BY <1>3, <3>1 DEF AddOrphan
      <4> QED
        BY <1>2, <3>1, <4>1
    <3>2. CASE q # Prev[b]
      <4>1. q \in DOMAIN orphans /\ orphans'[q] = orphans[q]
        BY <1>3, <3>2 DEF AddOrphan
      <4> QED
        BY <4>1 DEF Fresh, Waits
    <3> QED
      BY <3>1, <3>2
  <2> QED
    BY <1>1, <2>1 DEF Waits
<1> QED
  BY <1>1, <1>4, FreshUnchanged

\* A fork is kept only above the most recent checkpoint.
LEMMA ForkFresh ==
    ASSUME Safe, Fresh, NEW p \in Peers, NEW b \in Blocks, RelayedFork(p, b)
    PROVE  Fresh'
<1>1. /\ blocks' = Kept(b) \cup {b} /\ Kept(b) \subseteq blocks
      /\ UNCHANGED <<stubs, lastBlock>>
      /\ TakeNext(p, b, {}, orphans)
      /\ ~ (Height[b] <= Height[Highest(Checkpoints)])
  BY DEF RelayedFork, OldFork, Kept
<1>2. \A x \in Blocks : Height[x] \in Nat
  BY BlocksAssumption
<1>3. OneBranchBelow'
  BY <1>1, <1>2, MostRecentCheckpoint DEF Fresh, OneBranchBelow
<1>4. AheadAreStubs'
  BY <1>1 DEF Fresh, AheadAreStubs
<1>5. Waits'
  <2>1. /\ DOMAIN orphans' = DOMAIN orphans \ {b}
        /\ \A q \in DOMAIN orphans' : orphans'[q] = orphans[q]
    BY <1>1 DEF TakeNext, Restrict
  <2> QED
    BY <1>1, <2>1 DEF Fresh, Waits
<1> QED
  BY <1>3, <1>4, <1>5 DEF Fresh

\* A block far above lastBlock that reorganises the chain follows a bare checkpoint: the
\* walks do not meet, and the code does not come through.
LEMMA NoJumpOverCheckpoints ==
    ASSUME Safe, Fresh, NEW p \in Peers, NEW b \in Blocks, RelayedReorganizes(p, b),
           Height[b] > Height[lastBlock] + 1
    PROVE  ~ running'
<1> DEFINE S == Kept(b) \cup {b}
           fork == Walk(S, b)
           main == MainChain(S)
           bottom == Min(Heights(main))
<1>1. /\ CASE fork \cap main # {} -> txHeight' = Reorganized(fork, main) /\ UNCHANGED running
           [] fork \cap main = {} /\ bottom - 1 \in Heights(fork) ->
                txHeight' = SetTxUnconfirmedAfter(bottom - 1) /\ UNCHANGED running
           [] OTHER -> running' = FALSE /\ UNCHANGED txHeight
      /\ Prev[b] \in blocks
  BY DEF RelayedReorganizes, NewBlock, Accepted
<1>2. /\ lastBlock \in Blocks /\ Prev[b] \in Blocks
      /\ \A x \in Blocks : Height[x] \in Nat
      /\ Height[b] = Height[Prev[b]] + 1
  BY <1>1, BlocksAssumption DEF Safe, Typed, TypeOK
<1>3. Prev[b] \in Checkpoints /\ Height[Prev[b]] > Height[lastBlock]
  BY <1>1, ParentIsCheckpoint DEF Safe, Typed
<1>4. fork \subseteq {b, Prev[b]}
  BY <1>2, <1>3, WalkEndsAtStub DEF Fresh, AheadAreStubs
<1>5. /\ lastBlock \in main /\ main \subseteq Blocks
      /\ \A x \in main : Height[x] <= Height[lastBlock]
  BY MainChainBelow DEF Safe, Typed
<1>6. fork \cap main = {}
  <2> HIDE DEF fork, main
  <2>1. \A x \in main : Height[x] < Height[Prev[b]]
    BY <1>2, <1>3, <1>5
  <2>2. Height[Prev[b]] < Height[b]
    BY <1>2
  <2> QED
    BY <1>2, <1>4, <1>5, <2>1, <2>2
<1>7. bottom - 1 \notin Heights(fork)
  <2>1. Heights(main) \subseteq Nat /\ Heights(main) # {}
    BY <1>2, <1>5 DEF Heights
  <2>2. bottom \in Heights(main)
    BY <2>1, MinInSet
  <2>3. bottom \in Nat /\ bottom <= Height[lastBlock]
    BY <1>2, <1>5, <2>2 DEF Heights
  <2>4. \A h \in Heights(fork) : h > Height[lastBlock]
    BY <1>2, <1>3, <1>4 DEF Heights
  <2> HIDE DEF bottom, fork
  <2> QED
    BY <1>2, <2>3, <2>4
<1> HIDE DEF fork, main, bottom
<1> QED
  BY <1>1, <1>6, <1>7

\* Otherwise the new main chain is one block higher, and above all checkpoints.
LEMMA ReorganizesFresh ==
    ASSUME Safe, Fresh, NEW p \in Peers, NEW b \in Blocks, RelayedReorganizes(p, b), running'
    PROVE  Fresh'
<1>1. /\ blocks' = Kept(b) \cup {b} /\ Kept(b) \subseteq blocks /\ blocks \subseteq Blocks
      /\ lastBlock' = b /\ UNCHANGED stubs
      /\ Height[b] > Height[lastBlock]
      /\ ~ (Height[b] <= Height[Highest(Checkpoints)])
  BY DEF RelayedReorganizes, OldFork, Kept, Safe, Typed, TypeOK
<1>2. /\ lastBlock \in Blocks /\ Checkpoints \subseteq Blocks
      /\ \A x \in Blocks : Height[x] \in Nat
  BY BlocksAssumption, CheckpointsAssumption DEF Safe, Typed, TypeOK
<1>3. \A c \in Checkpoints : Height[c] < Height[b]
  BY <1>1, <1>2, MostRecentCheckpoint
<1>4. Height[b] = Height[lastBlock] + 1
  BY <1>1, <1>2, NoJumpOverCheckpoints
<1>5. OneBranchBelow'
  BY <1>1, <1>2, MostRecentCheckpoint DEF OneBranchBelow
<1>6. AheadAreStubs'
  BY <1>1, <1>2, <1>3 DEF AheadAreStubs
<1>7. Waits'
  <2>1. PICK waiting \in Waiting(b) :
          TakeNext(p, b, SaveBlocks(blocks', b, SaveCount(b)), waiting)
    BY DEF RelayedReorganizes
  <2>2. /\ DOMAIN orphans' \subseteq DOMAIN orphans /\ b \notin DOMAIN orphans'
        /\ \A q \in DOMAIN orphans' : orphans'[q] = orphans[q]
    BY <2>1 DEF Waiting, TakeNext, Restrict
  <2>3. ASSUME NEW q \in DOMAIN orphans', q \in blocks PROVE FALSE
    <3>1. q \in Checkpoints /\ Height[q] > Height[lastBlock]
      BY <2>2, <2>3 DEF Fresh, Waits
    <3>2. Height[q] < Height[b]
      BY <1>3, <3>1
    <3> QED
      BY <1>2, <1>4, <3>1, <3>2
  <2>4. \A q \in DOMAIN orphans' : Prev[orphans'[q].block] = q
    BY <2>2 DEF Fresh, Waits
  <2> QED
    BY <1>1, <2>2, <2>3, <2>4 DEF Waits
<1> QED
  BY <1>5, <1>6, <1>7 DEF Fresh

(***************************************************************************)
(* The steps.                                                              *)
(***************************************************************************)
\* Whatever branch a relayed block takes.
LEMMA RelayFresh ==
    ASSUME Safe, Fresh, NEW p \in Peers, NEW b \in Blocks, NEW known \in BOOLEAN,
           PeerRelayedBlock(p, b, known), running'
    PROVE  Fresh'
<1>1. CASE RelayedIgnored(p)
  BY <1>1, WaitsFewer, FreshUnchanged DEF RelayedIgnored, Dropped, Fresh
<1>2. CASE RelayedInvalid(p, b)
  BY <1>2, WaitsFewer, FreshUnchanged DEF RelayedInvalid, Dropped, Fresh
<1>3. CASE RelayedOldFork(p, b)
  BY <1>3, WaitsFewer, FreshUnchanged DEF RelayedOldFork, Dropped, Fresh, Kept
<1> QED
  BY <1>1, <1>2, <1>3, OrphanFresh, NextFresh, ExistingFresh, EarlyFresh, ForkFresh,
     ReorganizesFresh
  DEF PeerRelayedBlock

\* Only a relayed block or a new bloom filter changes what waits, and running stays as
\* it is in every step that does not relay one.
LEMMA StepFresh ==
    ASSUME SafeFresh, [Next]_vars
    PROVE  (running => Fresh)'
<1> SUFFICES ASSUME running' PROVE Fresh'
  OBVIOUS
<1>1. ASSUME NEW p \in Peers, NEW b \in Blocks, BlockArrives(p, b) PROVE Fresh'
  BY <1>1, RelayFresh DEF BlockArrives, SafeFresh
<1>2. ASSUME NEW p \in Peers, RelayNext(p) PROVE Fresh'
  <2>1. calls[p].next \in Blocks /\ calls[p].known \in BOOLEAN
    BY <1>2 DEF RelayNext, SafeFresh, Safe, Typed, TypeOK, Calls, BlockIds
  <2> QED
    BY <1>2, <2>1, RelayFresh DEF RelayNext, SafeFresh
<1>3. ASSUME UNCHANGED chainVars PROVE Fresh'
  BY <1>3 DEF chainVars, SafeFresh, Fresh, OneBranchBelow, AheadAreStubs, Waits
<1>4. ASSUME LoadBloomFilter PROVE Fresh'
  BY <1>4 DEF LoadBloomFilter, SafeFresh, Fresh, OneBranchBelow, AheadAreStubs, Waits
<1> QED
  BY <1>1, <1>2, <1>3, <1>4 DEF Next, SaveCallback, WriteBlocks, DownloadPeer, vars

(***************************************************************************)
(* The theorem.                                                            *)
(***************************************************************************)
\* While the peer manager runs, an orphan waits only for a block that is missing or for a
\* checkpoint that sync has not come to: no thread adds a parent and forgets the orphan.
THEOREM OrphansWaitCorrect == Spec => []OrphansWait
<1>1. Init => SafeFresh
  BY InitSafe, CheckpointsAssumption
  DEF Init, SafeFresh, Fresh, OneBranchBelow, AheadAreStubs, Waits
<1>2. ASSUME SafeFresh, [Next]_vars PROVE SafeFresh'
  <2>1. Safe'
    <3>1. CASE UNCHANGED vars
      BY <1>2, <3>1
      DEF SafeFresh, Safe, Typed, TypeOK, CheckpointsKept, LastBlockIsBest, OrphanIndex, vars, chainVars
    <3>2. CASE Next
      BY <1>2, <3>2, NextTyped, NextBest DEF SafeFresh, Safe
    <3> QED
      BY <1>2, <3>1, <3>2
  <2> QED
    BY <1>2, <2>1, StepFresh DEF SafeFresh
<1>3. SafeFresh => OrphansWait
  BY DEF SafeFresh, Fresh, Waits, OrphansWait
<1> QED
  BY <1>1, <1>2, <1>3, PTL DEF Spec
=============================================================================
