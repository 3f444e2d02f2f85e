-------------------- MODULE BRPeerManagerIntervalProofs --------------------
(***************************************************************************)
(* What the chain has since the last difficulty transition at or below     *)
(* lastBlock is never freed and never has a gap: the theorems              *)
(* NextTransitionCorrect, RecentBlocksCorrect and SavesReloadCorrect, for  *)
(* every block tree, difficulty interval, set of checkpoints and number of *)
(* peers, through restarts at any point. The invariant they need is        *)
(* Joined: above that transition the parent of every block is there too.   *)
(* It says nothing of older blocks, and there it is false: a fork stays in *)
(* manager->blocks when the blocks it grew from are freed.                 *)
(*                                                                         *)
(* Without restarts the blocks reach back one interval more (Deep), so     *)
(* that the walks of a reorganisation meet: the peer manager implements    *)
(* FollowedChain, the theorem FollowsChainCorrect.                         *)
(***************************************************************************)
EXTENDS BRPeerManagerOrphansProofs, InductionLemmas

(***************************************************************************)
(* Difficulty intervals.                                                   *)
(***************************************************************************)
\* the height of the last difficulty transition at or below height n
Since(n) == n - (n % D)

\* It is a height at most D - 1 below n.
LEMMA SinceType ==
    ASSUME NEW n \in Nat
    PROVE  Since(n) \in Nat /\ Since(n) <= n /\ Since(n) > n - D
  BY ParametersAssumption DEF Since

\* It is the height of a transition.
LEMMA SinceIsTransition ==
    ASSUME NEW n \in Nat
    PROVE  Since(n) % D = 0
<1>1. n = ((n \div D) * D) + (n % D) /\ (n \div D) \in Nat
  BY ParametersAssumption
<1>2. PICK q \in Nat : n = (q * D) + (n % D)
  BY <1>1
<1>3. Since(n) = q * D
  BY <1>2, ParametersAssumption DEF Since
<1>4. (q * D) % D = 0
  BY ParametersAssumption
<1> QED BY <1>3, <1>4

\* No transition lies between it and n.
LEMMA SinceIsLast ==
    ASSUME NEW n \in Nat, NEW m \in Nat, m % D = 0, m <= n
    PROVE  m <= Since(n)
  BY ParametersAssumption, SMTT(30) DEF Since

\* It grows with n.
LEMMA SinceGrows ==
    ASSUME NEW n \in Nat, NEW m \in Nat, m <= n
    PROVE  Since(m) <= Since(n)
  BY ParametersAssumption DEF Since

\* The last transition of the next height is at most an interval above it.
LEMMA SinceNext ==
    ASSUME NEW n \in Nat
    PROVE  Since(n + 1) \in Nat /\ Since(n + 1) - D <= Since(n)
  BY ParametersAssumption DEF Since

(***************************************************************************)
(* Branches of the block tree.                                             *)
(***************************************************************************)
\* The ancestors of a block are its parent and the parent's ancestors.
LEMMA AncestorsStep ==
    ASSUME NEW b \in Blocks, NEW x \in Ancestors[b]
    PROVE  /\ Prev[b] \in Blocks /\ Height[b] = Height[Prev[b]] + 1
           /\ Ancestors[b] = {Prev[b]} \cup Ancestors[Prev[b]]
  BY BlocksAssumption, AncestorsAssumption

\* A branch has one block of each height, and of two blocks the lower one is an ancestor.
LEMMA BranchOrder ==
    ASSUME NEW b \in Blocks, NEW x \in Chain(b), NEW y \in Chain(b)
    PROVE  /\ Height[x] = Height[y] => x = y
           /\ Height[x] < Height[y] => x \in Ancestors[y]
<1> DEFINE Good(z) == \A u, v \in Chain(z) : /\ Height[u] = Height[v] => u = v
                                             /\ Height[u] < Height[v] => u \in Ancestors[v]
           T == {n \in Nat : \A z \in Blocks : Height[z] = n => Good(z)}
<1>0. \A z \in Blocks : Height[z] \in Nat /\ Ancestors[z] \subseteq Blocks
  BY BlocksAssumption, AncestorsAssumption
<1>1. ASSUME NEW z \in Blocks, Ancestors[z] = {}
      PROVE  Good(z)
  BY <1>0, <1>1 DEF Chain
<1>2. ASSUME NEW z \in Blocks, NEW w \in Ancestors[z], Good(Prev[z])
      PROVE  Good(z)
  <2>1. /\ Prev[z] \in Blocks /\ Height[z] = Height[Prev[z]] + 1
        /\ Ancestors[z] = {Prev[z]} \cup Ancestors[Prev[z]]
    BY AncestorsStep
  <2>2. Chain(z) = Chain(Prev[z]) \cup {z}
    BY <2>1 DEF Chain
  <2>3. \A u \in Chain(Prev[z]) : u \in Ancestors[z] /\ u \in Blocks /\ Height[u] < Height[z]
    BY <2>1, AncestorsBelow DEF Chain
  <2>4. ASSUME NEW u \in Chain(z), NEW v \in Chain(z)
        PROVE  (Height[u] = Height[v] => u = v) /\ (Height[u] < Height[v] => u \in Ancestors[v])
    <3>1. CASE u \in Chain(Prev[z]) /\ v \in Chain(Prev[z])
      BY <1>2, <3>1
    <3>2. CASE u = z \/ v = z
      BY <1>0, <2>2, <2>3, <3>2
    <3> QED BY <2>2, <3>1, <3>2
  <2> QED BY <2>4
<1>3. 0 \in T
  <2>1. ASSUME NEW z \in Blocks, Height[z] = 0
        PROVE  Ancestors[z] = {}
    BY <1>0, <2>1, AncestorsBelow
  <2> HIDE DEF Good
  <2> QED BY <1>1, <2>1
<1>4. ASSUME NEW n \in Nat, n \in T
      PROVE  n + 1 \in T
  <2>1. ASSUME NEW z \in Blocks, Height[z] = n + 1
        PROVE  Good(z)
    <3>1. CASE Ancestors[z] = {}
      <4> HIDE DEF Good
      <4> QED BY <1>1, <3>1
    <3>2. CASE Ancestors[z] # {}
      <4>1. PICK w \in Ancestors[z] : TRUE
        BY <3>2
      <4>2. Prev[z] \in Blocks /\ Height[Prev[z]] = n
        BY <1>0, <2>1, <4>1, AncestorsStep
      <4> HIDE DEF Good
      <4> QED BY <1>2, <1>4, <4>1, <4>2
    <3> QED BY <3>1, <3>2
  <2> HIDE DEF Good
  <2> QED BY <2>1
<1>5. \A n \in Nat : n \in T
  <2> HIDE DEF T
  <2> QED BY <1>3, <1>4, SetInduction
<1>6. Good(b)
  <2> HIDE DEF Good
  <2> QED BY <1>0, <1>5
<1> QED BY <1>6

\* The ancestors of a block of a branch are on the branch.
LEMMA BranchClosed ==
    ASSUME NEW b \in Blocks, NEW x \in Chain(b)
    PROVE  x \in Blocks /\ Ancestors[x] \subseteq Ancestors[b] /\ Height[x] <= Height[b]
<1> DEFINE Good(z) == \A u \in Ancestors[z] : Ancestors[u] \subseteq Ancestors[z]
           T == {n \in Nat : \A z \in Blocks : Height[z] = n => Good(z)}
<1>0. \A z \in Blocks : Height[z] \in Nat /\ Ancestors[z] \subseteq Blocks
  BY BlocksAssumption, AncestorsAssumption
<1>1. ASSUME NEW z \in Blocks, Prev[z] \in Blocks => Good(Prev[z])
      PROVE  Good(z)
  <2>1. CASE Ancestors[z] = {}
    BY <2>1
  <2>2. CASE Ancestors[z] # {}
    <3>1. Prev[z] \in Blocks /\ Ancestors[z] = {Prev[z]} \cup Ancestors[Prev[z]]
      BY <2>2, AncestorsStep
    <3> QED BY <1>1, <3>1
  <2> QED BY <2>1, <2>2
<1>2. 0 \in T
  <2>1. ASSUME NEW z \in Blocks, Height[z] = 0
        PROVE  Good(z)
    <3>1. Ancestors[z] = {}
      BY <1>0, <2>1, AncestorsBelow
    <3> QED BY <3>1
  <2> HIDE DEF Good
  <2> QED BY <2>1
<1>3. ASSUME NEW n \in Nat, n \in T
      PROVE  n + 1 \in T
  <2>1. ASSUME NEW z \in Blocks, Height[z] = n + 1
        PROVE  Good(z)
    <3>1. Prev[z] \in Blocks => Height[Prev[z]] = n
      BY <1>0, <2>1, BlocksAssumption
    <3> HIDE DEF Good
    <3> QED BY <1>1, <1>3, <3>1
  <2> HIDE DEF Good
  <2> QED BY <2>1
<1>4. \A n \in Nat : n \in T
  <2> HIDE DEF T
  <2> QED BY <1>2, <1>3, SetInduction
<1>5. Good(b)
  <2> HIDE DEF Good
  <2> QED BY <1>0, <1>4
<1> QED BY <1>0, <1>5, AncestorsBelow DEF Chain

\* A block of a branch that is not the lowest one has its parent on the branch.
LEMMA BranchParent ==
    ASSUME NEW b \in Blocks, NEW x \in Chain(b), NEW y \in Chain(b), Height[y] < Height[x]
    PROVE  Prev[x] \in Blocks /\ Prev[x] \in Ancestors[b] /\ Height[x] = Height[Prev[x]] + 1
<1>1. x \in Blocks /\ Ancestors[x] \subseteq Ancestors[b]
  BY BranchClosed
<1>2. y \in Ancestors[x]
  BY BranchOrder
<1> QED BY <1>1, <1>2, AncestorsStep

(***************************************************************************)
(* Walking back since the last transition.                                 *)
(***************************************************************************)
\* A walk that finds every parent above height n, and no bare checkpoint there, comes down to n.
LEMMA WalkReaches ==
    ASSUME NEW S, NEW b \in Blocks, NEW n \in Nat, n <= Height[b],
           \A x \in Chain(b) : Height[x] > n /\ (x = b \/ x \in S) => Prev[x] \in S /\ Prev[x] \in Blocks,
           \A x \in Ancestors[b] : Height[x] > n => x \notin stubs
    PROVE  /\ \E x \in Walk(S, b) : Height[x] = n
           /\ \A x \in Chain(b) : Height[x] >= n => x \in Walk(S, b)
<1>0. /\ \A z \in Blocks : Height[z] \in Nat /\ Ancestors[z] \subseteq Blocks
      /\ \A z \in Chain(b) : z \in Blocks
  BY BlocksAssumption, AncestorsAssumption, BranchClosed
<1> DEFINE T == {k \in Nat : k <= Height[b] - n => \E x \in Walk(S, b) : Height[x] = Height[b] - k}
<1>1. 0 \in T
  BY <1>0 DEF Walk
<1>2. ASSUME NEW k \in Nat, k \in T
      PROVE  k + 1 \in T
  <2> SUFFICES ASSUME k + 1 <= Height[b] - n
               PROVE  \E x \in Walk(S, b) : Height[x] = Height[b] - (k + 1)
    OBVIOUS
  <2>1. PICK x \in Walk(S, b) : Height[x] = Height[b] - k
    BY <1>0, <1>2
  <2>2. x \in Chain(b) /\ x \in Blocks /\ Height[x] > n
    BY <1>0, <2>1 DEF Walk, Linked, Chain
  <2>3. x = b \/ x \in S
    BY <1>0, <2>1, <2>2 DEF Walk, Linked
  <2>4. Prev[x] \in S /\ Prev[x] \in Blocks
    BY <2>2, <2>3
  <2>5. Prev[x] \in Ancestors[b] /\ Height[x] = Height[Prev[x]] + 1
    <3>1. Prev[x] \in Ancestors[x]
      <4>1. Prev[x] # NoBlock /\ x \in Blocks
        BY <2>2, <2>4, BlocksAssumption
      <4> QED BY <4>1, AncestorsAssumption
    <3>2. Ancestors[x] \subseteq Ancestors[b]
      BY <2>2, BranchClosed
    <3> QED BY <1>0, <2>2, <2>4, <3>1, <3>2, BlocksAssumption
  <2>6. ASSUME NEW y \in Ancestors[b]
        PROVE  /\ Height[y] >= Height[Prev[x]] => y \in S
               /\ Height[y] > Height[Prev[x]] => y \notin stubs
    <3>1. y \in Chain(b) /\ Prev[x] \in Chain(b) /\ y \in Blocks /\ Height[y] < Height[b]
      BY <1>0, <2>5, AncestorsBelow DEF Chain
    <3>2. Height[Prev[x]] >= n
      BY <1>0, <2>2, <2>4, <2>5
    <3>3. Height[y] > Height[Prev[x]] => y \notin stubs
      BY <1>0, <2>4, <3>1, <3>2
    <3>4. Height[y] = Height[Prev[x]] => y \in S
      <4>1. Height[y] = Height[Prev[x]] => y = Prev[x]
        BY <3>1, BranchOrder
      <4> QED BY <2>4, <4>1
    <3>5. Height[y] >= Height[x] => y \in S
      <4>1. CASE x = b
        BY <1>0, <3>1, <4>1
      <4>2. CASE x # b
        BY <2>1, <4>2 DEF Walk, Linked
      <4> QED BY <4>1, <4>2
    <3> QED BY <1>0, <2>2, <2>4, <2>5, <3>1, <3>3, <3>4, <3>5
  <2>7. Prev[x] \in Walk(S, b)
    BY <2>5, <2>6 DEF Walk, Linked
  <2>8. Height[Prev[x]] = Height[b] - (k + 1)
    BY <1>0, <2>1, <2>4, <2>5
  <2> QED BY <2>7, <2>8
<1>3. \A k \in Nat : k \in T
  <2> HIDE DEF T
  <2> QED BY <1>1, <1>2, SetInduction
<1>4. ASSUME NEW m \in Nat, m >= n, m <= Height[b]
      PROVE  \E x \in Walk(S, b) : Height[x] = m
  <2>1. Height[b] - m \in T
    BY <1>0, <1>3, <1>4
  <2>2. Height[b] - m <= Height[b] - n /\ Height[b] - (Height[b] - m) = m
    BY <1>0, <1>4
  <2> QED BY <2>1, <2>2
<1>5. ASSUME NEW x \in Chain(b), Height[x] >= n
      PROVE  x \in Walk(S, b)
  <2>1. Height[x] <= Height[b] /\ Height[x] \in Nat
    BY <1>0, BranchClosed
  <2>2. PICK y \in Walk(S, b) : Height[y] = Height[x]
    BY <1>4, <1>5, <2>1
  <2>3. y \in Chain(b)
    BY DEF Walk, Linked, Chain
  <2>4. x = y
    BY <2>2, <2>3, BranchOrder
  <2> QED BY <2>4
<1>6. n <= n
  OBVIOUS
<1> QED BY <1>4, <1>5, <1>6

(***************************************************************************)
(* The invariant.                                                          *)
(***************************************************************************)
\* in S every block above height n has its parent, but for bare checkpoints
JoinedAbove(S, n) == \A x \in S \ stubs : Height[x] > n => Prev[x] \in S

JoinedIn(S) == JoinedAbove(S, Since(Height[lastBlock]))
Joined == JoinedIn(blocks)

\* The bare checkpoints are at the last transition, below it, or above lastBlock.
LEMMA StubsApart ==
    ASSUME TypeOK, NEW x \in stubs, Height[x] > Since(Height[lastBlock])
    PROVE  Height[x] > Height[lastBlock]
<1>1. x \in Blocks /\ Transition(x)
  BY CheckpointsAssumption DEF TypeOK
<1>2. Height[x] \in Nat /\ Height[lastBlock] \in Nat
  BY <1>1, BlocksAssumption DEF TypeOK
<1>3. Since(Height[lastBlock]) \in Nat
  BY <1>2, SinceType
<1>4. Height[x] <= Height[lastBlock] => Height[x] <= Since(Height[lastBlock])
  BY <1>1, <1>2, SinceIsLast DEF Transition
<1> QED BY <1>2, <1>3, <1>4

\* A block at most one above lastBlock, whose parent is there, can be walked back from to the last transition.
LEMMA ForkReaches ==
    ASSUME TypeOK, NEW S, S \subseteq Blocks, JoinedIn(S), NEW b \in Blocks,
           Height[b] <= Height[lastBlock] + 1, Height[b] >= Since(Height[lastBlock]),
           Height[b] > Since(Height[lastBlock]) => Prev[b] \in S
    PROVE  /\ \E x \in Walk(S, b) : Height[x] = Since(Height[lastBlock])
           /\ \A x \in Chain(b) : Height[x] >= Since(Height[lastBlock]) => x \in Walk(S, b)
<1>1. lastBlock \in Blocks /\ \A z \in Blocks : Height[z] \in Nat
  BY BlocksAssumption DEF TypeOK
<1> DEFINE n == Since(Height[lastBlock])
<1>2. n \in Nat /\ n <= Height[lastBlock]
  BY <1>1, SinceType
<1>3. ASSUME NEW x \in Ancestors[b], Height[x] > n
      PROVE  x \notin stubs
  <2>1. x \in Blocks /\ Height[x] < Height[b]
    BY AncestorsBelow
  <2> QED BY <1>1, <1>3, <2>1, StubsApart
<1>4. ASSUME NEW x \in Chain(b), Height[x] > n, x = b \/ x \in S
      PROVE  Prev[x] \in S /\ Prev[x] \in Blocks
  <2>1. CASE x = b
    BY <1>4, <2>1
  <2>2. CASE x # b
    <3>1. x \in Ancestors[b] /\ x \in S
      BY <1>4, <2>2 DEF Chain
    <3> QED BY <1>3, <1>4, <3>1 DEF JoinedIn, JoinedAbove
  <2> QED BY <2>1, <2>2
<1> HIDE DEF n
<1>5. n <= Height[b]
  BY DEF n
<1>6. /\ \E x \in Walk(S, b) : Height[x] = n
      /\ \A x \in Chain(b) : Height[x] >= n => x \in Walk(S, b)
  BY <1>2, <1>3, <1>4, <1>5, WalkReaches
<1> QED BY <1>6 DEF n

\* So does the walk from lastBlock.
LEMMA MainReaches ==
    ASSUME TypeOK, NEW S, S \subseteq Blocks, JoinedIn(S), lastBlock \in S
    PROVE  /\ \E x \in MainChain(S) : Height[x] = Since(Height[lastBlock])
           /\ \A x \in Chain(lastBlock) : Height[x] >= Since(Height[lastBlock]) => x \in MainChain(S)
<1>1. lastBlock \in Blocks /\ Height[lastBlock] \in Nat /\ \A z \in Blocks : Height[z] \in Nat
  BY BlocksAssumption DEF TypeOK
<1>2. Since(Height[lastBlock]) \in Nat /\ Since(Height[lastBlock]) <= Height[lastBlock]
  BY <1>1, SinceType
<1>3. CASE lastBlock \in stubs
  <2>1. Since(Height[lastBlock]) = Height[lastBlock]
    BY <1>1, <1>2, <1>3, StubsApart
  <2>2. \A x \in Chain(lastBlock) : Height[x] >= Height[lastBlock] => x = lastBlock
    BY <1>1, AncestorsBelow DEF Chain
  <2> QED BY <1>3, <2>1, <2>2 DEF MainChain
<1>4. CASE lastBlock \notin stubs
  <2>1. Height[lastBlock] > Since(Height[lastBlock]) => Prev[lastBlock] \in S
    BY <1>4 DEF JoinedIn, JoinedAbove
  <2>2. Height[lastBlock] <= Height[lastBlock] + 1 /\ Height[lastBlock] >= Since(Height[lastBlock])
    BY <1>1, <1>2
  <2>3. MainChain(S) = Walk(S, lastBlock)
    BY <1>4 DEF MainChain
  <2> QED BY <1>1, <2>1, <2>2, <2>3, ForkReaches
<1> QED BY <1>3, <1>4

(***************************************************************************)
(* Every step leaves the blocks since the last transition joined.          *)
(***************************************************************************)
\* the height down to which no verification of a block has freed anything
Deep == Since(Height[lastBlock] + 1) - D

\* The height that counts as deep is not above the last transition.
LEMMA DeepBelow ==
    ASSUME TypeOK
    PROVE  Deep \in Int /\ Deep <= Since(Height[lastBlock])
<1>1. Height[lastBlock] \in Nat /\ D \in Nat
  BY BlocksAssumption, ParametersAssumption DEF TypeOK
<1> QED BY <1>1, SinceNext, SinceType DEF Deep

\* A block that is verified as a transition is at most one above lastBlock, so the blocks since the last
\* transition are not among those that are freed.
LEMMA RecentSurvive ==
    ASSUME Safe, NEW b \in Blocks, Prev[b] \in blocks, NEW x \in Pruned(b)
    PROVE  Height[x] < Deep
<1>1. /\ lastBlock \in Blocks /\ Prev[b] \in Blocks /\ x \in Blocks
      /\ \A z \in Blocks : Height[z] \in Nat
  BY BlocksAssumption, PrunedBlocks DEF Safe, Typed, TypeOK
<1>2. Transition(b) /\ Height[x] < Height[b] - D
  BY PrunedBlocks
<1>3. Height[b] = Height[Prev[b]] + 1
  BY <1>1, BlocksAssumption
<1>4. Prev[b] \notin Checkpoints
  BY <1>1, <1>2, TransitionsApart, CheckpointsAssumption
<1>5. Height[Prev[b]] <= Height[lastBlock]
  BY <1>4 DEF Safe, LastBlockIsBest
<1>6. Height[b] <= Height[lastBlock] + 1 /\ Height[b] % D = 0 /\ Height[lastBlock] + 1 \in Nat
  BY <1>1, <1>2, <1>3, <1>5 DEF Transition
<1>7. Height[b] <= Since(Height[lastBlock] + 1)
  BY <1>1, <1>6, SinceIsLast
<1>8. Since(Height[lastBlock] + 1) \in Nat /\ D \in Nat
  BY <1>6, SinceType, ParametersAssumption
<1> QED BY <1>1, <1>2, <1>7, <1>8 DEF Deep

\* What the verification keeps is joined, with the relayed block too.
LEMMA KeptJoined ==
    ASSUME Safe, NEW n \in Int, n >= Deep, JoinedAbove(blocks, n), NEW b \in Blocks, Prev[b] \in blocks
    PROVE  /\ JoinedAbove(Kept(b), n) /\ Prev[b] \in Kept(b) /\ Kept(b) \subseteq Blocks
           /\ JoinedAbove(Kept(b) \cup {b}, n)
<1>1. /\ lastBlock \in Blocks /\ Prev[b] \in Blocks /\ blocks \subseteq Blocks
      /\ \A z \in Blocks : Height[z] \in Nat
  BY BlocksAssumption DEF Safe, Typed, TypeOK
<1>2. Deep \in Int /\ D \in Nat /\ D >= 2
  BY DeepBelow, ParametersAssumption DEF Safe, Typed
<1>3. Prev[b] \in Kept(b)
  <2>1. Height[b] = Height[Prev[b]] + 1
    BY <1>1, BlocksAssumption
  <2>2. ~ (Height[Prev[b]] < Height[b] - D)
    BY <1>1, <1>2, <2>1
  <2> QED BY <2>2, PrunedBlocks DEF Kept
<1>4. ASSUME NEW x \in Kept(b) \ stubs, Height[x] > n
      PROVE  Prev[x] \in Kept(b)
  <2>1. x \in Blocks /\ Prev[x] \in blocks /\ Prev[x] \in Blocks
    BY <1>1, <1>4 DEF JoinedAbove, Kept
  <2>2. Height[x] = Height[Prev[x]] + 1
    BY <2>1, BlocksAssumption
  <2>3. Height[Prev[x]] >= Deep
    BY <1>1, <1>2, <1>4, <2>1, <2>2
  <2>4. Prev[x] \notin Pruned(b)
    <3> SUFFICES ASSUME Prev[x] \in Pruned(b) PROVE FALSE
      OBVIOUS
    <3>1. Height[Prev[x]] < Deep
      BY RecentSurvive
    <3> QED BY <1>1, <1>2, <2>1, <2>3, <3>1
  <2> QED BY <2>1, <2>4 DEF Kept
<1>5. Kept(b) \subseteq Blocks
  BY <1>1 DEF Kept
<1>6. JoinedAbove(Kept(b), n) /\ JoinedAbove(Kept(b) \cup {b}, n)
  BY <1>3, <1>4 DEF JoinedAbove
<1> QED BY <1>3, <1>5, <1>6

\* Whichever branch a relayed block takes, lastBlock does not get lower and the blocks stay joined.
LEMMA RelayJoined ==
    ASSUME Safe, NEW n \in Int, n >= Deep, JoinedAbove(blocks, n),
           NEW p \in Peers, NEW b \in Blocks, NEW known \in BOOLEAN, PeerRelayedBlock(p, b, known)
    PROVE  /\ lastBlock' \in Blocks /\ Height[lastBlock'] >= Height[lastBlock]
           /\ \A x \in blocks' \ stubs' : Height[x] > n => Prev[x] \in blocks'
<1>1. /\ lastBlock \in Blocks /\ Height[lastBlock] \in Nat /\ \A z \in Blocks : Height[z] \in Nat
      /\ blocks \subseteq Blocks
  BY BlocksAssumption DEF Safe, Typed, TypeOK
<1> DEFINE Goal == /\ lastBlock' \in Blocks /\ Height[lastBlock'] >= Height[lastBlock]
                   /\ \A x \in blocks' \ stubs' : Height[x] > n => Prev[x] \in blocks'
<1> SUFFICES Goal
  OBVIOUS
<1>2. ASSUME UNCHANGED <<blocks, stubs, lastBlock>>
      PROVE  Goal
  BY <1>1, <1>2 DEF JoinedAbove
<1>3. ASSUME Prev[b] \in blocks, Kept(b) \subseteq blocks', blocks' \subseteq Kept(b) \cup {b},
             stubs \subseteq stubs' \cup {b}, lastBlock' \in Blocks, Height[lastBlock'] >= Height[lastBlock]
      PROVE  Goal
  <2>1. JoinedAbove(Kept(b), n) /\ Prev[b] \in Kept(b) /\ Kept(b) \subseteq Blocks
    BY <1>3, KeptJoined
  <2>2. ASSUME NEW x \in blocks' \ stubs', Height[x] > n
        PROVE  Prev[x] \in blocks'
    <3>1. CASE x = b
      BY <1>3, <2>1, <3>1
    <3>2. CASE x # b
      <4>1. x \in Kept(b) \ stubs
        BY <1>3, <2>2, <3>2
      <4> QED BY <1>3, <2>1, <2>2, <4>1 DEF JoinedAbove
    <3> QED BY <3>1, <3>2
  <2> QED BY <1>3, <2>2
<1> HIDE DEF Goal
<1>4. CASE RelayedIgnored(p) \/ RelayedOrphan(p, b, known)
  BY <1>2, <1>4 DEF RelayedIgnored, RelayedOrphan
<1>5. CASE RelayedNext(p, b)
  <2>1. Height[b] >= Height[lastBlock]
    BY <1>1, <1>5, BlocksAssumption DEF RelayedNext
  <2> QED BY <1>3, <1>5, <2>1 DEF RelayedNext, Accepted
<1>6. CASE RelayedReorganizes(p, b)
  <2>1. /\ Prev[b] \in blocks /\ blocks' = Kept(b) \cup {b} /\ lastBlock' = b /\ stubs' = stubs
        /\ Height[b] > Height[lastBlock]
    BY <1>6 DEF RelayedReorganizes, NewBlock, Accepted
  <2>2. Height[b] >= Height[lastBlock]
    BY <1>1, <2>1
  <2> QED BY <1>3, <2>1, <2>2
<1>7. ASSUME Prev[b] \in blocks, blocks' = Kept(b) \/ blocks' = Kept(b) \cup {b},
             stubs' = stubs \/ stubs' = stubs \ {b}, lastBlock' = lastBlock
      PROVE  Goal
  <2>1. Height[lastBlock] >= Height[lastBlock]
    BY <1>1
  <2> QED BY <1>1, <1>3, <1>7, <2>1
<1>8. CASE RelayedExisting(p, b)
  BY <1>7, <1>8 DEF RelayedExisting, Accepted
<1>9. CASE RelayedInvalid(p, b) \/ RelayedEarly(p, b) \/ RelayedOldFork(p, b) \/ RelayedFork(p, b)
  BY <1>7, <1>9 DEF RelayedInvalid, RelayedEarly, RelayedOldFork, RelayedFork, NewBlock, Accepted, Kept
<1> QED
  BY <1>4, <1>5, <1>6, <1>8, <1>9 DEF PeerRelayedBlock

\* The rows a restart comes to are joined: it goes up from a transition block, row by row.
LEMMA RestartJoined ==
    ASSUME Typed, Restart
    PROVE  Joined'
<1>1. PICK index \in Indexes(saved), loaded \in SUBSET saved :
        /\ BRPeerManagerNew(index, loaded)
        /\ \/ loaded = {}
           \/ \E first \in LastTransitions(saved) : loaded = Loaded(saved, first, index)
  BY DEF Restart, Loaded
<1> DEFINE chain == {r.block : r \in loaded}
<1>2. chain \subseteq Blocks /\ saved \subseteq Rows /\ \A z \in Blocks : Height[z] \in Nat
  BY BlocksAssumption DEF Typed, TypeOK, Rows
<1>3. /\ blocks' = Checkpoints \cup chain
      /\ stubs' = Checkpoints \ {r.block : r \in {s \in loaded : s.prevBlock # NoBlock}}
      /\ lastBlock' = IF chain = {} THEN StartCheckpoint ELSE Highest(chain)
  BY <1>1 DEF BRPeerManagerNew
<1>4. blocks' \ stubs' \subseteq chain
  BY <1>3
<1>5. CASE loaded = {}
  BY <1>4, <1>5 DEF Joined, JoinedIn, JoinedAbove
<1>6. ASSUME NEW first \in LastTransitions(saved), loaded = Loaded(saved, first, index)
      PROVE  Joined'
  <2>1. first \in loaded /\ first.block \in Blocks /\ Transition(first.block) /\ first.block \in chain
    BY <1>2, <1>6 DEF Loaded, LastTransitions, Rows
  <2>2. lastBlock' \in Blocks /\ \A x \in chain : Height[x] <= Height[lastBlock']
    <3>1. chain # {}
      BY <2>1
    <3> HIDE DEF chain
    <3> QED BY <1>2, <1>3, <3>1, HighestBlock
  <2>3. Height[first.block] <= Since(Height[lastBlock'])
    BY <1>2, <2>1, <2>2, SinceIsLast DEF Transition
  <2>4. ASSUME NEW r \in loaded, Height[r.block] > Since(Height[lastBlock'])
        PROVE  Prev[r.block] \in chain
    <3> DEFINE b == r.block
               f == first.block
    <3>1. b \in Blocks /\ Height[b] > Height[f] /\ f \in Blocks
      <4>1. Since(Height[lastBlock']) \in Nat
        BY <1>2, <2>2, SinceType
      <4> QED BY <1>2, <2>1, <2>3, <2>4, <4>1
    <3>2. /\ f \in Ancestors[b] /\ index[Prev[b]] = r
          /\ \A y \in Chain(b) : Height[y] > Height[f] => Prev[y] \in DOMAIN index /\ index[Prev[y]].block = y
      <4>1. r # first
        BY <1>2, <3>1
      <4> QED BY <1>6, <2>4, <4>1 DEF Loaded
    <3>3. /\ Prev[b] \in Blocks /\ Height[b] = Height[Prev[b]] + 1
          /\ Ancestors[b] = {Prev[b]} \cup Ancestors[Prev[b]]
      BY <3>1, <3>2, AncestorsStep
    <3>4. CASE Prev[b] = f
      BY <2>1, <3>4
    <3>5. CASE Prev[b] # f
      <4>1. f \in Ancestors[Prev[b]] /\ Height[Prev[b]] > Height[f]
        BY <3>2, <3>3, <3>5, AncestorsBelow
      <4>2. Chain(Prev[b]) \subseteq Chain(b) /\ Prev[b] \in Chain(b)
        BY <3>3 DEF Chain
      <4>3. Prev[Prev[b]] \in DOMAIN index /\ index[Prev[Prev[b]]].block = Prev[b]
        BY <3>2, <4>1, <4>2
      <4>4. index[Prev[Prev[b]]] \in saved
        BY <1>1, <4>3 DEF Indexes
      <4>5. \A y \in Chain(Prev[b]) : Height[y] > Height[f] => Prev[y] \in DOMAIN index /\ index[Prev[y]].block = y
        BY <3>2, <4>2
      <4>6. index[Prev[Prev[b]]] \in Loaded(saved, first, index)
        BY <4>1, <4>3, <4>4, <4>5 DEF Loaded
      <4> QED BY <1>6, <4>3, <4>6
    <3> QED BY <3>4, <3>5
  <2> QED BY <1>3, <1>4, <2>4 DEF Joined, JoinedIn, JoinedAbove
<1> QED BY <1>1, <1>5, <1>6

(***************************************************************************)
(* What is handed to saveBlocks.                                           *)
(***************************************************************************)
\* what SavesReload says of the blocks of one call
Reloadable(S, replace) ==
    LET top == Highest(S)
        bottom == Min(Heights(S))
    IN  /\ bottom % D = 0
        /\ S = {x \in Chain(top) : Height[x] >= bottom}
        /\ replace = (S # {top})

\* A walk back leaves no block out.
LEMMA WalkHasNoGap ==
    ASSUME NEW S, NEW b \in Blocks, NEW z \in Walk(S, b), NEW x \in Chain(b), Height[x] >= Height[z]
    PROVE  x \in Walk(S, b)
<1>1. \A y \in Chain(b) : y \in Blocks /\ Height[y] \in Nat /\ Height[y] <= Height[b]
  BY BlocksAssumption, BranchClosed
<1>2. z \in Chain(b) /\ \A y \in Ancestors[b] : y \in Chain(b)
  BY DEF Walk, Linked, Chain
<1>3. CASE z = b
  <2>1. Height[x] = Height[b] /\ b \in Chain(b)
    BY <1>1, <1>3 DEF Chain
  <2>2. x = b
    BY <2>1, BranchOrder
  <2> QED BY <2>2 DEF Walk
<1>4. CASE z # b /\ x # b
  <2>1. z \in Linked(S, b) /\ x \in Ancestors[b]
    BY <1>4 DEF Walk, Chain
  <2> QED BY <1>1, <1>2, <2>1 DEF Walk, Linked
<1>5. CASE x = b
  BY <1>5 DEF Walk
<1> QED BY <1>3, <1>4, <1>5

\* The blocks that are to be saved are an unbroken piece of chain, from a transition block to the new one.
LEMMA SaveBlocksReload ==
    ASSUME NEW T, NEW b \in Blocks, NEW n \in Int, SaveBlocks(T, b, n) # {}
    PROVE  Reloadable(SaveBlocks(T, b, n), Several(SaveBlocks(T, b, n)))
<1> DEFINE run == {x \in Walk(T, b) : Height[x] > Height[b] - n}
           S == SaveBlocks(T, b, n)
<1>1. S = {x \in run : \E y \in run : Transition(y) /\ Height[y] <= Height[x]}
  BY DEF SaveBlocks
<1>2. \A x \in Walk(T, b) : x \in Chain(b)
  BY DEF Walk, Linked, Chain
<1>3. \A x \in Chain(b) : x \in Blocks /\ Height[x] \in Nat /\ Height[x] <= Height[b]
  BY BlocksAssumption, BranchClosed
<1>4. S \subseteq Blocks /\ S \subseteq Chain(b) /\ b \in Chain(b) /\ b \in Walk(T, b)
  BY <1>1, <1>2, <1>3 DEF Chain, Walk
<1>5. b \in S
  <2>1. PICK x \in S : TRUE
    OBVIOUS
  <2>2. PICK y \in run : Transition(y) /\ Height[y] <= Height[x]
    BY <1>1, <2>1
  <2>3. Height[b] > Height[b] - n
    BY <1>2, <1>3, <1>4, <2>2
  <2> QED BY <1>1, <1>2, <1>3, <1>4, <2>2, <2>3
<1>6. Highest(S) = b
  <2>1. Highest(S) \in S /\ Height[b] <= Height[Highest(S)]
    <3> HIDE DEF S
    <3> QED BY <1>4, <1>5, HighestBlock
  <2>2. Highest(S) \in Chain(b) /\ Height[Highest(S)] = Height[b]
    BY <1>3, <1>4, <2>1
  <2> HIDE DEF S
  <2> QED BY <1>4, <2>2, BranchOrder
<1>7. PICK z \in S : Min(Heights(S)) = Height[z] /\ \A x \in S : Height[z] <= Height[x]
  <2> HIDE DEF S
  <2>1. Heights(S) \subseteq Nat /\ Heights(S) # {}
    BY <1>3, <1>4, <1>5 DEF Heights
  <2>2. PICK m \in Heights(S) : \A k \in Heights(S) : m <= k
    BY <2>1, NatMin
  <2>3. Min(Heights(S)) \in Heights(S) /\ \A k \in Heights(S) : Min(Heights(S)) <= k
    BY <2>1, <2>2 DEF Min
  <2> QED BY <2>3 DEF Heights
<1>8. Height[z] % D = 0
  <2>1. PICK y \in run : Transition(y) /\ Height[y] <= Height[z]
    BY <1>1, <1>7
  <2>2. y \in S
    BY <1>1, <1>2, <1>3, <2>1
  <2>3. Height[y] = Height[z]
    BY <1>3, <1>4, <1>7, <2>1, <2>2
  <2> QED BY <2>1, <2>3 DEF Transition
<1>9. S = {x \in Chain(b) : Height[x] >= Height[z]}
  <2>1. ASSUME NEW x \in Chain(b), Height[x] >= Height[z]
        PROVE  x \in S
    <3>1. z \in run /\ z \in Walk(T, b)
      BY <1>1, <1>7
    <3>2. x \in Walk(T, b)
      BY <2>1, <3>1, WalkHasNoGap
    <3>3. x \in run
      <4>1. Height[x] \in Nat /\ Height[z] \in Nat /\ Height[b] \in Nat /\ Height[z] > Height[b] - n
        BY <1>2, <1>3, <1>4, <3>1
      <4>2. Height[x] > Height[b] - n
        BY <2>1, <4>1
      <4> QED BY <3>2, <4>2
    <3>4. PICK y \in run : Transition(y) /\ Height[y] <= Height[z]
      BY <1>1, <1>7
    <3>5. Height[y] <= Height[x]
      BY <1>2, <1>3, <2>1, <3>1, <3>4
    <3> QED BY <1>1, <3>3, <3>4, <3>5
  <2>2. \A x \in S : x \in Chain(b) /\ Height[x] >= Height[z]
    BY <1>3, <1>4, <1>7
  <2> HIDE DEF S
  <2> QED BY <2>1, <2>2
<1>10. Several(S) = (S # {b})
  <2> HIDE DEF S
  <2> QED BY <1>5 DEF Several
<1> HIDE DEF S
<1>11. Reloadable(S, Several(S))
  BY <1>6, <1>7, <1>8, <1>9, <1>10 DEF Reloadable
<1> QED BY <1>11 DEF S

\* What SavesReload says, call by call.
LEMMA SavesReloadIsLocal ==
    SavesReload <=> \A p \in Peers : calls[p].save # {} => Reloadable(calls[p].save, calls[p].replace)
  BY DEF SavesReload, Reloadable

\* A call that changes what one thread has to save.
LEMMA SavesReloadStep ==
    ASSUME SavesReload, NEW p \in Peers, NEW c, calls \in [Peers -> Calls],
           calls' = [calls EXCEPT ![p] = c], c.save # {} => Reloadable(c.save, c.replace)
    PROVE  SavesReload'
<1>1. ASSUME NEW q \in Peers, calls'[q].save # {}
      PROVE  Reloadable(calls'[q].save, calls'[q].replace)
  <2>1. CASE q = p
    <3>1. calls'[q] = c
      BY <2>1
    <3> QED BY <1>1, <3>1
  <2>2. CASE q # p
    <3>1. calls'[q] = calls[q]
      BY <2>2
    <3> QED BY <1>1, <3>1, SavesReloadIsLocal
  <2> QED BY <2>1, <2>2
<1> QED BY <1>1 DEF SavesReload, Reloadable

\* Whichever branch a relayed block takes.
LEMMA RelaySavesReload ==
    ASSUME Typed, SavesReload, NEW p \in Peers, NEW b \in Blocks, NEW known \in BOOLEAN,
           PeerRelayedBlock(p, b, known)
    PROVE  SavesReload'
<1>1. calls \in [Peers -> Calls]
  BY DEF Typed, TypeOK
<1>2. ASSUME calls' = [calls EXCEPT ![p] = Idle]
      PROVE  SavesReload'
  <2>1. Idle.save = {}
    BY DEF Idle
  <2> QED BY <1>1, <1>2, <2>1, SavesReloadStep
<1>3. ASSUME Dropped(p)
      PROVE  SavesReload'
  BY <1>2, <1>3 DEF Dropped
<1>4. ASSUME NEW save, NEW waiting, TakeNext(p, b, save, waiting), save # {} => Reloadable(save, Several(save))
      PROVE  SavesReload'
  <2> DEFINE next == IF b \in DOMAIN waiting THEN waiting[b].block ELSE NoBlock
             k == IF b \in DOMAIN waiting THEN waiting[b].known ELSE FALSE
             c == [replace |-> Several(save), save |-> save, next |-> next, known |-> k]
  <2>1. calls' = [calls EXCEPT ![p] = c]
    BY <1>4 DEF TakeNext
  <2>2. c.save = save /\ c.replace = Several(save)
    OBVIOUS
  <2> HIDE DEF c
  <2> QED BY <1>1, <1>4, <2>1, <2>2, SavesReloadStep
<1>5. ASSUME NEW T, NEW waiting, TakeNext(p, b, SaveBlocks(T, b, SaveCount(b)), waiting)
      PROVE  SavesReload'
  <2>1. SaveCount(b) \in Int
    <3>1. Height[b] \in Nat /\ D \in Nat /\ D >= 2
      BY BlocksAssumption, ParametersAssumption
    <3> QED BY <3>1 DEF SaveCount
  <2>2. SaveBlocks(T, b, SaveCount(b)) # {} =>
          Reloadable(SaveBlocks(T, b, SaveCount(b)), Several(SaveBlocks(T, b, SaveCount(b))))
    BY <2>1, SaveBlocksReload
  <2> QED BY <1>4, <1>5, <2>2
<1>6. CASE RelayedIgnored(p) \/ RelayedInvalid(p, b) \/ RelayedOldFork(p, b)
  BY <1>3, <1>6 DEF RelayedIgnored, RelayedInvalid, RelayedOldFork
<1>7. CASE RelayedOrphan(p, b, known)
  BY <1>2, <1>3, <1>4, <1>7 DEF RelayedOrphan
<1>8. CASE RelayedNext(p, b)
  BY <1>5, <1>8 DEF RelayedNext
<1>9. CASE RelayedReorganizes(p, b)
  BY <1>5, <1>9 DEF RelayedReorganizes
<1>10. CASE RelayedExisting(p, b) \/ RelayedEarly(p, b) \/ RelayedFork(p, b)
  BY <1>4, <1>10 DEF RelayedExisting, RelayedEarly, RelayedFork
<1> QED
  BY <1>6, <1>7, <1>8, <1>9, <1>10 DEF PeerRelayedBlock

(***************************************************************************)
(* The inductive invariant and the theorems.                               *)
(***************************************************************************)
SafeJoined == Safe /\ Joined /\ SavesReload

\* A step of a thread, of the database, or a restart.
LEMMA StepJoined ==
    ASSUME SafeJoined, [NextRestart]_vars
    PROVE  SafeJoined'
<1>1. ASSUME NEW p \in Peers, NEW b \in Blocks, NEW known \in BOOLEAN, PeerRelayedBlock(p, b, known)
      PROVE  (Joined /\ SavesReload)'
  <2>1. Safe /\ Typed /\ TypeOK /\ Joined /\ Height[lastBlock] \in Nat
    BY BlocksAssumption DEF SafeJoined, Safe, Typed, TypeOK
  <2> DEFINE n == Since(Height[lastBlock])
  <2>2. n \in Nat /\ n >= Deep /\ JoinedAbove(blocks, n)
    BY <2>1, SinceType, DeepBelow DEF Joined, JoinedIn
  <2>3. /\ lastBlock' \in Blocks /\ Height[lastBlock'] >= Height[lastBlock]
        /\ \A x \in blocks' \ stubs' : Height[x] > n => Prev[x] \in blocks'
    <3> HIDE DEF n
    <3> QED BY <1>1, <2>1, <2>2, RelayJoined
  <2>4. Joined'
    <3>1. Typed'
      BY <1>1, <2>1, RelayTyped
    <3>2. Height[lastBlock'] \in Nat /\ \A x \in blocks' : Height[x] \in Nat
      BY <2>3, <3>1, BlocksAssumption DEF Typed, TypeOK
    <3>3. Since(Height[lastBlock']) \in Nat /\ n <= Since(Height[lastBlock'])
      BY <2>1, <2>3, <3>2, SinceType, SinceGrows
    <3>4. ASSUME NEW x \in blocks' \ stubs', Height[x] > Since(Height[lastBlock'])
          PROVE  Prev[x] \in blocks'
      <4>1. Height[x] > n
        BY <2>2, <3>2, <3>3, <3>4
      <4> QED BY <2>3, <4>1
    <3> QED BY <3>4 DEF Joined, JoinedIn, JoinedAbove
  <2>5. SavesReload'
    BY <1>1, <2>1, RelaySavesReload DEF SafeJoined
  <2> QED BY <2>4, <2>5
<1>2. ASSUME NEW p \in Peers, NEW b \in Blocks, BlockArrives(p, b)
      PROVE  (Joined /\ SavesReload)'
  BY <1>1, <1>2 DEF BlockArrives
<1>3. ASSUME NEW p \in Peers, RelayNext(p)
      PROVE  (Joined /\ SavesReload)'
  <2>1. calls[p].next \in Blocks /\ calls[p].known \in BOOLEAN
    BY <1>3 DEF RelayNext, SafeJoined, Safe, Typed, TypeOK, Calls, BlockIds
  <2> QED BY <1>1, <1>3, <2>1 DEF RelayNext
<1>4. ASSUME UNCHANGED <<blocks, stubs, lastBlock>>
      PROVE  Joined'
  BY <1>4 DEF SafeJoined, Joined, JoinedIn, JoinedAbove
<1>5. ASSUME UNCHANGED calls
      PROVE  SavesReload'
  BY <1>5 DEF SafeJoined, SavesReload
<1>6. ASSUME NEW p \in Peers, SaveCallback(p)
      PROVE  (Joined /\ SavesReload)'
  <2>1. calls \in [Peers -> Calls]
    BY DEF SafeJoined, Safe, Typed, TypeOK
  <2> DEFINE c == [calls[p] EXCEPT !.save = {}, !.replace = FALSE]
  <2>2. calls' = [calls EXCEPT ![p] = c] /\ c.save = {}
    BY <1>6, <2>1 DEF SaveCallback, Calls
  <2> HIDE DEF c
  <2>3. SavesReload'
    BY <2>1, <2>2, SavesReloadStep DEF SafeJoined
  <2> QED BY <1>4, <1>6, <2>3 DEF SaveCallback, chainVars
<1>7. ASSUME LoadBloomFilter \/ WriteBlocks
      PROVE  (Joined /\ SavesReload)'
  BY <1>4, <1>5, <1>7 DEF LoadBloomFilter, WriteBlocks, chainVars
<1>8. ASSUME Restart
      PROVE  (Joined /\ SavesReload)'
  <2>1. SavesReload'
    BY <1>8 DEF Restart, SavesReload, Idle
  <2> QED BY <1>8, <2>1, RestartJoined DEF SafeJoined, Safe
<1>9. CASE Next
  <2>1. Safe'
    BY <1>9, NextTyped, NextBest DEF SafeJoined, Safe
  <2> QED BY <1>2, <1>3, <1>6, <1>7, <1>9, <2>1 DEF Next, DownloadPeer, SafeJoined
<1>10. CASE Restart
  BY <1>8, <1>10, RestartSafe DEF SafeJoined, Safe
<1>11. CASE UNCHANGED vars
  <2>1. Safe'
    BY <1>11 DEF SafeJoined, Safe, Typed, TypeOK, CheckpointsKept, LastBlockIsBest, OrphanIndex, vars, chainVars
  <2> QED BY <1>4, <1>5, <1>11, <2>1 DEF SafeJoined, vars, chainVars
<1> QED BY <1>9, <1>10, <1>11 DEF NextRestart

\* The blocks since the last transition are joined, and what is to be saved is one piece of chain, in every
\* state that relayed blocks, writes of the database and restarts lead to.
LEMMA JoinedInvariant == SpecRestart => []SafeJoined
<1>1. ASSUME Init
      PROVE  SafeJoined
  <2>1. Joined
    BY <1>1 DEF Init, Joined, JoinedIn, JoinedAbove
  <2>2. SavesReload
    BY <1>1 DEF Init, SavesReload, Idle
  <2> QED BY <1>1, <2>1, <2>2, InitSafe DEF SafeJoined
<1> QED BY <1>1, StepJoined, PTL DEF SpecRestart

\* From lastBlock the last difficulty transition can always be reached by walking back, so the next one can
\* be verified, whatever forks were relayed and freed and from whichever rows a restart began.
THEOREM NextTransitionCorrect == SpecRestart => []NextTransitionVerifiable
<1>1. ASSUME SafeJoined
      PROVE  NextTransitionVerifiable
  <2>1. TypeOK /\ lastBlock \in blocks /\ blocks \subseteq Blocks /\ JoinedIn(blocks)
    BY <1>1 DEF SafeJoined, Safe, Typed, TypeOK, LastBlockIsBest, Joined
  <2>2. PICK x \in MainChain(blocks) : Height[x] = Since(Height[lastBlock])
    BY <2>1, MainReaches
  <2>3. Height[lastBlock] \in Nat
    BY <2>1, BlocksAssumption
  <2>4. Height[x] % D = 0 /\ Height[x] > Height[lastBlock] - D
    BY <2>2, <2>3, SinceType, SinceIsTransition
  <2> QED BY <2>2, <2>4 DEF NextTransitionVerifiable, Transition
<1> QED BY <1>1, JoinedInvariant, PTL

\* The walks of _peerRelayedBlock find what they look for whenever the relayed block leaves the chain of
\* lastBlock since the last transition: both walks come to the block where the branches part.
LEMMA RecentHandled ==
    ASSUME SafeJoined, NEW p \in Peers, NEW b \in Blocks, NEW known \in BOOLEAN,
           PeerRelayedBlock(p, b, known), Recent(b)
    PROVE  running' = running
<1>1. /\ TypeOK /\ lastBlock \in blocks /\ lastBlock \in Blocks /\ Safe /\ Joined
      /\ \A z \in Blocks : Height[z] \in Nat
  BY BlocksAssumption DEF SafeJoined, Safe, Typed, TypeOK, LastBlockIsBest
<1> DEFINE n == Since(Height[lastBlock])
<1>2. n \in Nat
  BY <1>1, SinceType
<1>3. PICK j \in Chain(b) \cap Chain(lastBlock) : Height[j] >= n
  BY DEF Recent, Since
<1>4. j \in Blocks /\ Height[b] >= n /\ Height[b] <= Height[lastBlock] + 1
  BY <1>1, <1>2, <1>3, BranchClosed DEF Recent
<1> HIDE DEF n
<1>5. ASSUME Prev[b] \in blocks
      PROVE  /\ JoinedIn(Kept(b)) /\ Prev[b] \in Kept(b) /\ Kept(b) \subseteq Blocks
             /\ JoinedIn(Kept(b) \cup {b}) /\ lastBlock \in Kept(b)
  <2>1. n >= Deep /\ n \in Int /\ JoinedAbove(blocks, n)
    BY <1>1, <1>2, DeepBelow DEF n, Joined, JoinedIn
  <2>2. /\ JoinedAbove(Kept(b), n) /\ Prev[b] \in Kept(b) /\ Kept(b) \subseteq Blocks
        /\ JoinedAbove(Kept(b) \cup {b}, n)
    BY <1>1, <1>5, <2>1, KeptJoined
  <2> QED BY <1>1, <1>5, <2>2, LastBlockSurvives DEF Safe, JoinedIn, n
<1>6. CASE RelayedExisting(p, b)
  <2>1. Prev[b] \in blocks
    BY <1>6 DEF RelayedExisting, Accepted
  <2>2. PICK x \in MainChain(Kept(b)) : Height[x] = n
    BY <1>1, <1>5, <2>1, MainReaches DEF n
  <2>3. \E y \in MainChain(Kept(b)) : Height[y] <= Height[b]
    BY <1>1, <1>2, <1>4, <2>2
  <2> QED BY <1>6, <2>3 DEF RelayedExisting
<1>7. CASE RelayedReorganizes(p, b)
  <2> DEFINE S == Kept(b) \cup {b}
  <2>1. Prev[b] \in blocks
    BY <1>7 DEF RelayedReorganizes, NewBlock, Accepted
  <2>2. S \subseteq Blocks /\ JoinedIn(S) /\ Prev[b] \in S /\ lastBlock \in S
    BY <1>5, <2>1
  <2>3. RelayedReorganizes(p, b) /\ S = Kept(b) \cup {b}
    BY <1>7
  <2> HIDE DEF S
  <2>4. j \in Walk(S, b)
    BY <1>1, <1>3, <1>4, <2>2, ForkReaches DEF n
  <2>5. j \in MainChain(S)
    BY <1>1, <1>3, <2>2, MainReaches DEF n
  <2>6. Walk(S, b) \cap MainChain(S) # {}
    BY <2>4, <2>5
  <2> QED BY <2>3, <2>6 DEF RelayedReorganizes
<1> QED
  BY <1>6, <1>7 DEF PeerRelayedBlock, RelayedIgnored, RelayedOrphan, RelayedInvalid, RelayedNext, RelayedEarly,
                    RelayedOldFork, RelayedFork

\* Relaying a recent block never makes the peer manager follow a NULL pointer, for any tree and any history.
THEOREM RecentBlocksCorrect == SpecRestart => RecentBlocksHandled
<1>1. ASSUME SafeJoined, running, ~ running'
      PROVE  \A p \in Peers, b \in Blocks, known \in BOOLEAN : PeerRelayedBlock(p, b, known) => ~ Recent(b)
  BY <1>1, RecentHandled
<1> QED BY <1>1, JoinedInvariant, PTL DEF RecentBlocksHandled

\* What goes to saveBlocks is an unbroken piece of chain that starts at a difficulty transition, which is what
\* the assertion of _peerRelayedBlock says of its first block.
THEOREM SavesReloadCorrect == SpecRestart => []SavesReload
  BY JoinedInvariant, PTL DEF SafeJoined

(***************************************************************************)
(* The chain the peer manager follows.                                     *)
(***************************************************************************)
\* f has the heights of the transactions in the chain that ends in b
Held(b, f) ==
    /\ f \in [Txs -> Nat]
    /\ \A t \in Txs : /\ \A x \in Chain(b) : t \in BlockTxs[x] => f[t] = Height[x]
                      /\ (\A x \in Chain(b) : t \notin BlockTxs[x]) => f[t] = Unconfirmed

\* These are the heights FollowedChain has.
LEMMA HeldIsFollowed ==
    ASSUME ConfirmedOnce, NEW b \in Blocks, NEW f, Held(b, f)
    PROVE  f = Followed!HeightsIn(b)
<1>1. ASSUME NEW t \in Txs
      PROVE  f[t] = LET holders == {x \in Ancestors[b] \cup {b} : t \in BlockTxs[x]}
                    IN  IF holders = {} THEN Unconfirmed ELSE Followed!Min({Height[x] : x \in holders})
  <2> DEFINE holders == {x \in Ancestors[b] \cup {b} : t \in BlockTxs[x]}
  <2>1. CASE holders = {}
    BY <2>1 DEF Held, Chain
  <2>2. CASE holders # {}
    <3>1. PICK x \in Chain(b) : t \in BlockTxs[x]
      BY <2>2 DEF Chain
    <3>2. holders = {x}
      BY <3>1 DEF ConfirmedOnce, Chain
    <3>3. Height[x] \in Nat
      BY <3>1, BranchClosed, BlocksAssumption
    <3>4. {Height[y] : y \in holders} = {Height[x]}
      BY <3>2
    <3>5. Followed!Min({Height[x]}) = Height[x]
      BY <3>3 DEF Followed!Min
    <3> QED BY <2>2, <3>1, <3>4, <3>5 DEF Held
  <2> QED BY <2>1, <2>2
<1> QED BY <1>1 DEF Held, Followed!HeightsIn

\* What BRWalletUpdateTransactions leaves for a transaction, when a chain has it once.
LEMMA UpdatedHeight ==
    ASSUME ConfirmedOnce, NEW b \in Blocks, NEW T, T \subseteq Chain(b), NEW f, NEW t \in Txs
    PROVE  /\ \A x \in T : t \in BlockTxs[x] => UpdateTransactions(T, f)[t] = Height[x]
           /\ (\A x \in T : t \notin BlockTxs[x]) => UpdateTransactions(T, f)[t] = f[t]
<1> DEFINE holders == {x \in T : t \in BlockTxs[x]}
<1>1. UpdateTransactions(T, f)[t] = IF holders = {} THEN f[t] ELSE Min(Heights(holders))
  BY DEF UpdateTransactions
<1>2. ASSUME NEW x \in T, t \in BlockTxs[x]
      PROVE  UpdateTransactions(T, f)[t] = Height[x]
  <2>1. holders = {x}
    BY <1>2 DEF ConfirmedOnce
  <2>2. Height[x] \in Nat
    BY BranchClosed, BlocksAssumption
  <2>3. Heights(holders) = {Height[x]}
    BY <2>1 DEF Heights
  <2>4. Min({Height[x]}) = Height[x]
    BY <2>2 DEF Min
  <2> QED BY <1>1, <2>1, <2>3, <2>4
<1>3. ASSUME \A x \in T : t \notin BlockTxs[x]
      PROVE  UpdateTransactions(T, f)[t] = f[t]
  BY <1>1, <1>3
<1> QED BY <1>2, <1>3

\* The next block of the chain adds the heights of its transactions.
LEMMA HeldNext ==
    ASSUME ConfirmedOnce, NEW b \in Blocks, Prev[b] \in Blocks, NEW f, Held(Prev[b], f)
    PROVE  Held(b, UpdateTransactions({b}, f))
<1>1. Chain(b) = Chain(Prev[b]) \cup {b}
  BY BlocksAssumption, AncestorsAssumption DEF Chain
<1>2. UpdateTransactions({b}, f) \in [Txs -> Nat]
  BY UpdateType DEF Held
<1>3. {b} \subseteq Chain(b)
  BY DEF Chain
<1> DEFINE g == UpdateTransactions({b}, f)
<1>4. ASSUME NEW t \in Txs
      PROVE  /\ t \in BlockTxs[b] => g[t] = Height[b]
             /\ t \notin BlockTxs[b] => g[t] = f[t]
  <2> DEFINE T == {b}
  <2>1. T \subseteq Chain(b)
    BY <1>3
  <2> HIDE DEF T
  <2>2. /\ \A x \in T : t \in BlockTxs[x] => UpdateTransactions(T, f)[t] = Height[x]
        /\ (\A x \in T : t \notin BlockTxs[x]) => UpdateTransactions(T, f)[t] = f[t]
    BY <2>1, UpdatedHeight
  <2> QED BY <2>2 DEF T
<1> HIDE DEF g
<1>5. ASSUME NEW t \in Txs, NEW x \in Chain(b), t \in BlockTxs[x]
      PROVE  g[t] = Height[x]
  <2>1. CASE x = b
    BY <1>4, <1>5, <2>1
  <2>2. CASE x # b
    <3>1. t \notin BlockTxs[b]
      BY <1>3, <1>5, <2>2 DEF ConfirmedOnce
    <3>2. x \in Chain(Prev[b])
      BY <1>1, <2>2
    <3> QED BY <1>4, <1>5, <3>1, <3>2 DEF Held
  <2> QED BY <2>1, <2>2
<1>6. ASSUME NEW t \in Txs, \A x \in Chain(b) : t \notin BlockTxs[x]
      PROVE  g[t] = Unconfirmed
  BY <1>1, <1>4, <1>6 DEF Held
<1>7. g \in [Txs -> Nat]
  BY <1>2 DEF g
<1>8. Held(b, g)
  BY <1>5, <1>6, <1>7 DEF Held
<1> QED BY <1>8 DEF g

\* A block the chain has already sets the same heights again.
LEMMA HeldSame ==
    ASSUME ConfirmedOnce, NEW b \in Blocks, NEW x \in Chain(b), NEW f, Held(b, f)
    PROVE  UpdateTransactions({x}, f) = f
<1>1. UpdateTransactions({x}, f) \in [Txs -> Nat] /\ f \in [Txs -> Nat]
  <2>1. {x} \subseteq Blocks
    BY BranchClosed
  <2> QED BY <2>1, UpdateType DEF Held
<1>2. ASSUME NEW t \in Txs
      PROVE  UpdateTransactions({x}, f)[t] = f[t]
  <2> DEFINE T == {x}
  <2>1. T \subseteq Chain(b)
    OBVIOUS
  <2> HIDE DEF T
  <2>2. /\ \A z \in T : t \in BlockTxs[z] => UpdateTransactions(T, f)[t] = Height[z]
        /\ (\A z \in T : t \notin BlockTxs[z]) => UpdateTransactions(T, f)[t] = f[t]
    BY <2>1, UpdatedHeight
  <2>3. /\ t \in BlockTxs[x] => UpdateTransactions({x}, f)[t] = Height[x]
        /\ t \notin BlockTxs[x] => UpdateTransactions({x}, f)[t] = f[t]
    BY <2>2 DEF T
  <2> QED BY <2>3 DEF Held
<1> QED BY <1>1, <1>2

\* When the two walks meet, a reorganisation sets the heights of the new chain.
LEMMA HeldReorganized ==
    ASSUME TypeOK, ConfirmedOnce, NEW S, NEW b \in Blocks, Held(lastBlock, txHeight),
           Walk(S, b) \cap MainChain(S) # {}
    PROVE  Held(b, Reorganized(Walk(S, b), MainChain(S)))
<1> DEFINE fork == Walk(S, b)
           main == MainChain(S)
           j == Highest(fork \cap main)
<1>1. /\ lastBlock \in Blocks /\ \A z \in Blocks : Height[z] \in Nat
      /\ \A z \in Chain(b) \cup Chain(lastBlock) : z \in Blocks
  BY BlocksAssumption, BranchClosed DEF TypeOK
<1>2. fork \subseteq Chain(b) /\ main \subseteq Chain(lastBlock)
  BY DEF Walk, Linked, MainChain, Chain
<1>3. j \in fork \cap main /\ \A c \in fork \cap main : Height[c] <= Height[j]
  <2>1. fork \cap main \subseteq Blocks
    BY <1>1, <1>2
  <2> HIDE DEF fork, main
  <2> QED BY <2>1, HighestBlock DEF fork, main
<1>4. j \in Blocks /\ j \in Chain(b) /\ j \in Chain(lastBlock) /\ j \in Walk(S, b)
  BY <1>1, <1>2, <1>3
<1> DEFINE up == {x \in fork : Height[x] > Height[j]}
           g == Reorganized(fork, main)
<1>5. g = UpdateTransactions(up, SetTxUnconfirmedAfter(Height[j]))
  BY DEF Reorganized
<1> HIDE DEF j
<1>6. up \subseteq Chain(b) /\ up \subseteq Blocks
  BY <1>1, <1>2
<1>7. SetTxUnconfirmedAfter(Height[j]) \in [Txs -> Nat]
  BY UnconfirmType
<1>8. g \in [Txs -> Nat]
  <2> HIDE DEF up
  <2> QED BY <1>5, <1>6, <1>7, UpdateType
<1>9. ASSUME NEW x \in Chain(b), Height[x] > Height[j]
      PROVE  x \in up
  <2>1. Height[x] >= Height[j]
    BY <1>1, <1>4, <1>9
  <2>2. x \in Walk(S, b)
    BY <1>4, <2>1, WalkHasNoGap
  <2> QED BY <1>9, <2>2
<1>10. ASSUME NEW c \in {b, lastBlock}, NEW d \in {b, lastBlock}, NEW x \in Chain(c), ~ (Height[x] > Height[j])
       PROVE  x \in Chain(d)
  <2>1. c \in Blocks /\ d \in Blocks /\ j \in Chain(c) /\ j \in Chain(d) /\ x \in Blocks
    BY <1>1, <1>4
  <2>2. CASE Height[x] = Height[j]
    BY <2>1, <2>2, BranchOrder
  <2>3. CASE Height[x] < Height[j]
    <3>1. x \in Ancestors[j]
      BY <2>1, <2>3, BranchOrder
    <3>2. Ancestors[j] \subseteq Ancestors[d]
      BY <2>1, BranchClosed
    <3> QED BY <3>1, <3>2 DEF Chain
  <2> QED BY <1>1, <1>4, <1>10, <2>1, <2>2, <2>3
<1> HIDE DEF up
<1>11. ASSUME NEW t \in Txs
       PROVE  /\ \A x \in up : t \in BlockTxs[x] => g[t] = Height[x]
              /\ (\A x \in up : t \notin BlockTxs[x]) =>
                    g[t] = IF txHeight[t] > Height[j] THEN Unconfirmed ELSE txHeight[t]
  <2>1. SetTxUnconfirmedAfter(Height[j])[t] = IF txHeight[t] > Height[j] THEN Unconfirmed ELSE txHeight[t]
    BY DEF SetTxUnconfirmedAfter
  <2> DEFINE f == SetTxUnconfirmedAfter(Height[j])
  <2> HIDE DEF f, g
  <2>2. \A T, h : T \subseteq Chain(b) =>
            /\ \A x \in T : t \in BlockTxs[x] => UpdateTransactions(T, h)[t] = Height[x]
            /\ (\A x \in T : t \notin BlockTxs[x]) => UpdateTransactions(T, h)[t] = h[t]
    BY UpdatedHeight
  <2>3. /\ \A x \in up : t \in BlockTxs[x] => UpdateTransactions(up, f)[t] = Height[x]
        /\ (\A x \in up : t \notin BlockTxs[x]) => UpdateTransactions(up, f)[t] = f[t]
    BY <1>6, <2>2
  <2>4. g = UpdateTransactions(up, f)
    BY <1>5 DEF f
  <2>5. f[t] = IF txHeight[t] > Height[j] THEN Unconfirmed ELSE txHeight[t]
    BY <2>1 DEF f
  <2> QED BY <2>3, <2>4, <2>5
<1> HIDE DEF g
<1>12. ASSUME NEW t \in Txs, NEW x \in Chain(b), t \in BlockTxs[x]
       PROVE  g[t] = Height[x]
  <2>1. CASE Height[x] > Height[j]
    BY <1>9, <1>11, <1>12, <2>1
  <2>2. CASE ~ (Height[x] > Height[j])
    <3>1. x \in Chain(lastBlock)
      BY <1>10, <2>2
    <3>2. txHeight[t] = Height[x]
      BY <1>12, <3>1 DEF Held
    <3>3. \A y \in up : t \notin BlockTxs[y]
      <4>1. \A y \in up : Height[y] > Height[j] /\ y \in Chain(b)
        BY <1>6 DEF up
      <4> QED BY <1>12, <2>2, <4>1 DEF ConfirmedOnce
    <3> QED BY <1>11, <2>2, <3>2, <3>3
  <2> QED BY <2>1, <2>2
<1>13. ASSUME NEW t \in Txs, \A x \in Chain(b) : t \notin BlockTxs[x]
       PROVE  g[t] = Unconfirmed
  <2>1. g[t] = IF txHeight[t] > Height[j] THEN Unconfirmed ELSE txHeight[t]
    BY <1>6, <1>11, <1>13
  <2>2. CASE \A y \in Chain(lastBlock) : t \notin BlockTxs[y]
    BY <2>1, <2>2 DEF Held
  <2>3. ASSUME NEW y \in Chain(lastBlock), t \in BlockTxs[y]
        PROVE  g[t] = Unconfirmed
    <3>1. txHeight[t] = Height[y]
      BY <2>3 DEF Held
    <3>2. Height[y] > Height[j]
      BY <1>10, <1>13, <2>3
    <3> QED BY <2>1, <3>1, <3>2
  <2> QED BY <2>2, <2>3
<1>14. Held(b, g)
  BY <1>8, <1>12, <1>13 DEF Held
<1> QED BY <1>14 DEF g

(***************************************************************************)
(* The chain starts at StartCheckpoint, which stays a bare checkpoint, and *)
(* reaches it through no other one; and the blocks reach back an interval. *)
(***************************************************************************)
Rooted ==
    /\ StartCheckpoint \in Chain(lastBlock)
    /\ \A x \in blocks \ stubs : StartCheckpoint \in Ancestors[x]
    /\ \A c \in stubs : Height[c] > Height[StartCheckpoint] => Height[c] > Height[lastBlock]

Following == Rooted /\ JoinedAbove(blocks, Deep) /\ Held(lastBlock, txHeight)

\* A block that follows a block of blocks, and no bare checkpoint but StartCheckpoint, is above StartCheckpoint.
LEMMA RootedParent ==
    ASSUME Rooted, NEW b \in Blocks, Prev[b] \in Blocks, Prev[b] \in blocks,
           Prev[b] \in stubs => Prev[b] = StartCheckpoint
    PROVE  StartCheckpoint \in Ancestors[b]
<1>1. Ancestors[b] = {Prev[b]} \cup Ancestors[Prev[b]]
  BY BlocksAssumption, AncestorsAssumption
<1> QED BY <1>1 DEF Rooted

\* A relayed block that does not follow lastBlock is none of the bare checkpoints.
LEMMA StubsStay ==
    ASSUME Safe, Fresh, Rooted, NEW b \in Blocks, Prev[b] \in blocks, Prev[b] # lastBlock
    PROVE  b \notin stubs
<1>1. SUFFICES ASSUME b \in stubs
               PROVE  FALSE
  OBVIOUS
<1>2. /\ b \in Checkpoints /\ Prev[b] \in Blocks /\ lastBlock \in Blocks /\ StartCheckpoint \in Blocks
      /\ stubs \subseteq Checkpoints
  BY <1>1, CheckpointsAssumption DEF Safe, Typed, TypeOK
<1>3. Height[b] = Height[Prev[b]] + 1 /\ \A z \in Blocks : Height[z] \in Nat
  BY <1>2, BlocksAssumption
<1>4. Prev[b] \notin Checkpoints
  BY <1>2, TransitionsApart, CheckpointsAssumption
<1>5. Height[Prev[b]] <= Height[lastBlock]
  BY <1>4 DEF Safe, LastBlockIsBest
<1>6. Height[StartCheckpoint] < Height[Prev[b]]
  <2>1. StartCheckpoint \in Ancestors[Prev[b]]
    BY <1>2, <1>4 DEF Rooted
  <2> QED BY <1>2, <2>1, AncestorsBelow
<1>7. Height[b] > Height[lastBlock]
  <2>1. Height[b] > Height[StartCheckpoint]
    BY <1>2, <1>3, <1>6
  <2> QED BY <1>1, <2>1 DEF Rooted
<1>8. Height[Prev[b]] = Height[lastBlock]
  BY <1>2, <1>3, <1>5, <1>7
<1>9. Height[Prev[b]] < Height[Highest(Checkpoints)]
  BY <1>2, <1>3, MostRecentCheckpoint
<1> QED BY <1>4, <1>8, <1>9 DEF Fresh, OneBranchBelow

\* A block of a fork is at most one above lastBlock, which is past the checkpoints; if it follows a bare
\* checkpoint, that is StartCheckpoint.
LEMMA ForkParent ==
    ASSUME Safe, Rooted, SyncedPeers, NEW p \in Peers, NEW b \in Blocks, NewBlock(b), ~ Postponed(p, b), ~ OldFork(b)
    PROVE  /\ Height[lastBlock] >= Height[Highest(Checkpoints)]
           /\ Height[b] <= Height[lastBlock] + 1
           /\ Height[b] > Height[Highest(Checkpoints)]
           /\ StartCheckpoint \in Ancestors[b]
<1> DEFINE top == Highest(Checkpoints)
<1>1. /\ Prev[b] \in blocks /\ Prev[b] \in Blocks /\ lastBlock \in Blocks /\ stubs \subseteq Checkpoints
      /\ StartCheckpoint \in Checkpoints /\ Checkpoints \subseteq Blocks
  BY CheckpointsAssumption DEF NewBlock, Accepted, Safe, Typed, TypeOK
<1>2. /\ top \in Blocks /\ \A c \in Checkpoints : Height[c] <= Height[top]
  BY MostRecentCheckpoint
<1>3. Height[b] = Height[Prev[b]] + 1 /\ \A z \in Blocks : Height[z] \in Nat
  BY <1>1, BlocksAssumption
<1>4. /\ ~ (Height[b] <= Height[top])
      /\ ~ (Height[lastBlock] < PeerLastBlock[p] /\ Height[b] > Height[lastBlock] + 1)
      /\ PeerLastBlock[p] >= Height[top] /\ PeerLastBlock[p] \in Nat
  BY ParametersAssumption DEF OldFork, Postponed, SyncedPeers
<1> HIDE DEF top
<1>5. Height[b] > Height[top] /\ Height[lastBlock] >= Height[top]
  BY <1>1, <1>2, <1>3, <1>4
<1>6. Height[Prev[b]] <= Height[lastBlock]
  <2>1. CASE Prev[b] \in Checkpoints
    BY <1>1, <1>2, <1>3, <1>5, <2>1
  <2>2. CASE Prev[b] \notin Checkpoints
    BY <1>1, <2>2 DEF Safe, LastBlockIsBest
  <2> QED BY <2>1, <2>2
<1>7. ASSUME Prev[b] \in stubs
      PROVE  Prev[b] = StartCheckpoint
  <2>1. Prev[b] \in Checkpoints /\ Height[Prev[b]] <= Height[top] /\ Height[StartCheckpoint] <= Height[top]
    BY <1>1, <1>2, <1>7
  <2>2. ~ (Height[Prev[b]] > Height[StartCheckpoint])
    BY <1>1, <1>3, <1>6, <1>7 DEF Rooted
  <2>3. Height[Prev[b]] = Height[StartCheckpoint]
    BY <1>1, <1>2, <1>3, <1>5, <2>1, <2>2
  <2> QED BY <1>1, <2>1, <2>3, CheckpointsAssumption
<1>8. StartCheckpoint \in Ancestors[b]
  BY <1>1, <1>7, RootedParent
<1> QED BY <1>1, <1>3, <1>5, <1>6, <1>8 DEF top

\* The walk from a block at most one above lastBlock comes to each block of its chain that is neither below
\* StartCheckpoint nor more than an interval below.
LEMMA DeepWalk ==
    ASSUME TypeOK, Rooted, NEW S, S \subseteq Blocks, JoinedAbove(S, Deep), NEW b \in Blocks,
           Height[b] <= Height[lastBlock] + 1, Height[b] > Deep => Prev[b] \in S,
           NEW j \in Chain(b), Height[j] >= Height[StartCheckpoint], Height[j] >= Deep
    PROVE  j \in Walk(S, b)
<1>1. /\ lastBlock \in Blocks /\ StartCheckpoint \in Blocks /\ j \in Blocks /\ \A z \in Blocks : Height[z] \in Nat
      /\ \A z \in Chain(b) : z \in Blocks
  BY BlocksAssumption, BranchClosed, CheckpointsAssumption DEF TypeOK
<1>2. Deep \in Int
  BY DeepBelow
<1>3. Height[j] \in Nat /\ Height[j] <= Height[b]
  BY <1>1, BranchClosed
<1>4. ASSUME NEW x \in Ancestors[b], Height[x] > Height[j]
      PROVE  x \notin stubs
  <2>1. x \in Blocks /\ Height[x] < Height[b]
    BY AncestorsBelow
  <2>2. Height[x] > Height[StartCheckpoint] /\ ~ (Height[x] > Height[lastBlock])
    BY <1>1, <1>4, <2>1
  <2> QED BY <2>2 DEF Rooted
<1>5. ASSUME NEW x \in Chain(b), Height[x] > Height[j], x = b \/ x \in S
      PROVE  Prev[x] \in S /\ Prev[x] \in Blocks
  <2>1. x \in Blocks /\ Height[x] > Deep
    BY <1>1, <1>2, <1>5
  <2>2. CASE x = b
    BY <2>1, <2>2
  <2>3. CASE x # b
    <3>1. x \in Ancestors[b] /\ x \in S
      BY <1>5, <2>3 DEF Chain
    <3>2. x \notin stubs
      BY <1>4, <1>5, <3>1
    <3> QED BY <2>1, <3>1, <3>2 DEF JoinedAbove
  <2> QED BY <2>2, <2>3
<1>6. \A x \in Chain(b) : Height[x] >= Height[j] => x \in Walk(S, b)
  BY <1>3, <1>4, <1>5, WalkReaches
<1> QED BY <1>3, <1>6

\* The walk from the new block of a higher fork and the walk from lastBlock meet.
LEMMA WalksMeet ==
    ASSUME Safe, Rooted, JoinedAbove(blocks, Deep), SyncedPeers, ShortForks,
           NEW p \in Peers, NEW b \in Blocks, NewBlock(b), ~ Postponed(p, b), ~ OldFork(b), Height[b] > Height[lastBlock]
    PROVE  Walk(Kept(b) \cup {b}, b) \cap MainChain(Kept(b) \cup {b}) # {}
<1> DEFINE S == Kept(b) \cup {b}
<1>1. /\ TypeOK /\ lastBlock \in Blocks /\ StartCheckpoint \in Blocks /\ Prev[b] \in blocks
      /\ \A z \in Blocks : Height[z] \in Nat
      /\ Height[Highest(Checkpoints)] \in Nat
  BY BlocksAssumption, CheckpointsAssumption, MostRecentCheckpoint DEF NewBlock, Accepted, Safe, Typed, TypeOK
<1>2. /\ Height[b] = Height[lastBlock] + 1 /\ Height[b] > Height[Highest(Checkpoints)]
      /\ StartCheckpoint \in Ancestors[b]
  BY <1>1, ForkParent
<1>3. Deep \in Int /\ Deep <= Height[b] - D /\ D \in Nat
  <2>1. Height[lastBlock] + 1 \in Nat
    BY <1>1
  <2>2. Since(Height[lastBlock] + 1) \in Nat /\ Since(Height[lastBlock] + 1) <= Height[lastBlock] + 1
    BY <2>1, SinceType
  <2> QED BY <1>2, <2>1, <2>2, ParametersAssumption DEF Deep
<1>4. PICK x \in Chain(b) \cap Chain(lastBlock) : Height[x] >= Height[b] - D
  BY <1>1, <1>2 DEF ShortForks
<1>5. x \in Blocks
  BY <1>4, BranchClosed
<1>6. \E j \in Chain(b) \cap Chain(lastBlock) : Height[j] >= Height[StartCheckpoint] /\ Height[j] >= Deep
  <2>1. CASE Height[x] >= Height[StartCheckpoint]
    BY <1>1, <1>3, <1>4, <1>5, <2>1
  <2>2. CASE ~ (Height[x] >= Height[StartCheckpoint])
    <3>1. StartCheckpoint \in Chain(b) \cap Chain(lastBlock)
      BY <1>2 DEF Chain, Rooted
    <3> QED BY <1>1, <1>3, <1>4, <1>5, <2>2, <3>1
  <2> QED BY <2>1, <2>2
<1>7. PICK j \in Chain(b) \cap Chain(lastBlock) : Height[j] >= Height[StartCheckpoint] /\ Height[j] >= Deep
  BY <1>6
<1>8. JoinedAbove(S, Deep) /\ S \subseteq Blocks /\ Prev[b] \in S
  <2>1. Deep >= Deep
    BY <1>3
  <2> QED BY <1>1, <1>3, <2>1, KeptJoined
<1>9. lastBlock \in S
  BY <1>1, LastBlockSurvives DEF Safe
<1> HIDE DEF S
<1>10. j \in Walk(S, b)
  BY <1>1, <1>2, <1>7, <1>8, DeepWalk
<1>11. j \in MainChain(S)
  <2>1. CASE lastBlock \in stubs
    <3>1. ~ (Height[lastBlock] > Height[StartCheckpoint])
      BY <1>1, <2>1 DEF Rooted
    <3>2. j \in Blocks /\ Height[j] <= Height[lastBlock]
      BY <1>1, <1>7, BranchClosed
    <3>3. Height[j] = Height[lastBlock]
      BY <1>1, <1>7, <3>1, <3>2
    <3>4. lastBlock \in Chain(lastBlock)
      BY DEF Chain
    <3>5. j = lastBlock
      BY <1>1, <1>7, <3>3, <3>4, BranchOrder
    <3> QED BY <2>1, <3>5 DEF MainChain
  <2>2. CASE lastBlock \notin stubs
    <3>1. Height[lastBlock] > Deep => Prev[lastBlock] \in S
      BY <1>8, <1>9, <2>2 DEF JoinedAbove
    <3>2. Height[lastBlock] <= Height[lastBlock] + 1
      BY <1>1
    <3>3. j \in Walk(S, lastBlock)
      BY <1>1, <1>7, <1>8, <3>1, <3>2, DeepWalk
    <3> QED BY <2>2, <3>3 DEF MainChain
  <2> QED BY <2>1, <2>2
<1>12. Walk(S, b) \cap MainChain(S) # {}
  BY <1>10, <1>11
<1> QED BY <1>12 DEF S

(***************************************************************************)
(* What a relayed block does to the chain that is followed.                *)
(***************************************************************************)
\* The heights are those of the chain, and a change of the chain is one FollowedChain allows.
Follows ==
    /\ Held(lastBlock', txHeight')
    /\ \/ UNCHANGED <<lastBlock, txHeight>>
       \/ lastBlock' \in Blocks /\ Height[lastBlock'] > Height[lastBlock]

\* The branches that leave lastBlock and the stubs alone and add no block.
LEMMA RootedFewer ==
    ASSUME Rooted, blocks' \subseteq blocks, UNCHANGED <<stubs, lastBlock>>
    PROVE  Rooted'
  BY DEF Rooted

\* The next block of the main chain.
LEMMA NextFollows ==
    ASSUME Safe, Following, ConfirmedOnce, NEW p \in Peers, NEW b \in Blocks, RelayedNext(p, b)
    PROVE  Rooted' /\ Follows
<1>1. /\ lastBlock' = b /\ Prev[b] = lastBlock /\ blocks' \subseteq blocks \cup {b} /\ stubs' = stubs \ {b}
      /\ Verified(b) /\ txHeight' = UpdateTransactions({b}, txHeight)
  BY DEF RelayedNext, Accepted, Kept
<1>2. /\ lastBlock \in Blocks /\ \A z \in Blocks : Height[z] \in Nat
      /\ stubs \subseteq Checkpoints /\ Checkpoints \subseteq Blocks
  BY BlocksAssumption, CheckpointsAssumption DEF Safe, Typed, TypeOK
<1>3. Height[b] = Height[lastBlock] + 1 /\ Ancestors[b] = {lastBlock} \cup Ancestors[lastBlock]
  BY <1>1, <1>2, BlocksAssumption, AncestorsAssumption
<1>4. StartCheckpoint \in Ancestors[b]
  BY <1>3 DEF Following, Rooted, Chain
<1>5. ASSUME NEW c \in stubs', Height[c] > Height[StartCheckpoint]
      PROVE  Height[c] > Height[b]
  <2>1. c \in stubs /\ c \in Checkpoints /\ c # b
    BY <1>1, <1>2, <1>5
  <2>2. Height[c] > Height[lastBlock]
    BY <1>5, <2>1 DEF Following, Rooted
  <2>3. Height[c] # Height[b]
    BY <1>1, <2>1, CheckpointsAssumption DEF Verified, Heights
  <2> QED BY <1>2, <1>3, <2>1, <2>2, <2>3
<1>6. Rooted'
  <2>1. StartCheckpoint \in Chain(b)
    BY <1>4 DEF Chain
  <2>2. \A x \in blocks' \ stubs' : StartCheckpoint \in Ancestors[x]
    BY <1>1, <1>4 DEF Following, Rooted
  <2> QED BY <1>1, <1>5, <2>1, <2>2 DEF Rooted
<1>7. Held(Prev[b], txHeight)
  BY <1>1 DEF Following
<1>8. Held(b, UpdateTransactions({b}, txHeight))
  BY <1>1, <1>2, <1>7, HeldNext
<1>9. Held(lastBlock', txHeight')
  BY <1>1, <1>8
<1>10. Height[lastBlock'] > Height[lastBlock]
  BY <1>1, <1>2, <1>3
<1> QED BY <1>1, <1>6, <1>9, <1>10 DEF Follows

\* A block the chain has already.
LEMMA ExistingFollows ==
    ASSUME Safe, Fresh, Following, ConfirmedOnce, NEW p \in Peers, NEW b \in Blocks, RelayedExisting(p, b)
    PROVE  Rooted' /\ Follows
<1>1. /\ Prev[b] \in blocks /\ Prev[b] # lastBlock /\ lastBlock' = lastBlock /\ blocks' \subseteq blocks
      /\ stubs' \in {stubs, stubs \ {b}}
      /\ \/ txHeight' = txHeight
         \/ b \in MainChain(Kept(b)) /\ txHeight' = UpdateTransactions({b}, txHeight)
  BY DEF RelayedExisting, Accepted, Kept
<1>2. b \notin stubs
  BY <1>1, StubsStay DEF Following
<1>3. Rooted'
  BY <1>1, <1>2, RootedFewer DEF Following
<1>4. txHeight' = txHeight
  <2>1. ASSUME b \in MainChain(Kept(b))
        PROVE  UpdateTransactions({b}, txHeight) = txHeight
    <3>1. b \in Chain(lastBlock) /\ lastBlock \in Blocks /\ Held(lastBlock, txHeight)
      BY <2>1 DEF MainChain, Walk, Linked, Chain, Safe, Typed, TypeOK, Following
    <3> QED BY <3>1, HeldSame
  <2> QED BY <1>1, <2>1
<1>5. Held(lastBlock', txHeight')
  BY <1>1, <1>4 DEF Following
<1> QED BY <1>1, <1>3, <1>4, <1>5 DEF Follows

\* A block of a fork that gets no higher than the main chain.
LEMMA ForkFollows ==
    ASSUME Safe, Following, SyncedPeers, NEW p \in Peers, NEW b \in Blocks, RelayedFork(p, b)
    PROVE  Rooted' /\ Follows
<1>1. /\ NewBlock(b) /\ ~ Postponed(p, b) /\ ~ OldFork(b) /\ blocks' \subseteq blocks \cup {b}
      /\ UNCHANGED <<stubs, lastBlock, txHeight>>
  BY DEF RelayedFork, Kept
<1>2. StartCheckpoint \in Ancestors[b]
  BY <1>1, ForkParent DEF Following
<1>3. Rooted'
  BY <1>1, <1>2 DEF Following, Rooted
<1>4. Held(lastBlock', txHeight')
  BY <1>1 DEF Following
<1> QED BY <1>1, <1>3, <1>4 DEF Follows

\* A block of a fork that gets higher than the main chain.
LEMMA ReorganizesFollows ==
    ASSUME Safe, Following, SyncedPeers, ShortForks, ConfirmedOnce,
           NEW p \in Peers, NEW b \in Blocks, RelayedReorganizes(p, b)
    PROVE  Rooted' /\ Follows
<1> DEFINE S == Kept(b) \cup {b}
           fork == Walk(S, b)
           main == MainChain(S)
<1>1. /\ NewBlock(b) /\ ~ Postponed(p, b) /\ ~ OldFork(b) /\ Height[b] > Height[lastBlock]
      /\ blocks' \subseteq blocks \cup {b} /\ lastBlock' = b /\ UNCHANGED stubs
      /\ fork \cap main # {} => txHeight' = Reorganized(fork, main)
  BY DEF RelayedReorganizes, Kept
<1>2. fork \cap main # {}
  BY <1>1, WalksMeet DEF Following
<1>3. Held(b, Reorganized(fork, main))
  <2>1. TypeOK /\ Held(lastBlock, txHeight)
    BY DEF Safe, Typed, Following
  <2> HIDE DEF S
  <2> QED BY <1>2, <2>1, HeldReorganized
<1>4. /\ Height[lastBlock] >= Height[Highest(Checkpoints)] /\ StartCheckpoint \in Ancestors[b]
  BY <1>1, ForkParent DEF Following
<1>5. ASSUME NEW c \in stubs', Height[c] > Height[StartCheckpoint]
      PROVE  Height[c] > Height[b]
  <2>1. c \in stubs /\ c \in Checkpoints /\ c \in Blocks /\ lastBlock \in Blocks
    BY <1>1, <1>5, CheckpointsAssumption DEF Safe, Typed, TypeOK
  <2>2. Height[c] > Height[lastBlock]
    BY <1>5, <2>1 DEF Following, Rooted
  <2> QED BY <1>4, <2>1, <2>2, MostRecentCheckpoint, BlocksAssumption
<1>6. Rooted'
  <2>1. StartCheckpoint \in Chain(b)
    BY <1>4 DEF Chain
  <2>2. \A x \in blocks' \ stubs' : StartCheckpoint \in Ancestors[x]
    BY <1>1, <1>4 DEF Following, Rooted
  <2> HIDE DEF S, fork, main
  <2> QED BY <1>1, <1>5, <2>1, <2>2 DEF Rooted
<1> HIDE DEF fork, main
<1>7. Held(lastBlock', txHeight')
  BY <1>1, <1>2, <1>3
<1> QED BY <1>1, <1>6, <1>7 DEF Follows

\* Every branch of _peerRelayedBlock.
LEMMA RelayFollows ==
    ASSUME Safe, Fresh, Following, Environment, NEW p \in Peers, NEW b \in Blocks, NEW known \in BOOLEAN,
           PeerRelayedBlock(p, b, known)
    PROVE  Following' /\ Follows
<1>1. SyncedPeers /\ ShortForks /\ ConfirmedOnce /\ TypeOK
  BY DEF Environment, Safe, Typed
<1>2. Rooted' /\ Follows
  <2> DEFINE Quiet == /\ blocks' \subseteq blocks /\ UNCHANGED <<stubs, lastBlock, txHeight>>
  <2>1. ASSUME Quiet
        PROVE  Rooted' /\ Follows
    <3>1. Rooted'
      BY <2>1, RootedFewer DEF Following
    <3>2. Held(lastBlock', txHeight')
      BY <2>1 DEF Following
    <3> QED BY <2>1, <3>1, <3>2 DEF Follows
  <2>2. \/ Quiet
        \/ RelayedNext(p, b) \/ RelayedExisting(p, b) \/ RelayedFork(p, b) \/ RelayedReorganizes(p, b)
    BY DEF PeerRelayedBlock, RelayedIgnored, RelayedOrphan, RelayedInvalid, RelayedEarly, RelayedOldFork, Kept
  <2> HIDE DEF Quiet
  <2> QED BY <1>1, <2>1, <2>2, NextFollows, ExistingFollows, ForkFollows, ReorganizesFollows
<1>3. JoinedAbove(blocks, Deep)'
  <2>1. Deep \in Int /\ Deep >= Deep
    BY <1>1, DeepBelow
  <2>2. /\ lastBlock' \in Blocks /\ Height[lastBlock'] >= Height[lastBlock]
        /\ \A x \in blocks' \ stubs' : Height[x] > Deep => Prev[x] \in blocks'
    BY <2>1, RelayJoined DEF Following
  <2>3. /\ Height[lastBlock] + 1 \in Nat /\ Height[lastBlock'] + 1 \in Nat
        /\ Height[lastBlock] + 1 <= Height[lastBlock'] + 1 /\ D \in Nat
    BY <1>1, <2>2, BlocksAssumption, ParametersAssumption DEF TypeOK
  <2>4. /\ Since(Height[lastBlock] + 1) <= Since(Height[lastBlock'] + 1)
        /\ Since(Height[lastBlock] + 1) \in Nat /\ Since(Height[lastBlock'] + 1) \in Nat
    BY <2>3, SinceGrows, SinceType
  <2>5. Since(Height[lastBlock'] + 1) - D >= Deep /\ Since(Height[lastBlock'] + 1) - D \in Int
    BY <2>3, <2>4 DEF Deep
  <2>6. blocks' \subseteq Blocks
    <3>1. Typed'
      BY RelayTyped DEF Safe
    <3> QED BY <3>1 DEF Typed, TypeOK
  <2>7. \A x \in blocks' \ stubs' : Height[x] > Since(Height[lastBlock'] + 1) - D => Prev[x] \in blocks'
    BY <2>1, <2>2, <2>5, <2>6, BlocksAssumption
  <2> QED BY <2>7 DEF JoinedAbove, Deep
<1> QED BY <1>2, <1>3 DEF Following, Follows

\* The other steps leave the chain alone.
LEMMA OtherFollows ==
    ASSUME Following, UNCHANGED <<blocks, stubs, lastBlock, txHeight>>
    PROVE  Following' /\ Follows
  BY DEF Following, Rooted, JoinedAbove, Deep, Follows

SafeFollowing == SafeFresh /\ Following

\* A step of a thread or of the database; only one that runs changes anything.
LEMMA StepFollows ==
    ASSUME Environment, SafeFollowing, [Next]_vars
    PROVE  Following' /\ Follows
<1> USE DEF SafeFollowing, SafeFresh
<1>1. CASE UNCHANGED vars
  BY <1>1, OtherFollows DEF vars, chainVars
<1>2. ASSUME NEW p \in Peers, NEW b \in Blocks, BlockArrives(p, b)
      PROVE  Following' /\ Follows
  BY <1>2, RelayFollows DEF BlockArrives
<1>3. ASSUME NEW p \in Peers, RelayNext(p)
      PROVE  Following' /\ Follows
  <2>1. calls[p].next \in Blocks /\ calls[p].known \in BOOLEAN /\ running
    BY <1>3 DEF RelayNext, Safe, Typed, TypeOK, Calls, BlockIds
  <2> QED BY <1>3, <2>1, RelayFollows DEF RelayNext
<1>4. ASSUME NEW p \in Peers, SaveCallback(p) \/ DownloadPeer(p)
      PROVE  Following' /\ Follows
  BY <1>4, OtherFollows DEF SaveCallback, DownloadPeer, LoadBloomFilter, chainVars
<1>5. CASE LoadBloomFilter \/ WriteBlocks
  BY <1>5, OtherFollows DEF LoadBloomFilter, WriteBlocks, chainVars
<1> QED BY <1>1, <1>2, <1>3, <1>4, <1>5 DEF Next

\* A new wallet has no transaction in the chain of StartCheckpoint.
LEMMA InitFollows ==
    ASSUME Environment, Init
    PROVE  SafeFollowing
<1>1. SafeFresh
  BY InitSafe, CheckpointsAssumption DEF Init, SafeFresh, Fresh, OneBranchBelow, AheadAreStubs, Waits
<1>2. lastBlock = StartCheckpoint /\ blocks = Checkpoints /\ stubs = Checkpoints
  BY DEF Init
<1>3. Rooted
  <2>1. StartCheckpoint \in Chain(StartCheckpoint)
    BY DEF Chain
  <2> QED BY <1>2, <2>1 DEF Rooted
<1>4. JoinedAbove(blocks, Deep)
  BY <1>2 DEF JoinedAbove
<1>5. Held(StartCheckpoint, txHeight)
  <2>1. txHeight \in [Txs -> Nat] /\ \A t \in Txs : txHeight[t] = Unconfirmed
    BY ParametersAssumption DEF Init
  <2>2. \A x \in Chain(StartCheckpoint) : BlockTxs[x] = {}
    BY DEF Environment, NewWallet
  <2> QED BY <2>1, <2>2 DEF Held
<1> QED BY <1>1, <1>2, <1>3, <1>4, <1>5 DEF SafeFollowing, Following

\* However the blocks of forks are relayed and whatever is freed meanwhile, _peerRelayedBlock changes lastBlock
\* only for a higher block, and the wallet's transactions have exactly the heights of the chain of lastBlock: the
\* peer manager implements FollowedChain, when forks are not longer than a difficulty interval, peers have
\* reported heights past the checkpoints, the wallet is new, and no chain has a transaction twice.
THEOREM FollowsChainCorrect ==
    ASSUME Environment
    PROVE  Spec => FollowsChain
<1>1. ASSUME Init
      PROVE  SafeFollowing /\ Followed!Init
  <2>1. SafeFollowing
    BY <1>1, InitFollows
  <2>2. lastBlock = StartCheckpoint /\ StartCheckpoint \in Blocks /\ Held(StartCheckpoint, txHeight)
    BY <1>1, <2>1, CheckpointsAssumption DEF Init, SafeFollowing, Following
  <2>3. txHeight = Followed!HeightsIn(StartCheckpoint)
    BY <2>2, HeldIsFollowed DEF Environment
  <2> QED BY <2>1, <2>2, <2>3 DEF Followed!Init
<1>2. ASSUME SafeFollowing, [Next]_vars
      PROVE  SafeFollowing' /\ [Followed!Next]_<<lastBlock, txHeight>>
  <2>1. Following' /\ Follows
    BY <1>2, StepFollows
  <2>2. SafeFresh'
    <3>1. Safe'
      BY <1>2, NextTyped, NextBest DEF SafeFollowing, SafeFresh, Safe, Typed, TypeOK, CheckpointsKept, LastBlockIsBest, OrphanIndex, vars, chainVars
    <3>2. (running => Fresh)'
      BY <1>2, StepFresh DEF SafeFollowing
    <3> QED BY <3>1, <3>2 DEF SafeFresh
  <2>3. CASE UNCHANGED <<lastBlock, txHeight>>
    BY <2>1, <2>2, <2>3 DEF SafeFollowing
  <2>4. CASE lastBlock' \in Blocks /\ Height[lastBlock'] > Height[lastBlock]
    <3>1. Held(lastBlock', txHeight')
      BY <2>1 DEF Follows
    <3>2. txHeight' = Followed!HeightsIn(lastBlock')
      BY <2>4, <3>1, HeldIsFollowed DEF Environment
    <3>3. Followed!Follow(lastBlock')
      BY <2>4, <3>2 DEF Followed!Follow
    <3>4. Followed!Next
      BY <2>4, <3>3 DEF Followed!Next
    <3> QED BY <2>1, <2>2, <3>4 DEF SafeFollowing
  <2> QED BY <2>1, <2>3, <2>4 DEF Follows
<1> QED BY <1>1, <1>2, PTL DEF Spec, FollowsChain, Followed!Spec
=============================================================================
