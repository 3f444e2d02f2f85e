---------------------------- MODULE FollowedChain ----------------------------
(***************************************************************************)
(* What the peer manager promises the wallet: it follows one block chain,  *)
(* changes to another one only for a higher block, and the wallet's        *)
(* transactions have the heights of the blocks of exactly that chain.      *)
(***************************************************************************)
EXTENDS Integers, FiniteSetsExt

CONSTANTS
    Blocks,           \* the blocks that exist
    Height,           \* Height[b]: number of blocks below b
    Ancestors,        \* Ancestors[b]: the blocks below b
    StartCheckpoint,  \* where the chain starts
    Txs,              \* transactions of the wallet
    BlockTxs,         \* BlockTxs[b]: those of b
    Unconfirmed       \* the height of a transaction in no block

VARIABLES
    best,             \* the last block of the chain
    confirmed         \* confirmed[t]: the height of t

\* the heights of the transactions in the chain that ends in b
HeightsIn(b) ==
    [t \in Txs |->
        LET holders == {x \in Ancestors[b] \cup {b} : t \in BlockTxs[x]}
        IN  IF holders = {} THEN Unconfirmed ELSE Min({Height[x] : x \in holders})]

Init == best = StartCheckpoint /\ confirmed = HeightsIn(StartCheckpoint)

Follow(b) ==
    /\ Height[b] > Height[best]
    /\ best' = b
    /\ confirmed' = HeightsIn(b)

Next == \E b \in Blocks : Follow(b)

Spec == Init /\ [][Next]_<<best, confirmed>>
=============================================================================
