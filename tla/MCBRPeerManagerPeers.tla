------------------------ MODULE MCBRPeerManagerPeers ------------------------
(* Peers and transactions for BRPeerManagerPeers. *)
EXTENDS BRPeerManagerPeers

\* a is one block ahead of the wallet, b reports the height the wallet has
MixedBlocks == [a |-> 1, b |-> 0]
NoParents == [t |-> {}]
=============================================================================
