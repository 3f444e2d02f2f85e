----------------------- MODULE MCBRPeerManagerFilter -----------------------
(* Payments for BRPeerManagerFilter. *)
EXTENDS BRPeerManagerFilter

\* addresses out of order within the gap limit of 2, two of them in one block
Payments == <<{2}, {3, 4}, {5}>>
=============================================================================
