------------------------ MODULE MCBRPeerManagerChain ------------------------
(* Block trees for BRPeerManagerChain, with difficulty intervals of two and three. *)
EXTENDS BRPeerManagerChain

\* the trees below meet the hypotheses under which the peer manager follows one chain
ASSUME EnvironmentAssumption == Environment

\* one chain over two transitions of an interval of three, with a fork that passes the second one first
IntervalPrev == [g |-> "none", a1 |-> "g", a2 |-> "a1", a3 |-> "a2", a4 |-> "a3", a5 |-> "a4", b5 |-> "a4", b6 |-> "b5"]
IntervalBlocks == {"g", "a1", "a2", "a3", "a4", "a5", "b5", "b6"}
IntervalAncestors == [g |-> {}, a1 |-> {"g"}, a2 |-> {"g", "a1"}, a3 |-> {"g", "a1", "a2"},
                      a4 |-> {"g", "a1", "a2", "a3"}, a5 |-> {"g", "a1", "a2", "a3", "a4"},
                      b5 |-> {"g", "a1", "a2", "a3", "a4"}, b6 |-> {"g", "a1", "a2", "a3", "a4", "b5"}]
IntervalHeight == [g |-> 0, a1 |-> 1, a2 |-> 2, a3 |-> 3, a4 |-> 4, a5 |-> 5, b5 |-> 5, b6 |-> 6]
IntervalTxs == [g |-> {}, a1 |-> {}, a2 |-> {}, a3 |-> {}, a4 |-> {}, a5 |-> {"t"}, b5 |-> {}, b6 |-> {"t"}]
IntervalPeer == [p |-> 4]

\* with an interval of two: a fork that passes a transition first, a checkpoint a2 above the one the
\* download starts from, a block x2 that conflicts with the checkpoint, one on a fork below it, and a block
\* x4 with a wrong target
CheckpointPrev == [g |-> "none", a1 |-> "g", y1 |-> "g", a2 |-> "a1", x2 |-> "a1", a3 |-> "a2",
                   b3 |-> "a2", x4 |-> "a3", b4 |-> "b3"]
CheckpointBlocks == {"g", "a1", "y1", "a2", "x2", "a3", "b3", "x4", "b4"}
CheckpointAncestors == [g |-> {}, a1 |-> {"g"}, y1 |-> {"g"}, a2 |-> {"g", "a1"}, x2 |-> {"g", "a1"},
                        a3 |-> {"g", "a1", "a2"}, b3 |-> {"g", "a1", "a2"},
                        x4 |-> {"g", "a1", "a2", "a3"}, b4 |-> {"g", "a1", "a2", "b3"}]
CheckpointHeight == [g |-> 0, a1 |-> 1, y1 |-> 1, a2 |-> 2, x2 |-> 2, a3 |-> 3, b3 |-> 3, x4 |-> 4,
                     b4 |-> 4]
CheckpointTxs == [g |-> {}, a1 |-> {"v"}, y1 |-> {}, a2 |-> {}, x2 |-> {}, a3 |-> {"t", "u"},
                  b3 |-> {}, x4 |-> {}, b4 |-> {"t"}]
CheckpointPeers == [p |-> 4, q |-> 3]

\* one chain over three transitions
LinePrev == [g |-> "none", a1 |-> "g", a2 |-> "a1", a3 |-> "a2", a4 |-> "a3"]
LineBlocks == {"g", "a1", "a2", "a3", "a4"}
LineAncestors == [g |-> {}, a1 |-> {"g"}, a2 |-> {"g", "a1"}, a3 |-> {"g", "a1", "a2"},
                  a4 |-> {"g", "a1", "a2", "a3"}]
LineHeight == [g |-> 0, a1 |-> 1, a2 |-> 2, a3 |-> 3, a4 |-> 4]
LineTxs == [g |-> {}, a1 |-> {}, a2 |-> {}, a3 |-> {"t"}, a4 |-> {}]
LinePeer == [q |-> 2]
=============================================================================
