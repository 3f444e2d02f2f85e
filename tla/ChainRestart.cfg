SPECIFICATION SpecRestart
CONSTANTS
    Blocks <- IntervalBlocks
    NoBlock = "none"
    Prev <- IntervalPrev
    Height <- IntervalHeight
    Ancestors <- IntervalAncestors
    Checkpoints = {"g"}
    StartCheckpoint = "g"
    D = 3
    BadTarget = {}
    Txs = {"t"}
    BlockTxs <- IntervalTxs
    Unconfirmed = 99
    Peers = {"p"}
    PeerLastBlock <- IntervalPeer
    MaxSaves = 1
INVARIANTS
    LastBlockIsBest
    NextTransitionVerifiable
    CheckpointsKept
PROPERTIES
    RecentBlocksHandled
