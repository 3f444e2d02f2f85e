SPECIFICATION Spec
CONSTANTS
    Blocks <- CheckpointBlocks
    NoBlock = "none"
    Prev <- CheckpointPrev
    Height <- CheckpointHeight
    Ancestors <- CheckpointAncestors
    Checkpoints = {"g", "a2"}
    StartCheckpoint = "g"
    D = 2
    BadTarget = {"x4"}
    Txs = {"t", "u", "v"}
    BlockTxs <- CheckpointTxs
    Unconfirmed = 99
    Peers = {"p", "q"}
    PeerLastBlock <- CheckpointPeers
    MaxSaves = 1
INVARIANTS
    TypeOK
    SavesReload
    OrphansWait
PROPERTIES
    FollowsChain
