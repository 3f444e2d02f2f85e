SPECIFICATION SpecRescan
CONSTANTS
    Blocks <- LineBlocks
    NoBlock = "none"
    Prev <- LinePrev
    Height <- LineHeight
    Ancestors <- LineAncestors
    Checkpoints = {"g"}
    StartCheckpoint = "g"
    D = 2
    BadTarget = {}
    Txs = {"t"}
    BlockTxs <- LineTxs
    Unconfirmed = 99
    Peers = {"q"}
    PeerLastBlock <- LinePeer
    MaxSaves = 1
INVARIANTS
    RescanContinues
