SPECIFICATION FairSpec
CONSTANTS
    Addrs = {"a", "b"}
    NoPeer = "none"
    LastBlock <- MixedBlocks
    Txs = {"t"}
    Parents <- NoParents
    MaxConnect = 2
    MaxFail = 2
    MaxFaults = 1
INVARIANTS
    TypeOK
    DownloadPeerLives
    RelaysAreConnected
PROPERTIES
    PublishAnswered
    SyncEnds
CHECK_DEADLOCK FALSE
