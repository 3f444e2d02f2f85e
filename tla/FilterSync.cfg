SPECIFICATION FairSpec
CONSTANTS
    Peers = {"a", "b"}
    NoPeer = "none"
    Pays <- Payments
    Mined = 2
    Gap = 2
    Spare = 1
    Batch = 2
    Far = 1
    MaxConnect = 2
    MaxDegrade = 1
    MaxFaults = 1
INVARIANTS
    TypeOK
    
PROPERTY SyncCompletes
CHECK_DEADLOCK FALSE
