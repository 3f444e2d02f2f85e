SPECIFICATION FairSpec
CONSTANTS
    Devices = {"a", "b"}
    Keys = {"k"}
    Second = 2
    MaxTime = 3
    MaxWrites = 2
    MaxSyncs = 3
    MaxFaults = 1
INVARIANTS
    TypeOK
    RecordedIsEqual
PROPERTY SyncEnds
CHECK_DEADLOCK FALSE
