SPECIFICATION Spec
CONSTANTS
    Devices = {"a"}
    Keys = {"k"}
    Second = 2
    MaxTime = 4
    MaxWrites = 2
    MaxSyncs = 2
    MaxFaults = 0
PROPERTY LastWriteWins
CHECK_DEADLOCK FALSE
