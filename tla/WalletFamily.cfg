SPECIFICATION SpecSession
CHECK_DEADLOCK FALSE
CONSTANTS
    Txs <- FamilyTxs
    Inputs <- FamilyInputs
    Outputs <- FamilyOutputs
    LockTime <- FamilyLockTime
    Replaceable = {}
    GapLimit <- SmallGap
    ExtraGap = 0
    Unconfirmed = 99
    MaxLockHeight = 50
    MaxHeight = 2
    MaxTime = 50
    MaxBlock = 2
    MaxWrites = 1
INVARIANTS
    HeightsFollowChain
    NoConflictIsValid
    SortedByHeight
PROPERTIES
    DependentsRemoved
