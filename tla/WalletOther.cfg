SPECIFICATION SpecSession
CHECK_DEADLOCK FALSE
CONSTANTS
    Txs <- OtherTxs
    Inputs <- OtherInputs
    Outputs <- OtherOutputs
    LockTime <- OtherLockTime
    Replaceable = {}
    GapLimit <- SmallGap
    ExtraGap = 1
    Unconfirmed = 99
    MaxLockHeight = 50
    MaxHeight = 1
    MaxTime = 51
    MaxBlock = 2
    MaxWrites = 3
INVARIANTS
    SavedMatchesListed
    ConfirmedSurvivesKill
    NoDanglingTx
