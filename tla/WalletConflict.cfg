SPECIFICATION Spec
CONSTANTS
    Txs <- ConflictTxs
    Inputs <- ConflictInputs
    Outputs <- ConflictOutputs
    LockTime <- ConflictLockTime
    Replaceable = {"rival"}
    GapLimit <- SmallGap
    ExtraGap = 0
    Unconfirmed = 99
    MaxLockHeight = 50
    MaxHeight = 1
    MaxTime = 50
    MaxBlock = 2
    MaxWrites = 1
INVARIANTS
    TypeOK
    SavedMatchesListed
    LedgerAdds
    UtxosNotSpentByCounted
    ConfirmedIsCounted
    VerifiedIsCounted
    ConflictsAreConfirmed
    NoDanglingTx
PROPERTIES
    UnconfirmedDependentsRemoved
