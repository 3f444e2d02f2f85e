SPECIFICATION Spec
CONSTANTS
    Txs <- PaymentTxs
    Inputs <- PaymentInputs
    Outputs <- PaymentOutputs
    LockTime <- PaymentLockTime
    Replaceable = {}
    GapLimit <- SmallGap
    ExtraGap = 1
    Unconfirmed = 99
    MaxLockHeight = 50
    MaxHeight = 2
    MaxTime = 50
    MaxBlock = 2
    MaxWrites = 1
INVARIANTS
    UpdatedHaveRows
