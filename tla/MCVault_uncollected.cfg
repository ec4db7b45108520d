SPECIFICATION Spec
CONSTANTS
    a = a
    Deposits = 2
    Address <- Addresses
    To <- TwoAlike
    Value <- TwoValues
    BatchSize = 2
    FaultKinds = {"transfer"}
    MaxFaults = 1
    MaxTxs = 5
INVARIANTS
    SuccessfulIsCollected
CHECK_DEADLOCK FALSE
