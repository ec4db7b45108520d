SPECIFICATION Spec
CONSTANTS
    a = a
    Deposits = 2
    Address <- Addresses
    To <- TwoAlike
    Value <- TwoValues
    BatchSize = 2
    FaultKinds = {"call", "receipt", "transfer", "crash"}
    MaxFaults = 3
    MaxTxs = 6
INVARIANTS
    TypeOK
    SuccessfulWasMined
    UncollectedIsExplained
CHECK_DEADLOCK FALSE
