SPECIFICATION LossSpec
CONSTANTS
    t1 = t1
    t2 = t2
    Tx = {t1, t2}
    Fragile = {t1, t2}
    Oversized = {}
    Conf = 1
    ReorgDepth = 1
    HeadLag = 1
    MaxHead = 3
    MaxFaults <- ObserverAndSa
    BatchBlocks = 2
    ScanFaults = TRUE
    SaLimit = 2
INVARIANTS
    CreditBacked
    FinalizedSettled
    ResendNeedsFault
    SafetyInv
    DiscardedCreditIsExplained
    LossIsExplained
PROPERTIES
    Refinement
    NeverResentOnceRecorded
    CursorMonotone
SYMMETRY Transfers
