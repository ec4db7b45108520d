SPECIFICATION LossSpec
CONSTANTS
    t1 = t1
    t2 = t2
    Tx = {t1, t2}
    Fragile = {}
    Oversized = {}
    Conf = 1
    ReorgDepth = 1
    HeadLag = 0
    MaxHead = 3
    MaxFaults <- FinalizerOnce
    BatchBlocks = 2
    ScanFaults = TRUE
    SaLimit = 1
PROPERTIES
    DepositEnds
