SPECIFICATION Spec
CONSTANTS
    t1 = t1
    t2 = t2
    Tx = {t1, t2}
    Fragile = {t1}
    Oversized = {}
    Conf = 1
    ReorgDepth = 0
    HeadLag = 0
    MaxHead = 3
    MaxFaults <- NoFaults
    BatchBlocks = 2
    ScanFaults = FALSE
    SaLimit = 2
INVARIANTS
    DiscardedWasReorged
