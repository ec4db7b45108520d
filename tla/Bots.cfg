SPECIFICATION FairSpec
CONSTANTS
    BatchLimit = 2
    LastUser = 2
    MaxBotFaults = 1
    ChainCount = 2
    MaxProbes = 3
    MaxFailures = 1
    TestUser = 2
    Gift = 3
INVARIANTS
    NobodySkipped
PROPERTIES
    NoTransferAfterSave
    VerdictIsTrue
    CatchesUp
    EveryProbeEnds
CHECK_DEADLOCK FALSE
