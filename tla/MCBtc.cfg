SPECIFICATION FairSpec
CONSTANTS
    tx1 = tx1
    tx2 = tx2
    Output <- Outputs
    Tx <- Txs
    TxOf <- TwoOfOne
    BatchSize = 3
    MaxFaults = 1
INVARIANTS
    MissingHasSibling
    FinalizedHasUtxo
    RepostIsExplained
    DoubledHasTwoRecords
PROPERTIES
    Refinement
    FinalizedIsPosted
CHECK_DEADLOCK FALSE
