SPECIFICATION FairSpec
CONSTANTS
    w1 = w1
    w2 = w2
    eth1 = eth1
    eth2 = eth2
    btc1 = btc1
    btc2 = btc2
    NoKey = NoKey
    Worker = {w1, w2}
    Key <- Keys
    KeyType <- TypeOf
    MaxFaults = 1
INVARIANTS
    OneKeyPerType
    UndisturbedFileIsLedger
    UnreadableIsExplained
PROPERTIES
    WorkersReturn
CHECK_DEADLOCK FALSE
