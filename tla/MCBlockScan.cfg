SPECIFICATION FairSpec
CONSTANTS
    observer = observer
    validator = validator
    btc = btc
    eth = eth
    usdc = usdc
    Caller = {observer, validator}
    Observer = observer
    Token = {btc, eth, usdc}
    Native = btc
    NoToken = NoToken
    Accounts <- Ours
    Block <- Blocks
    EvmTx <- EvmTransactions
    NoTx = NoTx
    Base = 3
    SelectorLen = 1
    WordLen = 2
    AddressLen = 1
    TransferFn <- SelectorOfTransfer
    TransferFromFn <- SelectorOfTransferFrom
    ZeroToken = eth
    PageSize = 2
    MaxReplacements = 2
    MaxFaults = 1
INVARIANTS
    ScanIsTheBlock
    RefusedOncePerToken
    InputIsReadAsMoved
PROPERTIES
    ScanEnds
