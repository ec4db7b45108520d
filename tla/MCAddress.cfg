SPECIFICATION FairSpec
CONSTANTS
    evm1 = evm1
    evm2 = evm2
    validate = validate
    observer = observer
    validator = validator
    Task <- Tasks
    Process <- Processes
    ProcessOf <- Homes
    LastUser = 1
    MaxFaults = 2
INVARIANTS
    NoGap
    ViewCoversReported
PROPERTIES
    UsersGetAddresses
