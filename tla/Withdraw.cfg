SPECIFICATION FairSpec
CONSTANTS
    MaxWithdraws = 3
    MaxFaults = 2
    MaxOther = 1
    Unsigned = {1}
INVARIANTS
    NoWithdrawLost
    RejectedPaidWasLost
    WithdrawInv
PROPERTIES
    Refinement
    WithdrawEnds
