\* A connected fleet whose messages may be as slow as a bid window.
SPECIFICATION Spec
CONSTANTS
    Gateway = 0
    Robots = {1, 2}
    Costs = {1, 2}
    Infinity = 9
    MayPass = FALSE
    BidWindow = 1
    RebidDelay = 2
    StatusTimeout = 2
    TaskLease = 3
    Margin = 2
    Retention = 1
    FailedBackoff = 2
    MaxDelay = 1
    DriveTime = 1
    InOrder = FALSE
    SplitAnytime = FALSE
    Budget <- AuctionBudget
INVARIANTS TypeOK LoserWillHear
CHECK_DEADLOCK FALSE
