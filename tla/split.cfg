\* Four nodes that split in two, and heal, once everybody knows the owner.
SPECIFICATION Spec
CONSTANTS
    Gateway = 0
    Robots = {1, 2, 3}
    Costs = {1}
    Infinity = 9
    MayPass = FALSE
    BidWindow = 1
    RebidDelay = 2
    StatusTimeout = 2
    TaskLease = 3
    Margin = 2
    Retention = 6
    FailedBackoff = 2
    MaxDelay = 0
    DriveTime = 1
    InOrder = TRUE
    SplitAnytime = FALSE
    Budget <- SplitBudget
INVARIANTS CutOffOwnerStops OneSideWorks
CHECK_DEADLOCK FALSE
