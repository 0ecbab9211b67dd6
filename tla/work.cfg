\* A connected fleet that works, fails, finishes and cancels the task.
SPECIFICATION Spec
CONSTANTS
    Gateway = 0
    Robots = {1, 2}
    Costs = {1}
    Infinity = 9
    MayPass = FALSE
    BidWindow = 1
    RebidDelay = 2
    StatusTimeout = 2
    TaskLease = 3
    Margin = 2
    Retention = 8
    FailedBackoff = 2
    MaxDelay = 0
    DriveTime = 1
    InOrder = FALSE
    SplitAnytime = FALSE
    Budget <- WorkBudget
PROPERTY FinishedStops
CHECK_DEADLOCK FALSE
