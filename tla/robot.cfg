\* One robot through wins, losses, failures, cancels, restarts and a boot, with the
\* code's status topic, which keeps one sample.
SPECIFICATION FairSpec
CONSTANTS
    Fleet = {t1, t2}
    Hand = {h}
    None = none
    StatusDepth = 1
    MaxUnread = 3
    Budgets <- RobotBudgets
INVARIANTS NoOrphanDrive WorkOnlyOwned CarriedToDropoff OnBoardIsCommitted
PROPERTY TaskLeaves
CHECK_DEADLOCK FALSE
