SPECIFICATION Spec
CONSTANTS
    MaxTasks = 2
    MaxRedocks = 1
    Shapes <- MCShapes
    Budgets <- MCBudgets
CHECK_DEADLOCK FALSE
INVARIANTS BoxAccountedFor AnswersAreTrue DrivesAlone
PROPERTIES TaskEnds CancelReleases
