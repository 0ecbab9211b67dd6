SPECIFICATION Spec
CONSTANTS
    MaxTasks = 2
    MaxRedocks = 0
    Shapes <- StayShapes
    Budgets <- CancelBudgets
CHECK_DEADLOCK FALSE
PROPERTIES LatePickedIgnored
