SPECIFICATION Spec
CONSTANTS
    CWND = 2
    BE_BACKLOG = 1
    MaxTries = 2
    MaxSeq <- MCSeq
    MaxEpoch = 2
    Budgets <- MCBudgets
CHECK_DEADLOCK FALSE
INVARIANTS ForgottenIsDelivered BacklogWaits UpWithoutFault
PROPERTIES Channel CatchesUp
