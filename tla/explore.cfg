SPECIFICATION Spec
CONSTANTS
  MaxGoals = 2
  MaxTasks = 1
  MaxStatus = 1
  MaxEvents = 1
INVARIANTS HandleIsLatest NoLostGoal NoSelfBlame
PROPERTIES TaskStarts
CHECK_DEADLOCK FALSE
