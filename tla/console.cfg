SPECIFICATION Spec
CONSTANTS
  MaxRuns = 2
  MaxDeaths = 1
  MaxThreads = 2
  MaxEvents = 2
INVARIANT FailedAfterExit
PROPERTIES NeverRevived DeadRunNoticed StopEnds
CHECK_DEADLOCK FALSE
