\* One robot's entry and another's beside it: saves, kills, full disks, lost files.
SPECIFICATION Spec
CONSTANTS
    Robots = {r0, r1}
    Primary = r0
    MaxVersion = 2
    MaxRuns = 2
    MaxEvents = 2
PROPERTIES ClaimsHold NothingLost StopAfterGrid FinishKeepsRun
CHECK_DEADLOCK FALSE
