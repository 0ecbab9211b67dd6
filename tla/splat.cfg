SPECIFICATION Spec
CONSTANTS
  MaxJobs = 2
  Keys = {"warehouse", "office"}
  MaxFaults = 1
  MaxStops = 1
  MaxIsaac = 1
INVARIANTS NoDoubleBuild TrainerAccounted DoneHasModel
PROPERTIES ImplementsJobLife CancelBeatsTraining EveryJobEnds
CHECK_DEADLOCK FALSE
