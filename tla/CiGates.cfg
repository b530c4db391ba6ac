\* Every gate of the repository, with up to three faults in a run.
SPECIFICATION GateSpec
CONSTANTS
  Stages <- AllStages
  MaxFaults = 3
INVARIANTS
  AcceptedMeansGreen
  PassedIsItsOwn
  GreenJobRanItsPlan
CHECK_DEADLOCK FALSE
