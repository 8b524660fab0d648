SPECIFICATION GatherSpec
CONSTANTS
  NumSteps = 2
  Results = {x, y}
  Workers = {w1, w2}
  NoWorker = NoWorker
  StepMaxAttempts = 2
  MaxDeliveries = 2
SYMMETRY Symmetry
CHECK_DEADLOCK FALSE
INVARIANTS
  ResultsLineUp
  BranchAtMostOnce
  NothingUnrecorded
