SPECIFICATION Spec
CONSTANTS
  NumSteps = 2
  Results = {ok}
  Tools = {2}
  Models = {1}
  AtMostOnce = {2}
  Verifiable = {}
  Dedup = {}
  StepMaxAttempts = 2
  Raising = {1, 2}
  Workers = {w1, w2}
  NoWorker = NoWorker
  WorkerConcurrency = 1
  Knows = {w1, w2}
  ReturnKinds = {"json", "opaque"}
  MaxToolCalls = {}
  MaxModelCalls = {}
  MaxTokens = {}
  TokensPerCall = 2
  WallLimited = FALSE
  Timely = TRUE
  MaxDeliveries = 3
  MaxFaults = 1
  MaxCancels = 1
SYMMETRY Symmetry
CHECK_DEADLOCK FALSE
INVARIANTS
  SingleOwner
  NotStranded
  OneOutcomePerStep
  CancelStopsNewSteps
  VerdictIsLatest
  RepeatsAreShown
PROPERTIES
  TerminalIsFinal
