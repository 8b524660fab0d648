SPECIFICATION Spec
CONSTANTS
  NumSteps = 3
  Results = {ok}
  Tools = {1}
  Models = {2, 3}
  AtMostOnce = {}
  Verifiable = {}
  Dedup = {1}
  StepMaxAttempts = 2
  Raising = {1, 2, 3}
  Workers = {w1, w2, w3}
  NoWorker = NoWorker
  WorkerConcurrency = 1
  Knows = {w1, w2}
  ReturnKinds = {"json"}
  MaxToolCalls = {2}
  MaxModelCalls = {1}
  MaxTokens = {3}
  TokensPerCall = 2
  WallLimited = TRUE
  Timely = TRUE
  MaxDeliveries = 3
  MaxFaults = 1
  MaxCancels = 0
SYMMETRY Symmetry
CHECK_DEADLOCK FALSE
INVARIANTS
  SpendWithinCeiling
  UsageLossBounded
