SPECIFICATION Spec
CONSTANTS
  NumSteps = 1
  Results = {ok}
  Tools = {}
  Models = {}
  AtMostOnce = {}
  Verifiable = {}
  Dedup = {1}
  StepMaxAttempts = 1
  Raising = {}
  Workers = {w1, w2}
  NoWorker = NoWorker
  WorkerConcurrency = 1
  Knows = {w1, w2}
  ReturnKinds = {"json"}
  MaxToolCalls = {}
  MaxModelCalls = {}
  MaxTokens = {}
  TokensPerCall = 2
  WallLimited = FALSE
  Timely = FALSE
  MaxDeliveries = 2
  MaxFaults = 0
  MaxCancels = 0
SYMMETRY Symmetry
CHECK_DEADLOCK FALSE
INVARIANTS
  NotAbandoned
