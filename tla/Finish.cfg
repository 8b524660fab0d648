SPECIFICATION FairSpec
CONSTANTS
  NumSteps = 3
  Results = {ok}
  Tools = {2}
  Models = {}
  AtMostOnce = {2, 3}
  Verifiable = {2}
  Dedup = {}
  StepMaxAttempts = 2
  Raising = {1}
  Workers = {w1, w2}
  NoWorker = NoWorker
  WorkerConcurrency = 1
  Knows = {w1, w2}
  ReturnKinds = {"json"}
  MaxToolCalls = {}
  MaxModelCalls = {}
  MaxTokens = {}
  TokensPerCall = 2
  WallLimited = FALSE
  Timely = TRUE
  MaxDeliveries = 4
  MaxFaults = 1
  MaxCancels = 1
CHECK_DEADLOCK FALSE
INVARIANTS
  AtMostOnceEffect
  ReviewIsHonest
PROPERTIES
  Finishes
