SPECIFICATION Spec
CONSTANTS
  NumSteps = 2
  Results = {ok}
  Tools = {2}
  Models = {1}
  AtMostOnce = {2}
  Verifiable = {2}
  Dedup = {1}
  StepMaxAttempts = 1
  Raising = {}
  Workers = {w1, w2}
  NoWorker = NoWorker
  WorkerConcurrency = 1
  Knows = {w1, w2}
  ReturnKinds = {"json"}
  MaxToolCalls = {}
  MaxModelCalls = {}
  MaxTokens = {}
  TokensPerCall = 2
  WallLimited = FALSE
  Timely = FALSE
  MaxDeliveries = 2
  MaxFaults = 1
  MaxCancels = 0
SYMMETRY Symmetry
CHECK_DEADLOCK FALSE
INVARIANTS
  NoSilentDrop
  BilledAtMostOnce
  TypeOK
  EffectsAccounted
  VerdictLogged
