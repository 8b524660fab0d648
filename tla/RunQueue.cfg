SPECIFICATION FairQueueSpec
CONSTANTS
  Runs = {p, r}
  Poison = {p}
  Workers = {w1, w2}
  NoWorker = NoWorker
  WorkerConcurrency = 2
  LeaseSeconds = 4
  HeartbeatSeconds = 1
  PollInterval = 1
  MaxDelay = 1
INVARIANTS
  RecoveryBounded
PROPERTIES
  KeepsLease
  NoStarvation
