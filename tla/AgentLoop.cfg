SPECIFICATION AgentSpec
CONSTANTS
  Tools = {"refund", "notify"}
  Answers <- Wanted
  Outputs = {x, y}
  MAX_TURNS = 3
  MaxAttempts = 3
CHECK_DEADLOCK FALSE
INVARIANTS
  KeysStable
  TranscriptIsLog
