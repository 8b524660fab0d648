SPECIFICATION DynamoRunSpec
CONSTANTS
  NumSteps = 1
  Results = {ok}
  Workers = {w1, w2}
  Submitter = Submitter
  Canceller = Canceller
  PageSize = 4
  UsageAnswers = {FALSE}
  MaxRequests = 0
  MaxDeliveries = 2
  MaxFaults = 0
CHECK_DEADLOCK FALSE
INVARIANTS
  VerdictIsStored
