SPECIFICATION FairDynamoRunSpec
CONSTANTS
  NumSteps = 1
  Results = {ok}
  Workers = {w1, w2}
  Submitter = Submitter
  Canceller = Canceller
  PageSize = 4
  UsageAnswers = {TRUE, FALSE}
  MaxRequests = 1
  MaxDeliveries = 2
  MaxFaults = 1
CHECK_DEADLOCK FALSE
INVARIANTS
  OneOutcome
PROPERTIES
  KeepsLease
  NothingOverwritten
  DynamoKeepsOn
