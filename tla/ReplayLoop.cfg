SPECIFICATION LoopSpec
CONSTANTS
  NumSteps = 2
  Results = {ok, other}
  MaxEvents = 3
INVARIANTS
  LoopTypeOK
  LoopIsClosedForm
CHECK_DEADLOCK FALSE
