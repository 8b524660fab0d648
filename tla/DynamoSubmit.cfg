SPECIFICATION DynamoSpec
CONSTANTS
  Requests <- MCRequests
  IdemKeys <- MCIdemKeys
  KeyOf <- MCKeyOf
CHECK_DEADLOCK FALSE
INVARIANTS
  DeliveredIsComplete
  LostOnlyByDeath
PROPERTIES
  KeepsPromise
