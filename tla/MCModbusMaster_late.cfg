SPECIFICATION Spec
CONSTANTS
  MaxRequests = 3
  MaxFaults = 0
  MaxRetries = 1
INVARIANT AnswersItsRequest
CHECK_DEADLOCK FALSE
