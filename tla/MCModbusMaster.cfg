SPECIFICATION FairSpec
CONSTANTS
  MaxRequests = 4
  MaxFaults = 4
  MaxRetries = 2
INVARIANT TypeOK
INVARIANT LagBounded
PROPERTY AnswersInOrder
PROPERTY RequestsReturn
CHECK_DEADLOCK FALSE
