SPECIFICATION FairSpec
CONSTANTS
  Writers = {w1}
  WriteTargets <- Setting
  MaxWrites = 1
  MaxTries = 2
  Timeout <- EarlyTimeout
  HasClient = TRUE
  Faults <- AllFaults
INVARIANT TypeOK
INVARIANT ServedByPass
PROPERTY ServerResetAfterSend
PROPERTY EventuallyFresh
CHECK_DEADLOCK FALSE
