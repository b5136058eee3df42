SPECIFICATION Spec
CONSTANTS
  Writers = {w1}
  WriteTargets <- Setting
  MaxWrites = 1
  MaxTries = 2
  Timeout <- CodeTimeout
  HasClient = TRUE
  Faults <- NoFaults
INVARIANT CompleteUpdate
