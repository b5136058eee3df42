SPECIFICATION FairSpec
CONSTANTS
  Conns = {c1, c2}
  MAX_MODBUS_CLIENTS = 1
  MAX_REG = 2
  Waiting = 1
  MaxFaults = 2
  Registers <- MCRegisters
  Requests <- MCRequests
INVARIANT TypeOK
INVARIANT OneSlot
INVARIANT Aligned
PROPERTY Answered
PROPERTY LeftFreed
PROPERTY VanishedFreed
CHECK_DEADLOCK FALSE
