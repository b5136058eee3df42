SPECIFICATION Spec
CONSTANTS
  MAX_COMMANDS = 3
  MAXDECODINGLOOPS = 5
  CONNECTTIMEOUT = 1
  Registers <- MCRegisters
  Messages <- MCMessages
  Delivery = "messages"
  MaxMessages = 3
  MaxClients = 1
  MaxAcceptFaults = 0
INVARIANT EveryMessageSaved
