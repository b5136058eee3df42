SPECIFICATION FairSpec
CONSTANTS
  MAX_COMMANDS = 3
  MAXDECODINGLOOPS = 5
  CONNECTTIMEOUT = 1
  Registers <- MCRegisters
  Messages <- MCMessages
  Delivery = "message"
  MaxMessages = 3
  MaxClients = 3
  MaxAcceptFaults = 1
INVARIANT EveryMessageSaved
INVARIANT NothingLeftBehind
PROPERTY ClientServed
