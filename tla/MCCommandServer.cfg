SPECIFICATION FairSpec
CONSTANTS
  Conns = {c1, c2}
  MAX_CLIENTS = 2
  Waiting = 1
  FORWARDS = "name"
  MaxFailures <- MCMaxFailures
INVARIANT TypeOK
INVARIANT OneOwner
INVARIANT AcceptorNeverBlocked
INVARIANT LeaksNeedFailures
PROPERTY SlotsReclaimed
PROPERTY ShutdownEnds
CHECK_DEADLOCK FALSE
