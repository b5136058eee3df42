SPECIFICATION FairSpec
CONSTANTS
  Handlers = {h1}
  Main = Main
  Display = Display
INVARIANT TypeOK
INVARIANT OneOnTheLine
INVARIANT NoUseAfterDelete
INVARIANT StaysConnected
PROPERTY RequestsEnd
PROPERTY ShutdownEnds
CHECK_DEADLOCK FALSE
