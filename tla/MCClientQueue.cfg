SPECIFICATION FairSpec
CONSTANTS
  MAXSENDQUEUE = 2
  MaxMessages = 5
  MaxFaults = 2
INVARIANT TypeOK
INVARIANT NoEmptyPop
INVARIANT LossNeedsEviction
PROPERTY OverflowingChannel
PROPERTY EventuallyDrained
CHECK_DEADLOCK FALSE
