SPECIFICATION FairSpec
CONSTANTS
  List <- MCList
  Blocks <- MCBlocks
  Shown <- MCShown
  Wide <- MCWide
  Realtime <- MCRealtime
  UserRealtime <- MCUserRealtime
  MaxReads = 1
  MaxPuts = 1
  MaxCleans = 1
  MaxLosses = 1
INVARIANT OverridesWerePut
INVARIANT AnswersKnown
INVARIANT OneReading
PROPERTY EventuallyMirrored
CHECK_DEADLOCK FALSE
