SPECIFICATION FairSpec
CONSTANTS
  MaxStarts = 3
  MayReturn = TRUE
INVARIANT FirstCloseWaits
INVARIANT CloserHasWaker
PROPERTY CloseReturns
PROPERTY SemIsCounting
CHECK_DEADLOCK FALSE
