SPECIFICATION FairSpec
CONSTANTS
  Granted = {1, 2, 3}
  SECOND = 10
  Rate = 3
  MaxTime = 11
  MaxStarts = 2
INVARIANTS
  BuffersAccounted
  UnlockWakes
  CleanStop
PROPERTIES
  FramesFollow
  StopReturns
CHECK_DEADLOCK FALSE
