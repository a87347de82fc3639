SPECIFICATION Spec
CONSTANTS
  Buffers <- OutputBuffers
  Streamables = {TRUE, FALSE}
  Seekables = {TRUE, FALSE}
  Live = TRUE
  MSECOND = 2
  U32 = 8
  MAX_INDEX_ENTRIES = 2
  MaxBuffers = 3
  MaxRestarts = 1
INVARIANTS
  NeverBackwards TimesKept
  IndexPositions IndexFits DurationCovers
CONSTRAINT StreamOrFile
CHECK_DEADLOCK FALSE
