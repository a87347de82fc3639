SPECIFICATION FairSpec
CONSTANTS
  Buffers <- OneBuffer
  Streamables = {TRUE}
  Seekables = {FALSE}
  Live = TRUE
  MSECOND = 2
  U32 = 8
  MAX_INDEX_ENTRIES = 2
  MaxBuffers = 2
  MaxRestarts = 1
INVARIANTS
  HeaderPrepares
PROPERTY NoStarvation
CONSTRAINT FewTags
CHECK_DEADLOCK FALSE
