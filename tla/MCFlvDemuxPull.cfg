SPECIFICATION Spec
CONSTANTS
  Files <- PullFiles
  Flags <- PullFlags
  Flows = {"OK", "EOS", "NOT_LINKED"}
  Sized = {TRUE, FALSE}
  Events <- PullEvents
  INDEX_AHEAD = 1
  PAST_STOP = 1
  RESYNC_THRESHOLD = 4
  NO_MORE_PADS_THRESHOLD = 6
  U32 = 16
  MaxSeeks = 2
  MaxRestarts = 1
INVARIANTS
  SeekTakesEffect
PROPERTIES
  PlaysAll
  DeliversInOrder
CONSTRAINT AtMostTwo
