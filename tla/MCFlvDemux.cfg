SPECIFICATION Spec
CONSTANTS
  Files <- DemuxFiles
  Flags <- BothFlags
  Flows = {"OK", "NOT_LINKED", "EOS", "ERROR"}
  Seekable = {TRUE, FALSE}
  Sized = {TRUE, FALSE}
  Events <- SeekEvents
  RESYNC_THRESHOLD = 4
  NO_MORE_PADS_THRESHOLD = 6
  U32 = 16
  MaxChunk = 3
  MaxSeeks = 2
  MaxRestarts = 1
INVARIANTS
  IndexTrue
  SeekAnswered
PROPERTIES
  EndAfterLast
  SeekSkipsNothing
  DeliversInOrder
CONSTRAINT Scenario
