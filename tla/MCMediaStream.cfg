SPECIFICATION Spec
CONSTANTS
  NoRun = NoRun
  Runs = {r1, r2, r3}
  HangPolls = 1
  Bitrates = {800, 1000}
  HangAt <- TeardownHangs
CONSTRAINT UpToLate
SYMMETRY RunSymmetry
INVARIANTS
  OneLiveRun
  NoStaleUse
  PipelineReleased
  BitrateAgrees
  DeadStreamReports
