SPECIFICATION Spec
CONSTANTS
  NoRun = NoRun
  Runs = {r1, r2}
  HangPolls = 1
  Bitrates = {800}
  HangAt <- TeardownHangs
INVARIANT CancelledIsDeadlocked
