SPECIFICATION FairSpec
CONSTANTS
  NoRun = NoRun
  Runs = {r1, r2}
  HangPolls = 1
  Bitrates = {800}
  HangAt <- TeardownHangs
PROPERTIES
  CloseReturns
  Restarts
  ImplementsSession
