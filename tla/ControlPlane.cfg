SPECIFICATION FairSpec
CHECK_DEADLOCK FALSE
INVARIANTS
  HandlerConsistent
  StaleOnlyFromCommandLine
  ExitIsClean
PROPERTIES
  OwnerProtocol
  QuitReturns
