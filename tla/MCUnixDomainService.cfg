SPECIFICATION ServiceFairSpec
CONSTANTS
  first = first
  second = second
  third = third
  Clients = {first, second, third}
  Addr <- Unbound
  MaxLength = 2
  MaxRequests = 4
  Backlog = 1
CHECK_DEADLOCK FALSE
INVARIANTS
  StrangersOnlyIfMisled
PROPERTIES
  Answered
