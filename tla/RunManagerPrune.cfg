SPECIFICATION Spec
CONSTANTS
  alice = alice
  bob = bob
  d1 = d1
  d2 = d2
  Owners = {alice}
  Requests = {d1}
  Caller <- OneCaller
  Operations <- Calls
  Workers = 1
  MaxTerminalRuns = 2
  Retention = 1
  MaxRuns = 3
  MaxClock = 3
PROPERTIES PruneIsFair
CHECK_DEADLOCK FALSE
