SPECIFICATION FairSpec
CONSTANTS
  alice = alice
  bob = bob
  d1 = d1
  d2 = d2
  Owners = {alice, bob}
  Requests = {d1, d2}
  Caller <- TwoCallers
  Operations <- Ops
  Workers = 1
  MaxTerminalRuns = 1
  Retention = 1
  MaxRuns = 2
  MaxClock = 1
INVARIANTS Consistent
PROPERTIES LifecycleSpec RunsEnd
CHECK_DEADLOCK FALSE
