SPECIFICATION Spec
CONSTANTS
  None = None
  t1 = t1
  t2 = t2
  Threads <- MCThreads
  Workers <- MCWorkers
  Paths <- MCPaths
  Statuses <- MCStatuses
  Kinds <- MCKinds
  Loggers <- MCLoggers
  Queries <- MCQueries
  LogLevel = 2
  Capacity = 2
  MaxRecords = 3
  MaxTime = 1
  MaxCalls = 1
  MaxFaults = 1
INVARIANTS TypeOK CountsAreRight SearchesAreTrue
PROPERTIES RecordsAreHandled
CHECK_DEADLOCK FALSE
