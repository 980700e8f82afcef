SPECIFICATION FindSpec
CONSTANTS
  Unset = Unset
  ProjectsRoot <- MCProjectsRoot
  Relative <- MCRelative
  Resource <- MCResource
  Lower <- MCLower
  Queries <- MCQueries
  Sites <- MCSites
  MaxPages = 2
  ResolveLimit = 2
  MaxDepth = 3
  MaxFetches = 2
  MaxFaults = 2
INVARIANTS FindTypeOK FindIsComplete
PROPERTIES EveryFindAnswers
CHECK_DEADLOCK FALSE
