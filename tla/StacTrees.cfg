SPECIFICATION Spec
CONSTANTS
  None = None
  t1 = t1
  t2 = t2
  SafeName <- Safe
  World <- Everything
  Threads = {t1, t2}
  Requests <- ManyRequests
  Stored <- Sources
  JsonNames <- Json
  MaxRequests = 3
  MaxFaults = 1
SYMMETRY Same
INVARIANTS TypeOK TreeIsSound ExportIsComplete
PROPERTIES NothingReplacedUnasked
CHECK_DEADLOCK FALSE
