SPECIFICATION ReadSpec
CONSTANTS
  Nil = Nil
  r1 = r1
  r2 = r2
  Reads <- MCReads
  Attempts <- MCAttempts
  Slots = 1
  Targets <- MCUrls
  Host <- MCHost
  Wellformed <- MCWellformed
  Literal <- MCLiteral
  MaxHops = 1
  MaxWait = 3
  Retries = {0, 2, 5}
INVARIANTS ReadTypeOK ReadsAreRight
PROPERTIES ReadsEnd
CHECK_DEADLOCK FALSE
