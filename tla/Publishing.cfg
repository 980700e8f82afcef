SPECIFICATION Spec
CONSTANTS
  None = None
  c1 = c1
  c2 = c2
  Callers <- MCCallers
  Users <- MCUsers
  Owner = "owner"
  Keys <- MCKeys
  Tokens <- MCTokens
  Requests <- MCRequests
  Catalogs <- MCCatalogs
  MaxLimit = 3
  ServiceLimit = 2
  Statuses <- MCStatuses
  MaxAsked = 2
  MaxEvents = 4
  MaxFaults = 1
INVARIANTS TypeOK JobsAreAskedFor LinksLeadOn GoodTokensAreNotBlamed
PROPERTIES EveryReadEnds
CHECK_DEADLOCK FALSE
