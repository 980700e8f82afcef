SPECIFICATION FairSpec
CONSTANTS
  r = r
  a = a
  b = b
  c = c
  p = p
  f = f
  x = x
  None = None
  Urls = {r, a, b, c, p, f, x}
  Root = r
  SameHost = {r, a, b, c, p, f}
  DefaultItems <- ItemsEndpoints
  DefaultListing = a
  Webs <- AllWebs
  Requests <- SmallRequests
  max_concurrency = 2
INVARIANTS TypeOK TraversalIsBounded ReportIsSound Coverage
PROPERTIES Terminates
CHECK_DEADLOCK FALSE
