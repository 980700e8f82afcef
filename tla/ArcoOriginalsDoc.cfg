SPECIFICATION Spec
CONSTANTS
  nc = nc
  nc2 = nc2
  gdb = gdb
  zip = zip
  here = here
  there = there
  r1 = r1
  r2 = r2
  None = None
  Names = {"data", "grid", "zarr", "parquet", "data!", "zarr 2"}
  SafeName <- SafeNameOf
  Sources = {nc, nc2, gdb, zip}
  Detected <- DetectedHere
  HostedAs <- SuffixOf
  FileName <- FileNameOf
  Layers <- LayersOf
  Uris = {here, there}
  Items <- OneNamed
  Runs = {r1, r2}
  Requests <- Careful
INVARIANTS
  OriginalsKept
CHECK_DEADLOCK FALSE
