SPECIFICATION Spec
CONSTANTS
  None = None
  r1 = r1
  r2 = r2
  Earlier = Earlier
  Requests <- MCRequests
  LastKey = 2
  Inputs <- MCInputs
  Buckets <- MCBuckets
  PageSize = 2
  Attempts = 2
  MaxFaults = 1
  Layers <- MCLayers
  OutputName <- MCOutputName
  Conversions <- MCConversions
  Builds <- MCBuilds
INVARIANTS TypeOK AnswersAreTrue ConvertedBeforeDelivered
PROPERTIES KeepsExisting EveryUploadEnds
CHECK_DEADLOCK FALSE
