CONSTANTS
  PageSize = 4096
  PageShift = 12
  MinShift = 3
  ZoneSizes <- Zones
  Requests <- AnyRequests
  MaxInits = 2
  MaxCounted = 3
  Builds <- BothBuilds
  ShmSizes <- Zones
  MaxCalls = 2
SPECIFICATION ZSpec
CHECK_DEADLOCK FALSE
INVARIANT MmapFailureReal
