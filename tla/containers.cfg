CONSTANTS
  PoolSizes <- SmallPool
  Sizes <- OtherSizes
  CleanupSizes <- None
  Aligned = FALSE
  PageSize = 64
  Chunks <- OneChunk
  MaxBlocks = 2
  MaxLarge = 1
  MaxCleanups = 0
  MaxFaults = 1
  ArrayCounts <- FewElements
  ListCounts <- TwoElements
  ElementSizes <- ElementSize
  PushCounts <- Batches
  MaxGiven = 3
  ListSizes <- ElementSize
  MaxListed = 3
SPECIFICATION CSpec
CONSTRAINT FewEmptyRequests
CHECK_DEADLOCK FALSE
INVARIANTS CTypeOK SmallAllocationsApart PiecesGranted ArraySlotsInside IterationVisitsPushes
