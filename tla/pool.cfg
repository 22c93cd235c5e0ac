CONSTANTS
  PoolSizes <- TwoPools
  Sizes <- TwoSizes
  CleanupSizes <- DataSizes
  Aligned = TRUE
  PageSize = 4096
  Chunks <- FewChunks
  MaxBlocks = 9
  MaxLarge = 3
  MaxCleanups = 1
  MaxFaults = 1
SPECIFICATION Spec
CONSTRAINT LongChainsAreSmall
CHECK_DEADLOCK FALSE
INVARIANTS TypeOK SmallAllocationsApart LargeChunksOwned LargeNodesIntact NothingLargeLeft CurrentSkipsFailedOnly
PROPERTY IsAllocator
