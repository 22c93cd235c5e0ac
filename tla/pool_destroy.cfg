CONSTANTS
  PoolSizes <- OnePool
  Sizes <- TwoSizes
  CleanupSizes <- None
  Aligned = FALSE
  PageSize = 4096
  Chunks <- None
  MaxBlocks = 2
  MaxLarge = 0
  MaxCleanups = 0
  MaxFaults = 0
SPECIFICATION Spec
CHECK_DEADLOCK FALSE
INVARIANT EachBlockFreedOnce
