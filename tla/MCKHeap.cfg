SPECIFICATION Spec
CONSTANTS
  PAGE_SIZE = 48
  DYN_ALLOC_MAX_BLOCK_SIZE = 24
  BlockPages = 2
  PagePages = 3
  FrameCount = 4
  Sizes = {8, 23, 40, 96}
  MaxLive = 3
INVARIANTS
  HeapTiled
  BlocksOwned
  PagesPartition
  FramesConserved
PROPERTIES
  HeapContract
CHECK_DEADLOCK FALSE
