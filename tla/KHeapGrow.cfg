SPECIFICATION GrowSpec
CONSTANTS
  PAGE_SIZE = 48
  DYN_ALLOC_MAX_BLOCK_SIZE = 24
  BlockPages = 2
  PagePages = 3
  FrameCount = 4
  Sizes = {8, 16}
  MaxLive = 3
INVARIANTS
  RestIsListed
CHECK_DEADLOCK FALSE
