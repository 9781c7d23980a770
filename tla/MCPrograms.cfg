SPECIFICATION Spec
CONSTANTS
  HeapPages = 122879
  Growth = 1
  PAGE_SIZE = 4096
  DYN_ALLOC_MAX_BLOCK_SIZE = 2048
  allocCntPerSize = 200
  LimitPages = 256
  MaxElements = 7
  MaxDim = 3
  MaxRounds = 2
INVARIANTS
  UserTestsMet
  NobodyStuck
  BlockTestsMet
  ProgramsRight
  HeapGivenBack
CHECK_DEADLOCK FALSE
