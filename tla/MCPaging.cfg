SPECIFICATION Spec
CONSTANTS
  Envs = {1, 2}
  NText = 1
  NBlock = 1
  NPage = 2
  NStack = 1
  page_WS_max_size = 2
  FrameCount = 8
  DiskFrames = 3
  Touches <- MCTouches
  Values = {1}
  Sweeps <- MCSweeps
INVARIANTS
  LastWriteSeen
  WorkingSetExact
  PagingFramesConserved
  PageFileConserved
  TwoFaultsSuffice
PROPERTIES
  AccessEnds
CHECK_DEADLOCK FALSE
