SPECIFICATION Spec
CONSTANTS
  Envs = {1, 2}
  Objects <- MCObjects
  NArea = 2
  TableSize = 4
  FrameCount = 4
  NShares = 2
INVARIANTS
  SharingSafe
  ReferencesExact
  SameFrames
  SharingFramesConserved
CHECK_DEADLOCK FALSE
