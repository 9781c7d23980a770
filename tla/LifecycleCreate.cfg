CONSTANTS
  e1 = e1
  e2 = e2
  e3 = e3
  Envs = {e1, e2, e3}
  NoEnv = NoEnv
  MaxCreators = 2
SPECIFICATION LSpec
INVARIANTS
  CreatedSlotIsPrivate
CHECK_DEADLOCK FALSE
