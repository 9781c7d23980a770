CONSTANTS
  e1 = e1
  e2 = e2
  Envs = {e1, e2}
  NoEnv = NoEnv
  MaxCalls = 2
  CONSBUFSIZE = 3
  MaxKeys = 4
  MaxReads = 2
SPECIFICATION ConsSpec
SYMMETRY Symmetry
INVARIANTS
  ConsTypeOK
  ConsNoPanic
  ReaderOwnsConsole
  SleepersAreApart
  InputInOrder
CHECK_DEADLOCK FALSE
