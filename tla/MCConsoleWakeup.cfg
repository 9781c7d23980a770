CONSTANTS
  e1 = e1
  Envs = {e1}
  NoEnv = NoEnv
  MaxCalls = 1
  CONSBUFSIZE = 3
  MaxKeys = 1
  MaxReads = 1
SPECIFICATION ConsFairSpec
PROPERTIES
  TypedCharacterIsRead
CHECK_DEADLOCK FALSE
