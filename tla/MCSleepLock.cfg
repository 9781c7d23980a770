CONSTANTS
  e1 = e1
  e2 = e2
  e3 = e3
  Envs = {e1, e2, e3}
  NoEnv = NoEnv
  MaxCalls = 2
SPECIFICATION FairSpec
INVARIANTS
  TypeOK
  NoPanic
  MutualExclusion
  InterruptsOffWhileLocked
  QueuesAgreeWithStatus
  NoLostWakeup
  PromptAfterLastExit
PROPERTIES
  MutexSpec
  AcquireReturns
CHECK_DEADLOCK FALSE
