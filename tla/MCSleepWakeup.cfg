SPECIFICATION FairSpec
CONSTANTS
  NPROC = 2
  TickMod = 4
  PauseArgs <- MCPauseArgs
  Clock = Clock
  Free = Free
INVARIANTS
  TypeOK
  NoLostWakeup
PROPERTIES
  ImplementsCondVar
  SleeperWakes
