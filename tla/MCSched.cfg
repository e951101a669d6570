SPECIFICATION FairSpec
CONSTANTS
  NPROC = 2
  CPU = {c1, c2}
  Free = Free
  PrioArgs <- MCPrioArgs
  RunsMod = 1
INVARIANTS
  TypeOK
  OneCpuPerProc
  StackNotFreed
PROPERTIES
  NoInversion
  ImplementsCpuAssign
  BestServed
