SPECIFICATION Spec
CONSTANTS
  Proc = {p1, p2, p3}
  Val = {x, y}
  Free = Free
  PIPESIZE = 2
  CounterMod = 4
  Counts = {3}
CHECK_DEADLOCK FALSE
SYMMETRY PipeSymmetry
INVARIANTS
  TypeOK
  NotUsedAfterFree
  SleepersHaveReason
PROPERTIES
  ImplementsByteQueue
