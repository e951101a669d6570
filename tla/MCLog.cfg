SPECIFICATION Spec
CONSTANTS
  Proc = {p1, p2, p3}
  Block = {b1, b2, b3, b4}
  Val = {v1, v2}
  NotCached = NotCached
  MAXOPBLOCKS = 2
  LOGBLOCKS = 4
  OpBlocks = 1
  Crashes = TRUE
SYMMETRY LogSymmetry
INVARIANTS
  TypeOK
  NoPanic
  SleepersHaveReason
  DurableOnReturn
PROPERTIES
  ImplementsAtomicDisk
