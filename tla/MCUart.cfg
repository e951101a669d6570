SPECIFICATION FairSpec
CONSTANTS
  Proc = {p1, p2, p3}
  Cpu = {c1, c2}
  Counts = {1, 3}
  FifoSize = 3
  Intr = Intr
  Free = Free
INVARIANTS
  TypeOK
  BusyWillClear
PROPERTIES
  WriterWoken
