\* More blocks than buffers, all of which the log may keep.
SPECIFICATION Spec
CONSTANTS
  Proc = {p1, p2, p3}
  Block = {k1, k2, k3, k4}
  Val = {x, y}
  NBUF = 2
  MaxPins = 2
  None = None
SYMMETRY BufSymmetry
INVARIANTS
  HasItsBlock
  SleeperHasHolder
PROPERTIES
  ImplementsBlockStore
