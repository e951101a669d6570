SPECIFICATION Spec
CONSTANTS
  Proc = {p1, p2}
  Name = {n1, n2}
  NInodes = 2
  NINODE = 2
  Crashes = FALSE
  None = None
SYMMETRY InodeSymmetry
INVARIANTS
  LastPutFrees
