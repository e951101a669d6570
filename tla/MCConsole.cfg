SPECIFICATION Spec
CONSTANTS
  Proc = {p1, p2}
  Plain = {"a"}
  Counts = {1, 3}
  INPUT_BUF_SIZE = 3
  CounterMod = 6
  Free = Free
SYMMETRY ConsoleSymmetry
INVARIANTS
  InputReachesReader
PROPERTIES
  ImplementsLineInput
