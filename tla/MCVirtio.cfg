\* The eight descriptors of the driver, and four processes for two requests.
SPECIFICATION Spec
CONSTANTS
  Proc = {p1, p2, p3, p4}
  NUM = 8
  IdxMod = 16
  Intr = intr
  Free = free
  NoBuf = nobuf
SYMMETRY VirtioSymmetry
VIEW VirtioView
INVARIANTS
  TypeOK
  DeviceOwnsBuffer
  DescsConserved
  SleepersHaveReason
