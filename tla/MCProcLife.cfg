SPECIFICATION Spec
CONSTANTS
  Proc = {p1, p2, p3, p4}
  InitProc = p1
  NoProc = NoProc
  MaxPid = 4
  KillArgs = {2}
  InfoCallers = {p2}
INVARIANTS
  TypeOK
  NoMissedChild
  ParentAlive
  SnapshotPidsDistinct
