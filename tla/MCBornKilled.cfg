SPECIFICATION Spec
CONSTANTS
  Proc = {p1, p2}
  InitProc = p1
  NoProc = NoProc
  MaxPid = 2
  KillArgs = {0}
  InfoCallers = {}
PROPERTIES
  NotBornKilled
