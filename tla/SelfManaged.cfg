SPECIFICATION Spec
CONSTANTS
  p1 = p1
  p2 = p2
  dev = dev
  tool = tool
  extra = extra
  None = None
  Procs = {p1, p2}
  Releases = {1, 2, 3}
  Devs = {dev}
  Side <- MCSide
  Broken = {3}
  Installed = {1, 2, dev}
  Ops <- Everything
  MaxOps = 2
  MaxFaults = 1
  MaxKills = 1
SYMMETRY Symmetric
INVARIANTS PointersComplete UndoneIsUnchanged Coherent OldControlKept
PROPERTY PromiseKept
CHECK_DEADLOCK FALSE
