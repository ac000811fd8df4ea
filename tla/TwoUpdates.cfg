SPECIFICATION Spec
CONSTANTS
  p1 = p1
  p2 = p2
  dev = dev
  tool = tool
  extra = extra
  None = None
  Procs = {p1, p2}
  Releases = {1, 2, 3}
  Devs = {dev}
  Side <- MCSide
  Broken = {}
  Installed = {1}
  Ops <- OnlyUpdates
  MaxOps = 2
  MaxFaults = 0
  MaxKills = 0
INVARIANT NoDowngrade
CHECK_DEADLOCK FALSE
