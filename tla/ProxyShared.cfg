\* Any two claudex commands one after the other or at once, on a proxy that
\* may be running, of this release or of an older one; version 2 never comes up.
SPECIFICATION Spec
CONSTANTS
  p1 = p1  p2 = p2
  None = None
  Foreign = Foreign
  Procs = {p1, p2}
  Versions = {1, 2, 3}
  Broken = {2}
  System = None
  Selected = {1}
  Staged <- MCStaged
  Configs <- MCConfigs
  Daemons = {1, 2, 3, 4}
  Ops <- Everything
  MaxOps = 2
  MaxFaults = 1
SYMMETRY Symmetric
INVARIANTS NoStrayProxy SelectedWorks PinnedPair
PROPERTIES SessionsKeepProxy SessionStartsServed UserUpdateKept
CHECK_DEADLOCK FALSE
