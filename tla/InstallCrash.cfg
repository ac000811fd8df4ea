\* Installs of both sources of one Claude version by three processes, one of
\* an older ovm without the product lock, that may be killed at any step or fail to
\* download, and switches to it meanwhile.
CONSTANTS
  u = u  p1 = p1  p2 = p2  p3 = p3  v1 = v1  v2 = v2
  native = native  npm = npm  release = release
  None = None
  Procs = {p1, p2, p3}
  Versions = {v1}
  Variants = {native, npm}
  Primary = native
  Payload <- MCPayload
  KeepsRoot = {npm}
  Repairable = {}
  PreMarker <- OneVersionOld
  Ops <- InstallAndUse
  HookTargets <- NoHooks
  LegacyProcs = {p3}
  Unreliable = {p1, p2, p3}
  MaxOps = 3
SYMMETRY Symmetric
SPECIFICATION Spec
INVARIANTS SingleFlight CompleteIsWhole
PROPERTIES OnlyRemovalDestroys
