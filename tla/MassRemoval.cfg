\* uninstall --all and use in one terminal, which may be closed at any step, against
\* installs of Codex, which repair a complete release, and the installs of their hooks.
CONSTANTS
  u = u  p1 = p1  p2 = p2  p3 = p3  v1 = v1  v2 = v2
  native = native  npm = npm  release = release
  None = None
  Procs = {u, p1, p2}
  Versions = {v1, v2}
  Variants = {release}
  Primary = release
  Payload <- MCPayload
  KeepsRoot = {}
  Repairable = {release}
  PreMarker = {}
  Ops <- LeaveOrInstall
  HookTargets <- InstallHooks
  LegacyProcs = {}
  Unreliable = {u}
  MaxOps = 4
SPECIFICATION FairSpec
INVARIANTS CurrentNeverDangles NoWriterUnderMassRemoval
PROPERTIES CommandsReturn SweepRemovesNoInstall
