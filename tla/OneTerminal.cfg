\* Every command, one after the other in one terminal that may be closed at any
\* step: what the next command finds is what the last one left.
CONSTANTS
  u = u  p1 = p1  p2 = p2  p3 = p3  v1 = v1  v2 = v2
  native = native  npm = npm  release = release
  None = None
  Procs = {u}
  Versions = {v1, v2}
  Variants = {native, npm}
  Primary = native
  Payload <- MCPayload
  KeepsRoot = {npm}
  Repairable = {}
  PreMarker <- OldNpm
  Ops <- Everything
  HookTargets <- NoHooks
  LegacyProcs = {}
  Unreliable = {u}
  MaxOps = 4
SPECIFICATION Spec
PROPERTIES KeepsPromise
