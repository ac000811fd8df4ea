SPECIFICATION FairSpec
CONSTANTS
  p1 = p1  p2 = p2
  None = None
  Procs = {p1, p2}
  Versions = {1, 2}
  Settings = {}
  Values = {default}
  Default = default
  Installed <- MCInstalled
  Files <- MCFiles
  Ops <- Terminals
  MaxOps = 2
  MaxMishaps = 1
INVARIANT PinIsChosen
PROPERTIES PinRespected SettingsKept Converges
CHECK_DEADLOCK FALSE
