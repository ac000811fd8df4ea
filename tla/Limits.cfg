\* A polled and a live-only account, which an older release may have kept in
\* config.json; polls of both kinds and two editors, any of which may be killed.
SPECIFICATION Spec
CONSTANTS
  polled = polled  liveOnly = liveOnly
  None = None
  Accounts = {polled, liveOnly}
  LiveOnly = {liveOnly}
  Editors = {e1, e2}
  Starts <- MCStarts
  Polls = {"due", "all"}
  Edits <- EveryEdit
  Busy = {polled}
  MaxWindow = 1
  MaxCommands = 5
  MaxMishaps = 1
INVARIANTS ThresholdOnce EarlyIsReal AlertsClose NamedIsKept
PROPERTY OthersKept
SYMMETRY EditorSymmetry
CHECK_DEADLOCK FALSE
