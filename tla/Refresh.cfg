SPECIFICATION FairSpec
CONSTANTS
  p1 = p1
  r1 = r1  r2 = r2
  None = None
  Listers = {p1}
  Refreshers = {r1, r2}
  Versions = {1, 2}
  Listings <- Both
  MaxFeed = 2
  MaxLists = 1
  MaxFaults = 1
INVARIANTS CleanIndexIsCurrent KnownIsRecent
PROPERTY Learns
CHECK_DEADLOCK FALSE
CONSTRAINT Undisturbed
