\* Three versions of Codex on one database, and a refresh that fetches any of four
\* documents, with two faults.
CONSTANTS
  v1 = v1  v2 = v2  v3 = v3
  Absent = Absent
  Codex = {v1, v2, v3}
  History <- MCHistory
  Words <- MCWords
  Breaking <- MCBreaking
  Compiled = 3
  Documents <- MCDocuments
  Week = 2
  MaxRun = 2
  MaxSkewFaults = 2
SPECIFICATION FairSkewSpec
INVARIANTS DegradedIsTold WarningHasReason
PROPERTIES WarningStays ServedInTheEnd
