SPECIFICATION FairSpec
CONSTANTS
  Cases = {c1, c2}
  Analysts = {}
  OldCases = {c2}
  InitialScores = {"alert"}
  Limit = 1
  MaxReports = 2
  MaxCves = 1
  MaxChanges = 1
  MaxFaults = 0
  MaxTransients = 1
  MaxActions = 0
  None = None
INVARIANTS
  OnlyOvertakenMissed
PROPERTIES
  HighAlertsPublished
  ClearedByNvd
