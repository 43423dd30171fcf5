SPECIFICATION FairSpec
CONSTANTS
  Cases = {c1, c2}
  Analysts = {}
  OldCases = {c2}
  InitialScores = {"alert"}
  Limit = 2
  MaxReports = 1
  MaxCves = 1
  MaxChanges = 1
  MaxFaults = 0
  MaxTransients = 1
  MaxActions = 0
  None = None
PROPERTIES
  EnrichmentResumed
