SPECIFICATION FairSpec
CONSTANTS
  Cases = {c1}
  Analysts = {}
  OldCases = {}
  InitialScores = {"quiet"}
  Limit = 1
  MaxReports = 1
  MaxCves = 1
  MaxChanges = 2
  MaxFaults = 0
  MaxTransients = 0
  MaxActions = 0
  None = None
PROPERTIES
  ClearedUnpublished
