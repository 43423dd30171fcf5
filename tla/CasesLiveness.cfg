SPECIFICATION FairSpec
CONSTANTS
  Cases = {c1}
  Analysts = {ann}
  OldCases = {}
  InitialScores = {"quiet", "alert"}
  Limit = 1
  MaxReports = 1
  MaxCves = 1
  MaxChanges = 1
  MaxFaults = 1
  MaxTransients = 0
  MaxActions = 1
  None = None
PROPERTIES
  PublicationConverges
INVARIANTS
  HistoryAgrees
