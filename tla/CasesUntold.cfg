SPECIFICATION Spec
CONSTANTS
  Cases = {c1}
  Analysts = {ann}
  OldCases = {}
  InitialScores = {"alert"}
  Limit = 1
  MaxReports = 1
  MaxCves = 1
  MaxChanges = 0
  MaxFaults = 0
  MaxTransients = 0
  MaxActions = 1
  None = None
INVARIANTS
  HistoryTold
