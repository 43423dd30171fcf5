SPECIFICATION Spec
CONSTANTS
  Cases = {c1, c2}
  Analysts = {}
  OldCases = {}
  InitialScores = {"quiet"}
  Limit = 2
  MaxReports = 1
  MaxCves = 2
  MaxChanges = 2
  MaxFaults = 0
  MaxTransients = 0
  MaxActions = 0
  None = None
SYMMETRY CaseSymmetry
INVARIANTS
  NothingMissed
