SPECIFICATION FairSpec
CONSTANTS
  Articles = {a1, a2}
  Cves = {c1}
  Analysts = {}
  Verdicts = {"human_confirmed", "human_rejected"}
  Limit = 1
  MaxInterpretations = 2
  MaxVerdicts = 0
  MaxFaults = 0
  None = None
PROPERTIES
  ReportedLinked
