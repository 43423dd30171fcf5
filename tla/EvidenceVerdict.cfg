SPECIFICATION Spec
CONSTANTS
  Articles = {a1}
  Cves = {c1}
  Analysts = {n1}
  Verdicts = {"human_confirmed", "human_rejected"}
  Limit = 1
  MaxInterpretations = 1
  MaxVerdicts = 1
  MaxFaults = 0
  None = None
PROPERTIES
  ConsolidationIdempotent
