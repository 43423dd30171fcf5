SPECIFICATION FairSpec
CONSTANTS
  Articles = {a1, a2}
  Cves = {c1, c2}
  Analysts = {n1, n2}
  Verdicts = {"human_confirmed", "human_rejected"}
  Limit = 1
  MaxInterpretations = 3
  MaxVerdicts = 2
  MaxFaults = 1
  None = None
INVARIANTS
  VerdictsTraced
PROPERTIES
  EvidenceForward
  EvidenceConverges
