SPECIFICATION Spec
CONSTANTS
  Articles = {a1}
  Items <- MCItems
  None = None
INVARIANTS
  SevereNeverIgnored
  RowsAgree
  MonitoringNeverHides
