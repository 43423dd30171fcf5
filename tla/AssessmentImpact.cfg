SPECIFICATION Spec
CONSTANTS
  Articles = {a1}
  Events = {e1}
  OldEvent = None
  Limit = 1
  Ranks <- HighRank
  Drafts <- AnyImpact
  Requests = 1
  MaxTroubles = 2
  None = None
INVARIANTS
  ApprovedHasImpact
