SPECIFICATION Spec
CONSTANTS
  Articles = {a1}
  Events = {e1}
  OldEvent = None
  Limit = 1
  Ranks <- AnyRank
  Drafts <- HalfDraft
  Requests = 0
  MaxTroubles = 1
  None = None
PROPERTIES
  SeverityPinned
