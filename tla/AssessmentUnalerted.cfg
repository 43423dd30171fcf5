SPECIFICATION TimedSpec
CONSTANTS
  Articles = {a1, a2}
  Events = {e1, e2}
  OldEvent = e2
  Limit = 1
  Ranks <- HighRank
  Drafts <- VendorDraft
  Requests = 0
  MaxTroubles = 1
  None = None
PROPERTIES
  EveryUpdateAlerted
