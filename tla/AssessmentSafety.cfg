SPECIFICATION FairSpec
CONSTANTS
  Articles = {a1, a2}
  Events = {e1, e2}
  OldEvent = e2
  Limit = 1
  Ranks <- HighRank
  Drafts <- HalfDraft
  Requests = 1
  MaxTroubles = 1
  None = None
INVARIANTS
  AlertsBounded
  ApprovedWithImpact
PROPERTIES
  ImplementsPolicy
  MaterialAlerted
  MaterialSummarized
