SPECIFICATION FairSpec
CONSTANTS
  Articles = {1, 2, 3}
  Profiles = {"cve-mvp", "analyst-eval", "full"}
  SameText = {1, 2}
  SameTitle = {2, 3}
  Limit = 2
  MaxRetries = 2
  MaxTroubles = 2
  None = None
INVARIANTS
  DuplicatesAnchored
  EmbeddedHasVector
PROPERTIES
  ArticlesSettle
  MentionsFound
