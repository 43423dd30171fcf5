SPECIFICATION FairSpec
CONSTANTS
  Articles = {1, 2}
  Profiles = {"analyst-eval"}
  SameText = {}
  SameTitle = {}
  Limit = 2
  MaxRetries = 1
  MaxTroubles = 2
  None = None
PROPERTIES
  DigestingReclaimed
