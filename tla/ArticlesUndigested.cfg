SPECIFICATION FairSpec
CONSTANTS
  Articles = {1}
  Profiles = {"analyst-eval"}
  SameText = {}
  SameTitle = {}
  Limit = 1
  MaxRetries = 1
  MaxTroubles = 1
  None = None
PROPERTIES
  DigestEnds
