SPECIFICATION FairSpec
CONSTANTS
  Articles = {1, 2}
  WithCves = {}
  Runs = {r1}
  Limit = 1
  Lanes = 2
  MaxAttempts = 1
  Chunks = 1
  ClientTries = 1
  MaxRetries = 0
  MaxFaults = 0
  None = None
PROPERTIES
  EveryArticleAnalysed
