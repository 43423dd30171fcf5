SPECIFICATION FairSpec
CONSTANTS
  Articles = {1, 2}
  WithCves = {1, 2}
  Runs = {r1}
  Limit = 1
  Lanes = 2
  MaxAttempts = 2
  Chunks = 1
  ClientTries = 1
  MaxRetries = 0
  MaxFaults = 0
  None = None
PROPERTIES
  NewestAnalysed
  ActionableInterpreted
