SPECIFICATION FairSpec
CONSTANTS
  Articles = {1}
  WithCves = {}
  Runs = {r1}
  Limit = 2
  Lanes = 2
  MaxAttempts = 2
  Chunks = 1
  ClientTries = 1
  MaxRetries = 0
  MaxFaults = 1
  None = None
PROPERTIES
  RunningReclaimed
