SPECIFICATION Spec
CONSTANTS
  Articles = {1}
  WithCves = {1}
  Runs = {r1, r2}
  Limit = 2
  Lanes = 2
  MaxAttempts = 3
  Chunks = 1
  ClientTries = 1
  MaxRetries = 0
  MaxFaults = 2
  None = None
INVARIANTS
  InterpretedIsActionable
