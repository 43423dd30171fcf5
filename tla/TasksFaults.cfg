SPECIFICATION Spec
CONSTANTS
  Articles = {1}
  WithCves = {1}
  Runs = {r1, r2}
  Limit = 2
  Lanes = 2
  MaxAttempts = 3
  Chunks = 2
  ClientTries = 1
  MaxRetries = 1
  MaxFaults = 1
  None = None
SYMMETRY RunSymmetry
INVARIANTS
  TypeOK
  LockHeldInRun
  WorkExclusive
  WorkerOwnsRow
  CallsWithinBudget
  ExhaustedOrAnswered
  InterpretationAfterDisposition
PROPERTIES
  ManualAnswerFinal
  CompletedUntilAuditFails
  ImplementsQueue
