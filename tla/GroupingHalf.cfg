SPECIFICATION Spec
CONSTANTS
  Articles = {1}
  Keys = {"k"}
  Requests = 2
  MaxTroubles = 1
  None = None
INVARIANTS
  EventsWhole
