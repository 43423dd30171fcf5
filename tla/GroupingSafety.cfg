SPECIFICATION FairSpec
CONSTANTS
  Articles = {1, 2}
  Keys = {"k"}
  Requests = 2
  MaxTroubles = 2
  None = None
INVARIANTS
  OneEventPerKey
  CountExact
PROPERTIES
  ArticlesGrouped
  ImplementsMembership
