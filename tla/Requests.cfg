CONSTANTS
  c1 = c1
  c2 = c2
  w1 = w1
  None = None
  Wallet = {w1}
  Client = {c1, c2}
  Reader = {c1}
  Key = {"old", "new"}
  FirstKeys = {"old"}
  TTL = 1
  FetchTimeout = 1
  Half = 128
  DefaultLimit = 1
  MaxLimit = 2
  RawLimit = {0, 5}
  MaxBalance = 1
  MaxVersion = 3
SPECIFICATION FairSpec
INVARIANTS
  PagesExact
  ReconcileConsistent
  SteadyKeyServed
PROPERTIES
  EndsComplete
  BoundedStaleness
  EveryRequestAnswered
