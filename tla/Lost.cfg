CONSTANTS
  Message = {1, 2}
  Body <- Broken
  Consumer = {"c1"}
  BatchSize = 2
  MaxHandlers = 2
  MaxReceives = 2
  MaxFaults = 1
SPECIFICATION Spec
INVARIANTS
  NothingLost
