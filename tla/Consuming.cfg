CONSTANTS
  Message = {1, 2}
  Body <- Refused
  Consumer = {"c1", "c2"}
  BatchSize = 2
  MaxHandlers = 1
  MaxReceives = 3
  MaxFaults = 1
SPECIFICATION FairSpec
INVARIANTS
  TypeOK
  GoneIsTreated
  RetriedToTheEnd
PROPERTIES
  LeavesQueue
