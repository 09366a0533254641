CONSTANTS
  h1 = h1
  h2 = h2
  k1 = k1
  k2 = k2
  None = None
  Wallet = {"w1"}
  Request = {"bet", "prize", "win"}
  Input <- Overflows
  Opening <- AnnHas1
  Handler = {h1}
  Worker = {k1, k2}
  MaxMoney = 2
  MaxRefAttempts = 2
  MaxInfraAttempts = 2
  MaxFaults = 1
SPECIFICATION FairSpec
INVARIANTS
  ParkedIffWork
  EventsMatchLedger
  OneMovementPerTransaction
  ResultMatchesLedger
PROPERTIES
  ParkedSettles
