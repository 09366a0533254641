CONSTANTS
  h1 = h1
  h2 = h2
  k1 = k1
  k2 = k2
  None = None
  Wallet = {"w1"}
  Request = {"ping", "pong"}
  Input <- Circular
  Opening <- AnnHas1
  Handler = {h1}
  Worker = {k1}
  MaxMoney = 2
  MaxRefAttempts = 2
  MaxInfraAttempts = 2
  MaxFaults = 0
SPECIFICATION FairSpec
PROPERTIES
  ParkedSettles
