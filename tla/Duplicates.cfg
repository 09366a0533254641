CONSTANTS
  h1 = h1
  h2 = h2
  k1 = k1
  k2 = k2
  None = None
  Wallet = {"w1", "w2"}
  Request = {"bet", "again", "copy", "twin", "echo", "refund", "alien"}
  Input <- Duplicates
  Opening <- AnnAndBob
  Handler = {h1, h2}
  Worker = {}
  MaxMoney = 2
  MaxRefAttempts = 2
  MaxInfraAttempts = 2
  MaxFaults = 1
SPECIFICATION Spec
SYMMETRY Handlers
INVARIANTS
  TypeOK
  OneOperationPerKey
  InboxOfAccepted
  StakeReturnedOnce
