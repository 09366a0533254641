CONSTANTS
  h1 = h1
  h2 = h2
  k1 = k1
  k2 = k2
  None = None
  Wallet = {"w1", "w2"}
  Request = {"bet", "again", "refund", "clash", "alien"}
  Input <- Retries
  Opening <- AnnAndBob
  Handler = {h1, h2}
  Worker = {}
  MaxMoney = 1
  MaxRefAttempts = 2
  MaxInfraAttempts = 2
  MaxFaults = 1
SPECIFICATION AnswersSpec
SYMMETRY Handlers
INVARIANTS
  AnswersTypeOK
  AnswersAgree
  AnswersHold
  RefusedMovesNothing
