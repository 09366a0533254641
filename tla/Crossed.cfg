CONSTANTS
  h1 = h1
  h2 = h2
  k1 = k1
  k2 = k2
  None = None
  w1 = w1
  w2 = w2
  bet1 = bet1
  ref1 = ref1
  far1 = far1
  bet2 = bet2
  ref2 = ref2
  far2 = far2
  Wallet = {w1, w2}
  Request = {bet1, bet2, ref1, far1, ref2, far2}
  Input <- Crossed
  Opening <- BothHave1
  Handler = {h1, h2}
  Worker = {}
  MaxMoney = 2
  MaxRefAttempts = 2
  MaxInfraAttempts = 2
  MaxFaults = 0
SPECIFICATION Spec
SYMMETRY Symmetry
INVARIANTS
  ParkedIffWork
PROPERTIES
  TerminalIsFinal
  ImplementsAccount
