CONSTANTS
  Wallets = {w1, w2}
  N = 3
  Budget = 2
SPECIFICATION FairSpec
CHECK_DEADLOCK FALSE
INVARIANTS
  SpreadOverHealthy
  ClientsSupervised
PROPERTIES
  ImplementsLink
  FailoverReaches
