CONSTANTS
  near = near
  far = far
  staked = staked
  hidden = hidden
  Coins = {near, far, staked, hidden}
  Home <- MCHome
  Last = 2
  Gap = 1
  Batch = 1
  Concurrency = 2
  Scans = {1, 2}
  Sources = {"phrase", "private-key"}
  Imported <- MCImported
  Chains <- MCChains
  Budget = 3
SPECIFICATION Spec
CHECK_DEADLOCK FALSE
INVARIANTS
  CleanScanComplete
  StaleGone
PROPERTIES
  CoveredSpared
