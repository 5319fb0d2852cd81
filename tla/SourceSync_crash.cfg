CONSTANTS
  Runs = {r1, r2}
  NoRun = NoRun
  Budget <- EventBudget
SPECIFICATION Spec
CHECK_DEADLOCK FALSE
INVARIANT
  SkippedScanWasWhole
