CONSTANTS
  Runs = {r1, r2}
  NoRun = NoRun
  Budget <- EventBudget
SPECIFICATION FairSpec
CHECK_DEADLOCK FALSE
INVARIANTS
  OneScan
  OneWayBack
  NotStuckAtConnected
  FirstScanTrusted
  FirstScanOwed
  SweepAwaitsScan
PROPERTIES
  ImplementsLink
  AcceptedScanEnds
  FirstScanRecorded
  CloseDrains
