CONSTANTS
  N = 2
  Versions = {"old", "new"}
  GUI = "new"
  Budget = 1
SPECIFICATION FairSpec
CHECK_DEADLOCK FALSE
INVARIANTS
  FailedChildNeverUp
PROPERTIES
  ShutdownEnds
  OneRemains
  FailedChildEnds
  LaunchSettles
