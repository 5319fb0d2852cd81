CONSTANTS
  N = 3
  Ticks = {t1, t2}
  MaxVersion = 2
  Budget = 2
SPECIFICATION FairSpec
CHECK_DEADLOCK FALSE
INVARIANTS
  OnePass
  NoChangeMissed
PROPERTIES
  ChangesShown
  ViewSettles
