CONSTANTS
  N = 3
  Values <- MCValues
  Ops <- MCOps
  Torn = Torn
SPECIFICATION FairSpec
CHECK_DEADLOCK FALSE
PROPERTIES
  ImplementsAtomicFile
  CallsEnd
