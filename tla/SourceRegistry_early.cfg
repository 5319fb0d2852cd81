CONSTANTS
  a = a
  b = b
  i1 = i1
  i2 = i2
  Sources = {a, b}
  Imports = {i1, i2}
  Phrase <- MCPhrase
  Budget <- EarlyBudget
SPECIFICATION Spec
CHECK_DEADLOCK FALSE
INVARIANTS
  OneEntryPerSource
  EveryEntryServed
PROPERTIES
  EveryImportEnds
