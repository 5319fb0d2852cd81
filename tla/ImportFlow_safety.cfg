CONSTANTS
  Phrases <- MCPhrases
  Keys = {k1}
  Losses = 2
SPECIFICATION ImportSpec
CHECK_DEADLOCK FALSE
INVARIANTS
  ImportsWhatDerives
  OfferHelps
