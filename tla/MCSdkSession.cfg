CONSTANTS
  Calls = {1, 2}
  None = None
  Shapes <- MCShapes
  Policies = {TRUE}
  BufferLimit = 2
  Rogue = rogue
  MaxTurns = 2
  MaxLag = 2
  MaxExtras = 1
SPECIFICATION FairSpec
CHECK_DEADLOCK FALSE
INVARIANTS
  ExchangeIsFaithful
  
PROPERTIES
  RoundIsClosed
  NothingHangs
