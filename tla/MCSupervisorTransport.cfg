CONSTANTS
  Capacity = 1
  MaxProbes = 2
  MaxSwaps = 2
  Writers = {w1, w2}
  MaxCalls = 3
SPECIFICATION FairSpec
CHECK_DEADLOCK FALSE
INVARIANTS
  ProbeIsContained
  SupervisorIsOwned
  OnlyInitializeIsSent
PROPERTIES
  CloseEnds
