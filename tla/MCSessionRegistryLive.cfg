CONSTANTS
  Clients = {c1, c2}
  Entries = {e1, e2}
  Sids = {}
  Uuids = {u1, u2}
  Inputs = {i1, i2}
  Configs = {g1}
  Kinds = {"text", "tool"}
  None = None
  MaxSessions = 1
  MaxTurns = 1
SPECIFICATION FairSpec
CHECK_DEADLOCK FALSE
INVARIANTS
  CapacityIsKept
PROPERTIES
  
  EverythingIsGivenBack
