CONSTANTS
  Clients = {c1, c2}
  Entries = {e1, e2, e3}
  Sids = {s1}
  Uuids = {}
  Inputs = {i1}
  Configs = {g1}
  Kinds = {"text", "tool"}
  None = None
  MaxSessions = 1
  MaxTurns = 2
SPECIFICATION Spec
SYMMETRY MCSymmetry
CHECK_DEADLOCK FALSE
INVARIANTS
  EveryBackendIsAccountedFor
  ReservationHasOneHolder

  
