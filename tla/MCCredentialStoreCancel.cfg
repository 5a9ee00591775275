CONSTANTS
  Tasks = {t1, t2, t3}
  None = None
  MaxGrants = 3
  Faults = {"cancel"}
SPECIFICATION Spec
SYMMETRY MCSymmetry
CHECK_DEADLOCK FALSE
INVARIANTS
  OneRefreshPerGrant
