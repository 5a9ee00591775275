CONSTANTS
  Tasks = {t1, t2, t3}
  None = None
  MaxGrants = 2
  Faults = {"cancel", "crash", "loss", "disk", "timeout"}
SPECIFICATION Spec
SYMMETRY MCSymmetry
CHECK_DEADLOCK FALSE
INVARIANTS
  OneLiveRefresh
PROPERTIES
  ChangesAreConditional
  
