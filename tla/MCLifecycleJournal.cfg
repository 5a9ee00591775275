CONSTANTS
  Owner = owner
  Executors = {x1, x2}
  Claimants = {}
  None = None
  RecordBytes = 2
  TornBytes = 1
  NormalLimit = 18
  MaxTorn = 1
SPECIFICATION Spec
SYMMETRY MCSymmetry
CHECK_DEADLOCK FALSE
INVARIANTS
  JournalBracketsWorkdir
  TokenIsCurrent
  RecoveryReserve
PROPERTIES
  StepsAreAuthorised
