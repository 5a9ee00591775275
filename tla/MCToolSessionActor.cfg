CONSTANTS
  Clients = {c1, c2}
  Calls = {k1, k2}
  Bodies = {1, 2}
  None = None
  GenerationTimeout = 1
  ResultTimeout = 1
  MaxTranscript = 4
  MaxEvents = 2
SPECIFICATION Spec
SYMMETRY MCSymmetry
CHECK_DEADLOCK FALSE
INVARIANTS
  TypeOK
  ReservationHasOneOwner
  StateMatchesTasks
  NoGenerationBeforeSubmit
  ClientsSeeTheRecord
PROPERTIES
  RecordIsFinal
