CONSTANTS
  Clients = {c1, c2}
  Calls = {k1}
  Bodies = {1}
  None = None
  GenerationTimeout = 2
  ResultTimeout = 1
  MaxTranscript = 4
  MaxEvents = 1
SPECIFICATION FairSpec
CHECK_DEADLOCK FALSE
PROPERTIES
  NobodyWaitsForEver
  ImplementsConversation
