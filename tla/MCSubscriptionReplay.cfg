CONSTANTS
  m1 = m1  c1 = c1  c2 = c2  q1 = q1  x = x
  NoItem = NoItem
  Items <- ItemsDef
  Letters <- LettersDef
  MaxItems = 2
  Accounts = {a1, a2}
  Models = {gpt}
  Prompts = {hi}
  Bounds <- BoundsDef
  MaxEntries = 2
  MaxBytes = 5
SPECIFICATION ReplaySpec
CHECK_DEADLOCK FALSE
INVARIANTS
  
  
  CacheIsSound
PROPERTIES
  CipherIsKept
