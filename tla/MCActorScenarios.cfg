CONSTANTS
  Releasers = {r1, r2}
  MaxReleases = 3
  Drivers <- MCDrivers
SPECIFICATION FairSpec
CHECK_DEADLOCK FALSE

  
PROPERTIES
  
  EveryCallEnds
