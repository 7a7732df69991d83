CONSTANTS
  P = 2
  MaxStored = 4
  MaxOwn = 1
  MaxPulls = 2
SPECIFICATION ThreadFairSpec
INVARIANTS
  ThreadTypeOK
  HolesExplained
PROPERTIES
  VanishOnlyByLoad
  CatchUp
CHECK_DEADLOCK FALSE
