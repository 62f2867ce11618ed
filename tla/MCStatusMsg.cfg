SPECIFICATION FairSpec
CONSTANTS
  Dur = 3
  MaxMsg = 3
  MaxSpurious = 2
INVARIANTS TypeOK NoLostWakeup
PROPERTIES ClearOnlyOld EventuallyCleared
