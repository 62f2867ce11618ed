SPECIFICATION FairSpec
CONSTANTS
  MaxTyped = 9
  MaxBurst = 5
  Players <- MCPlayers
  Signals = {"SIGINT", "SIGQUIT", "SIGSEGV"}
INVARIANTS RestoredUnlessRaced ReadAsMeant NoShadowing
PROPERTIES EndsUnlessHeapHeld
CHECK_DEADLOCK FALSE
