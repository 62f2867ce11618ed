SPECIFICATION OneCallerSpec
CONSTANTS
  Starts = {0, 599}
  MaxSet = 2
  MaxCalls = 1
  MaxReset = 1
  MaxPress = 2
INVARIANTS LedsRestoredUnlessRaced ButtonsCurrent
PROPERTIES BiocEventually
CHECK_DEADLOCK FALSE
