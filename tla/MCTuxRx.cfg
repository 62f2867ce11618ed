SPECIFICATION Spec
CONSTANTS
  TUXCTL_BUFSIZE = 5
  PacketSize = 4
  MaxChunk = 6
  MaxGap = 2
  MaxBytes = 11
  MaxClose = 1
INVARIANTS ArraysFit HandledInOrder IntactHandled NoSplice NoBacklog
CHECK_DEADLOCK FALSE
