SPECIFICATION Spec
CONSTANTS
  Putter = {ioctl, rcv}
  Waker = {}
  NoCtx = NoCtx
  TUXCTL_BUFSIZE = 4
  UartSize = 8
  MaxPut = 2
  MaxBytes = 4
INVARIANTS InOrder
CHECK_DEADLOCK FALSE
