SPECIFICATION FairSpec
CONSTANTS
  Putter = {ioctl, rcv}
  Waker = {wake}
  NoCtx = NoCtx
  TUXCTL_BUFSIZE = 3
  UartSize = 2
  MaxPut = 3
  MaxBytes = 3
INVARIANTS TypeOK RingFifo BufFits EachByteOnce
PROPERTIES RingIsFifo AllLeave
