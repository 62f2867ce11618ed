------------------------------- MODULE TuxTx --------------------------------
(***************************************************************************)
(* The transmit half of the Tux line discipline, mp2/module/tuxctl-ld.c:   *)
(* tuxctl_ldisc_put and tuxctl_ldisc_write_wakeup over the ring tx_buf,    *)
(* with the serial driver below them.                                      *)
(*                                                                         *)
(* A context is a thread of execution inside the module.  Putters call     *)
(* tuxctl_ldisc_put (an ioctl, the packet handler in the receive           *)
(* interrupt); Wakers are the serial driver calling write_wakeup.  Every   *)
(* loop iteration and every lock operation of a context is a step, so      *)
(* contexts interleave exactly where the code holds no lock.               *)
(*                                                                         *)
(* Bytes are abstracted to their serial number: the k-th byte ever stored  *)
(* in tx_buf is the number k.  The right output is thus 1, 2, 3, ...       *)
(***************************************************************************)
EXTENDS Integers, Sequences, FiniteSets

CONSTANTS
  Putter,          \* contexts that call tuxctl_ldisc_put
  Waker,           \* contexts in which the serial driver calls write_wakeup
  NoCtx,           \* the holder of a free lock
  TUXCTL_BUFSIZE,  \* slots of the ring
  UartSize,        \* bytes the serial driver can buffer
  MaxPut,          \* bound: the longest buffer given to one put
  MaxBytes         \* bound: bytes given to put over a whole behaviour

Ctx == Putter \cup Waker

ASSUME CtxAssumption == Putter \cap Waker = {} /\ NoCtx \notin Ctx
ASSUME SizeAssumption == /\ TUXCTL_BUFSIZE \in Nat \ {0, 1}
                         /\ UartSize \in Nat \ {0}
                         /\ MaxPut \in Nat \ {0}
                         /\ MaxBytes \in Nat

VARIABLES
  lock,      \* holder of tuxctl_ldisc_lock
  tx_buf, tx_start, tx_end,
  pc,        \* next step of each context
  n,         \* put: bytes of the caller's buffer not yet stored
  room,      \* write_wakeup: what write_room answered
  buf,       \* write_wakeup: the local copy handed to driver->write
  uart,      \* external: bytes buffered by the serial driver
  wire,      \* external: bytes sent to the controller, in order
  lost,      \* external: bytes driver->write had no room for
  enq,       \* number of bytes ever stored in tx_buf
  offered    \* bytes given to put so far (counts towards MaxBytes)

ringVars == <<tx_buf, tx_start, tx_end, enq>>
serialVars == <<uart, wire, lost>>
vars == <<lock, ringVars, pc, n, room, buf, serialVars, offered>>

-----------------------------------------------------------------------------
(* The ring macros of the source. *)

Index == 0 .. TUXCTL_BUFSIZE - 1

buf_used(start, end) == IF start <= end THEN end - start
                                        ELSE TUXCTL_BUFSIZE + end - start

buf_empty(start, end) == start = end

buf_full(start, end) == (end + 1) % TUXCTL_BUFSIZE = start

\* Mutant for TypeOK: the index is not wrapped.
buf_incidx_noWrap(idx) == idx + 1

buf_incidx(idx) == (idx + 1) % TUXCTL_BUFSIZE

-----------------------------------------------------------------------------
Goto(c, l) == pc' = [pc EXCEPT ![c] = l]

\* spin_lock_irqsave, from label l to label m.
SpinLock(c, l, m) ==
  /\ pc[c] = l
  /\ lock = NoCtx
  /\ lock' = c
  /\ Goto(c, m)
  /\ UNCHANGED <<ringVars, n, room, buf, serialVars, offered>>

\* tuxctl_ldisc_put: called with a buffer of k bytes.
PutCall(c, k) ==
  /\ pc[c] = "idle"
  /\ offered + k <= MaxBytes
  /\ n' = [n EXCEPT ![c] = k]
  /\ offered' = offered + k
  /\ Goto(c, "putLock")
  /\ UNCHANGED <<lock, ringVars, room, buf, serialVars>>

PutLock(c) == SpinLock(c, "putLock", "put")

\* Mutant for RingFifo: the index is advanced before the byte is stored.
PutByte_early(c) ==
  /\ pc[c] = "put"
  /\ n[c] > 0 /\ ~buf_full(tx_start, tx_end)
  /\ tx_buf' = [tx_buf EXCEPT ![buf_incidx(tx_end)] = enq + 1]
  /\ enq' = enq + 1
  /\ tx_end' = buf_incidx(tx_end)
  /\ n' = [n EXCEPT ![c] = @ - 1]
  /\ UNCHANGED <<lock, tx_start, pc, room, buf, serialVars, offered>>

\* Mutant for RingIsFifo: a full ring gives up its oldest byte.
PutByte_evicts(c) ==
  /\ pc[c] = "put"
  /\ n[c] > 0
  /\ IF buf_full(tx_start, tx_end)
       THEN /\ tx_start' = buf_incidx(tx_start)
            /\ lost' = lost \cup {tx_buf[tx_start]}
       ELSE UNCHANGED <<tx_start, lost>>
  /\ tx_buf' = [tx_buf EXCEPT ![tx_end] = enq + 1]
  /\ enq' = enq + 1
  /\ tx_end' = buf_incidx(tx_end)
  /\ n' = [n EXCEPT ![c] = @ - 1]
  /\ UNCHANGED <<lock, pc, room, buf, uart, wire, offered>>

\* One iteration of the loop that fills the ring.
PutByte(c) ==
  /\ pc[c] = "put"
  /\ n[c] > 0 /\ ~buf_full(tx_start, tx_end)
  /\ tx_buf' = [tx_buf EXCEPT ![tx_end] = enq + 1]
  /\ enq' = enq + 1
  /\ tx_end' = buf_incidx(tx_end)
  /\ n' = [n EXCEPT ![c] = @ - 1]
  /\ UNCHANGED <<lock, tx_start, pc, room, buf, serialVars, offered>>

\* The loop ends, the lock is released and put calls write_wakeup.
PutUnlock(c) ==
  /\ pc[c] = "put"
  /\ n[c] = 0 \/ buf_full(tx_start, tx_end)
  /\ lock' = NoCtx
  /\ Goto(c, "room")
  /\ UNCHANGED <<ringVars, n, room, buf, serialVars, offered>>

\* The serial driver calls write_wakeup "when it can accept more".
WakeCall(c) ==
  /\ pc[c] = "idle"
  /\ Len(uart) < UartSize
  /\ Goto(c, "room")
  /\ UNCHANGED <<lock, ringVars, n, room, buf, serialVars, offered>>

\* Mutant for AllLeave: give up unless there is room for the whole ring.
WriteRoom_all(c) ==
  /\ pc[c] = "room"
  /\ LET r == UartSize - Len(uart)
         enough == r > buf_used(tx_start, tx_end)
     IN  /\ room' = [room EXCEPT ![c] = IF enough THEN r ELSE 0]
         /\ Goto(c, IF enough THEN "takeLock" ELSE "idle")
  /\ UNCHANGED <<lock, ringVars, n, buf, serialVars, offered>>

\* room = tty->driver->write_room(tty), before the lock is taken.
WriteRoom(c) ==
  /\ pc[c] = "room"
  /\ room' = [room EXCEPT ![c] = UartSize - Len(uart)]
  /\ Goto(c, "takeLock")
  /\ UNCHANGED <<lock, ringVars, n, buf, serialVars, offered>>

TakeLock(c) == SpinLock(c, "takeLock", "take")

\* The loop test of write_wakeup; its n is the length of buf here.
MoreToTake(c) == Len(buf[c]) <= room[c] /\ ~buf_empty(tx_start, tx_end)

TakeByte(c) ==
  /\ pc[c] = "take"
  /\ MoreToTake(c)
  /\ buf' = [buf EXCEPT ![c] = Append(@, tx_buf[tx_start])]
  /\ tx_start' = buf_incidx(tx_start)
  /\ UNCHANGED <<lock, tx_buf, tx_end, enq, pc, n, room, serialVars, offered>>

\* Mutant for BufFits: the write waits until all the room can be used.
TakeUnlock_fills(c) ==
  /\ pc[c] = "take"
  /\ ~MoreToTake(c)
  /\ lock' = NoCtx
  /\ Goto(c, IF Len(buf[c]) <= room[c] THEN "takeLock" ELSE "write")
  /\ UNCHANGED <<ringVars, n, room, buf, serialVars, offered>>

TakeUnlock(c) ==
  /\ pc[c] = "take"
  /\ ~MoreToTake(c)
  /\ lock' = NoCtx
  /\ Goto(c, "write")
  /\ UNCHANGED <<ringVars, n, room, buf, serialVars, offered>>

\* External: the serial driver keeps what fits of a buffer s.
Accepted(s) == LET space == UartSize - Len(uart)
               IN  IF Len(s) <= space THEN Len(s) ELSE space

\* Mutant for EachByteOnce: a short write goes unnoticed.
DriverWrite_short(c) ==
  /\ pc[c] = "write"
  /\ uart' = uart \o SubSeq(buf[c], 1, Accepted(buf[c]))
  /\ buf' = [buf EXCEPT ![c] = << >>]
  /\ n' = [n EXCEPT ![c] = 0]
  /\ room' = [room EXCEPT ![c] = 0]
  /\ Goto(c, "idle")
  /\ UNCHANGED <<lock, ringVars, wire, lost, offered>>

\* sent = tty->driver->write(tty, buf, n), without the lock; the bytes
\* that were not accepted are gone ("We lost some data").
DriverWrite(c) ==
  /\ pc[c] = "write"
  /\ LET k == Accepted(buf[c])
     IN  /\ uart' = uart \o SubSeq(buf[c], 1, k)
         /\ lost' = lost \cup { buf[c][i] : i \in k + 1 .. Len(buf[c]) }
  /\ buf' = [buf EXCEPT ![c] = << >>]
  /\ n' = [n EXCEPT ![c] = 0]          \* the locals go out of scope
  /\ room' = [room EXCEPT ![c] = 0]
  /\ Goto(c, "idle")
  /\ UNCHANGED <<lock, ringVars, wire, offered>>

\* External: the port sends one byte to the controller.
UartSend ==
  /\ uart # << >>
  /\ wire' = Append(wire, Head(uart))
  /\ uart' = Tail(uart)
  /\ UNCHANGED <<lock, ringVars, pc, n, room, buf, lost, offered>>

-----------------------------------------------------------------------------
Init ==
  /\ lock = NoCtx
  /\ tx_buf = [i \in Index |-> 0]
  /\ tx_start = 0 /\ tx_end = 0
  /\ pc = [c \in Ctx |-> "idle"]
  /\ n = [c \in Ctx |-> 0]
  /\ room = [c \in Ctx |-> 0]
  /\ buf = [c \in Ctx |-> << >>]
  /\ uart = << >> /\ wire = << >> /\ lost = {}
  /\ enq = 0 /\ offered = 0

tuxctl_ldisc_put(c) ==
  \/ \E k \in 1 .. MaxPut : PutCall(c, k)
  \/ PutLock(c) \/ PutByte(c) \/ PutUnlock(c)

tuxctl_ldisc_write_wakeup(c) ==
  \/ WriteRoom(c)
  \/ TakeLock(c) \/ TakeByte(c) \/ TakeUnlock(c)
  \/ DriverWrite(c)

Next ==
  \/ \E c \in Putter : tuxctl_ldisc_put(c)
  \/ \E c \in Waker : WakeCall(c)
  \/ \E c \in Ctx : tuxctl_ldisc_write_wakeup(c)
  \/ UartSend

Spec == Init /\ [][Next]_vars

\* A context that is inside the module runs on, a spinning context gets a
\* lock that keeps being released, the port keeps sending, and the serial
\* driver calls write_wakeup whenever it has room.  No caller has to put.
Fairness ==
  /\ \A c \in Putter : /\ WF_vars(PutByte(c) \/ PutUnlock(c))
                       /\ SF_vars(PutLock(c))
  /\ \A c \in Waker : WF_vars(WakeCall(c))
  /\ \A c \in Ctx : /\ WF_vars(WriteRoom(c) \/ TakeByte(c)
                                 \/ TakeUnlock(c) \/ DriverWrite(c))
                    /\ SF_vars(TakeLock(c))
  /\ WF_vars(UartSend)

FairSpec == Spec /\ Fairness

-----------------------------------------------------------------------------
(* Properties. *)

Label == {"idle", "putLock", "put", "room", "takeLock", "take", "write"}

\* Every variable of the transmit path has its type.
TypeOK ==
  /\ lock \in Ctx \cup {NoCtx}
  /\ tx_buf \in [Index -> Nat]
  /\ tx_start \in Index /\ tx_end \in Index
  /\ pc \in [Ctx -> Label]
  /\ n \in [Ctx -> Nat]
  /\ room \in [Ctx -> 0 .. UartSize]
  /\ buf \in [Ctx -> Seq(Nat)]
  /\ uart \in Seq(Nat) /\ Len(uart) <= UartSize
  /\ wire \in Seq(Nat) /\ lost \in SUBSET Nat
  /\ enq \in Nat /\ offered \in Nat

\* tuxctl_ldisc_lock is held by a context exactly while it is in one of the
\* two loops over the ring (so never by two contexts).
LockInv == \A c \in Ctx : (pc[c] \in {"put", "take"}) <=> (lock = c)

used == buf_used(tx_start, tx_end)

\* The slot k places after start.
Slot(start, k) == (start + k) % TUXCTL_BUFSIZE

\* The ring holds exactly the most recently stored bytes, oldest first:
\* nothing that has not been taken is overwritten, and wrapping the indices
\* never changes the order.
RingFifo == \A k \in 0 .. used - 1 :
              tx_buf[Slot(tx_start, k)] = enq - used + 1 + k

\* write_wakeup never writes past its local buf[TUXCTL_BUFSIZE], although
\* its loop is bounded by room, which nothing relates to that size.
BufFits == \A c \in Ctx : Len(buf[c]) < TUXCTL_BUFSIZE

\* The places byte i is in: ring slots, local copies, the serial driver's
\* buffer, the wire, the bytes lost by driver->write.
Occurrences(i) ==
  { <<"ring", k>> : k \in { j \in 0 .. used - 1 :
                       tx_buf[Slot(tx_start, j)] = i } }
  \cup (UNION { { <<c, k>> : k \in { j \in DOMAIN buf[c] : buf[c][j] = i } }
                  : c \in Ctx })
  \cup { <<"uart", k>> : k \in { j \in DOMAIN uart : uart[j] = i } }
  \cup { <<"wire", k>> : k \in { j \in DOMAIN wire : wire[j] = i } }
  \cup { <<"lost", 0>> : x \in lost \cap {i} }

\* However put and write_wakeup interleave, every byte stored in the ring is
\* in exactly one place: none is sent twice, none disappears except where
\* driver->write reports it (ld.c, "We lost some data").
EachByteOnce == \A i \in 1 .. enq : Cardinality(Occurrences(i)) = 1

\* Bytes reach the controller in the order put stored them.  True of one
\* context; two of them can write their copies in the opposite order.
InOrder == \A i, j \in DOMAIN wire : i < j => wire[i] < wire[j]

\* Why BufFits holds: a context copies bytes only while it holds the lock,
\* so what it has copied and what is left of the ring came from one ring.
BufInv ==
  \A c \in Ctx :
    /\ pc[c] \notin {"take", "write"} => buf[c] = << >>
    /\ pc[c] = "take" => Len(buf[c]) + used < TUXCTL_BUFSIZE
    /\ pc[c] = "write" => Len(buf[c]) < TUXCTL_BUFSIZE

\* The inductive invariant of the transmit path.
IInv == TypeOK /\ LockInv /\ BufInv /\ RingFifo

\* The ring as the queue it implements.
queue == [k \in 1 .. used |-> tx_buf[Slot(tx_start, k - 1)]]

Fifo == INSTANCE ByteFifo WITH Capacity <- TUXCTL_BUFSIZE - 1, q <- queue

\* The ring, under any interleaving of put and write_wakeup, behaves as a
\* bounded queue of TUXCTL_BUFSIZE - 1 bytes.
RingIsFifo == Fifo!Spec

=============================================================================
