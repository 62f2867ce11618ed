------------------------------- MODULE TuxRx --------------------------------
(***************************************************************************)
(* The receive half of the Tux line discipline, mp2/module/tuxctl-ld.c:    *)
(* tuxctl_ldisc_rcv_buf stores what the serial driver delivers in the ring *)
(* rx_buf, tuxctl_ldisc_data_callback cuts the bytes it gets from the ring *)
(* into packets of three and hands each one to tuxctl_handle_packet, and   *)
(* tuxctl_ldisc_open and tuxctl_ldisc_close come and go around them.       *)
(*                                                                         *)
(* The controller sends packets of three bytes whose framing bit 0x80 is   *)
(* clear, set, set.  Byte k is abstracted to its number in that stream, so *)
(* k % 3 is its place in its packet.                                       *)
(*                                                                         *)
(* The ring is a queue of at most TUXCTL_BUFSIZE - 1 bytes: TuxTxProofs    *)
(* shows that a ring with the same macros is one.  One context runs        *)
(* receive_buf at a time and the tty layer closes no line discipline that  *)
(* is in use, so between the lock operations only the line itself moves.   *)
(***************************************************************************)
EXTENDS Integers, Sequences, SequencesExt

CONSTANTS
  TUXCTL_BUFSIZE,  \* slots of the ring
  PacketSize,      \* size of the callback's array packet (12 in the source)
  MaxChunk,        \* bound: most bytes the serial driver delivers at once
  MaxGap,          \* bound: most consecutive bytes lost on the line
  MaxBytes,        \* bound: bytes the controller sends
  MaxClose         \* bound: times the line discipline is closed

ASSUME RxAssumption == /\ TUXCTL_BUFSIZE \in Nat \ {0, 1}
                       /\ PacketSize \in Nat /\ PacketSize >= 3
                       /\ MaxChunk \in Nat \ {0}
                       /\ MaxGap \in Nat /\ MaxBytes \in Nat
                       /\ MaxClose \in Nat

VARIABLES
  opened,    \* tty->disc_data # 0
  rx,        \* the bytes in rx_buf, oldest first
  saved,     \* the callback's static saved[0 .. n_saved - 1]
  pc,        \* "idle", "get" (rcv_buf has unlocked), "parse"
  packet,    \* the callback's local packet[0 .. n - 1]
  i,         \* the callback's local index into packet
  handled,   \* the packets given to tuxctl_handle_packet, in order
  sent,      \* external: bytes sent by the controller so far
  gone,      \* bytes that never reached the callback
  closes,    \* number of closes so far
  excess     \* history: bytes stored beyond what one callback surely reads

local == <<saved, packet, i>>
vars == <<opened, rx, pc, local, handled, sent, gone, closes, excess>>

Framing(k) == k % 3 # 0

-----------------------------------------------------------------------------
\* tuxctl_ldisc_open; a failed kmalloc leaves everything as it was.
tuxctl_ldisc_open ==
  /\ ~opened
  /\ opened' = TRUE
  /\ rx' = << >>
  /\ UNCHANGED <<pc, local, handled, sent, gone, closes, excess>>

\* tuxctl_ldisc_close: frees the ring, keeps the callback's static saved.
tuxctl_ldisc_close ==
  /\ opened /\ pc = "idle"
  /\ closes < MaxClose
  /\ closes' = closes + 1
  /\ opened' = FALSE
  /\ rx' = << >>
  /\ gone' = gone \cup ToSet(rx)
  /\ UNCHANGED <<pc, local, handled, sent, excess>>

\* What fits of a chunk of count bytes.
Fits(count) == LET room == TUXCTL_BUFSIZE - 1 - Len(rx)
               IN  IF count <= room THEN count ELSE room

\* tuxctl_ldisc_rcv_buf up to its unlock: bytes that find the ring full are
\* dropped; without a line discipline all are, and no callback follows.
tuxctl_ldisc_rcv_buf(count) ==
  /\ pc = "idle"
  /\ sent + count <= MaxBytes
  /\ sent' = sent + count
  /\ LET kept == IF opened THEN Fits(count) ELSE 0
     IN  /\ rx' = rx \o [k \in 1 .. kept |-> sent + k - 1]
         /\ gone' = gone \cup (sent + kept .. sent + count - 1)
         /\ excess' = excess + (IF kept > PacketSize - 2
                                THEN kept - (PacketSize - 2) ELSE 0)
  /\ pc' = IF opened THEN "get" ELSE "idle"
  /\ UNCHANGED <<opened, local, handled, closes>>

\* External: the line loses count bytes in a row.
LineLoss(count) ==
  /\ pc = "idle"
  /\ sent + count <= MaxBytes
  /\ sent' = sent + count
  /\ gone' = gone \cup (sent .. sent + count - 1)
  /\ UNCHANGED <<opened, rx, pc, local, handled, closes, excess>>

\* tuxctl_ldisc_get of want bytes, stored after the saved ones.
Get(want) ==
  /\ pc = "get"
  /\ LET r == IF want <= Len(rx) THEN want ELSE Len(rx)
     IN  /\ packet' = saved \o SubSeq(rx, 1, r)
         /\ rx' = SubSeq(rx, r + 1, Len(rx))
  /\ i' = 0
  /\ pc' = "parse"
  /\ UNCHANGED <<opened, saved, handled, sent, gone, closes, excess>>

\* Mutant for ArraysFit: the saved bytes are not counted.
tuxctl_ldisc_get_past == Get(PacketSize)

\* Mutant for NoBacklog: room is made for the saved bytes twice.
tuxctl_ldisc_get_less == Get(PacketSize - 2 * Len(saved))

\* The call tuxctl_ldisc_get(tty, packet + n_saved, PacketSize - n_saved).
tuxctl_ldisc_get == Get(PacketSize - Len(saved))

\* Mutant for NoSplice: the last byte's framing bit is not checked.
PacketAt_noLast(j) == ~Framing(packet[j + 1]) /\ Framing(packet[j + 2])

\* A packet starts at packet[j], by the framing bits.
PacketAt(j) == /\ ~Framing(packet[j + 1])
               /\ Framing(packet[j + 2]) /\ Framing(packet[j + 3])

\* One iteration of the callback's loop.
ParseStep ==
  /\ pc = "parse" /\ i < Len(packet) - 2
  /\ IF PacketAt(i)
     THEN /\ handled' = Append(handled, SubSeq(packet, i + 1, i + 3))
          /\ i' = i + 3
     ELSE /\ handled' = handled
          /\ i' = i + 1
  /\ UNCHANGED <<opened, rx, saved, pc, packet, sent, gone, closes, excess>>

\* Mutant for IntactHandled: the leftovers are forgotten.
SaveLeftovers_none ==
  /\ pc = "parse" /\ i >= Len(packet) - 2
  /\ saved' = << >>
  /\ packet' = << >> /\ i' = 0
  /\ pc' = "idle"
  /\ UNCHANGED <<opened, rx, handled, sent, gone, closes, excess>>

\* Mutant for HandledInOrder: the first bytes are saved instead.
SaveLeftovers_first ==
  /\ pc = "parse" /\ i >= Len(packet) - 2
  /\ saved' = SubSeq(packet, 1, Len(packet) - i)
  /\ packet' = << >> /\ i' = 0
  /\ pc' = "idle"
  /\ UNCHANGED <<opened, rx, handled, sent, gone, closes, excess>>

\* The leftovers are saved for the next call; the locals end here.
SaveLeftovers ==
  /\ pc = "parse" /\ i >= Len(packet) - 2
  /\ saved' = SubSeq(packet, i + 1, Len(packet))
  /\ packet' = << >> /\ i' = 0
  /\ pc' = "idle"
  /\ UNCHANGED <<opened, rx, handled, sent, gone, closes, excess>>

tuxctl_ldisc_data_callback == tuxctl_ldisc_get \/ ParseStep \/ SaveLeftovers

Init ==
  /\ opened = FALSE /\ rx = << >>
  /\ saved = << >> /\ packet = << >> /\ i = 0
  /\ pc = "idle" /\ handled = << >>
  /\ sent = 0 /\ gone = {} /\ closes = 0 /\ excess = 0

Next ==
  \/ tuxctl_ldisc_open
  \/ tuxctl_ldisc_close
  \/ \E count \in 1 .. MaxChunk : tuxctl_ldisc_rcv_buf(count)
  \/ \E count \in 1 .. MaxGap : LineLoss(count)
  \/ tuxctl_ldisc_data_callback

Spec == Init /\ [][Next]_vars

-----------------------------------------------------------------------------
(* Properties. *)

\* Every variable has its type, and the ring keeps one slot empty.
TypeOK ==
  /\ opened \in BOOLEAN
  /\ rx \in Seq(Nat) /\ Len(rx) < TUXCTL_BUFSIZE
  /\ saved \in Seq(Nat) /\ packet \in Seq(Nat) /\ i \in Nat
  /\ pc \in {"idle", "get", "parse"}
  /\ handled \in Seq(Seq(Nat))
  /\ {sent, closes, excess} \subseteq Nat /\ gone \in SUBSET Nat

\* The callback stays inside its arrays packet[PacketSize] and saved[2],
\* and never reads packet beyond the n bytes it holds; the ring never holds
\* as many bytes as make it look empty.  (Checked together with the types.)
ArraysFit == /\ TypeOK
             /\ Len(packet) <= PacketSize
             /\ Len(saved) <= 2
             /\ i <= Len(packet)

\* Whatever bytes are lost and wherever chunks end, no byte is part of two
\* packets, and packets are handled in the order the controller sent them.
HandledInOrder ==
  \A m, n \in 1 .. Len(handled) :
    m < n => \A j, k \in 1 .. 3 : handled[m][j] < handled[n][k]

\* Bytes the callback has yet to look at as packet beginnings.
Pending == ToSet(rx) \cup ToSet(saved) \cup ToSet(SubSeq(packet, i + 1, Len(packet)))

\* Framing resynchronises at once: a packet all of whose bytes got through
\* is handled, as it was sent, once its bytes have been looked at, whatever
\* was lost before or after it and however the chunks cut it.
IntactHandled ==
  \A a \in 0 .. MaxBytes \div 3 :
    LET bytes == 3 * a .. 3 * a + 2
    IN  3 * a + 2 < sent /\ bytes \cap (gone \cup Pending) = {}
          => <<3 * a, 3 * a + 1, 3 * a + 2>> \in ToSet(handled)

\* A packet that is handled is one the controller sent, or one spliced over
\* at least two lost bytes: the framing bits detect every single loss.
NoSplice ==
  \A m \in 1 .. Len(handled) :
    LET bytes == ToSet(handled[m])
        missing == (handled[m][1] .. handled[m][3]) \ bytes
    IN  missing # {} => missing \subseteq gone /\ Cardinality(missing) >= 2

\* A callback reads the ring once, and what it leaves waits until the line
\* delivers more.  No byte of a chunk that fits in packet beside the saved
\* bytes waits: between callbacks the ring holds at most what larger chunks
\* brought too much, however many chunks came since.
NoBacklog == pc = "idle" => Len(rx) <= excess
=============================================================================
