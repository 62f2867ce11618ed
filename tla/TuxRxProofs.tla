---------------------------- MODULE TuxRxProofs -----------------------------
(***************************************************************************)
(* Proofs about TuxRx, for every ring and packet array of legal size, any  *)
(* chunking of the stream and any pattern of losses and closes.            *)
(***************************************************************************)
EXTENDS TuxRx, FiniteSetTheorems, SequenceTheorems, TLAPS

USE RxAssumption

Increasing(s) == \A a, b \in 1 .. Len(s) : a < b => s[a] < s[b]

\* Every byte of s is older than every byte of t.
Before(s, t) == \A a \in 1 .. Len(s), b \in 1 .. Len(t) : s[a] < t[b]

\* The bytes the callback holds and has not looked at: packet's while it
\* parses, between calls the saved ones (packet is then empty).
Held == {packet[j] : j \in i + 1 .. Len(packet)}
          \cup (IF pc = "parse" THEN {} ELSE {saved[j] : j \in 1 .. Len(saved)})

Unread == Held \cup {rx[j] : j \in 1 .. Len(rx)}

\* The locals exist during a call only, and everything is inside its array.
Locals == /\ TypeOK
          /\ Len(saved) <= 2 /\ i <= Len(packet) /\ Len(packet) <= PacketSize
          /\ pc # "parse" => packet = << >> /\ i = 0
          /\ ~opened => pc = "idle" /\ rx = << >>

\* The bytes wait in the order they were sent in.
Ordered == /\ Increasing(rx) /\ Increasing(saved) /\ Increasing(packet)
           /\ Before(packet, rx)
           /\ pc # "parse" => Before(saved, rx)
           /\ \A k \in Unread \cup gone : k < sent

\* What was handled is three bytes with the framing of a packet, each older
\* than every byte not looked at yet.
HandledOld ==
  \A m \in 1 .. Len(handled) :
    /\ handled[m] \in Seq(Nat) /\ Len(handled[m]) = 3
    /\ handled[m][1] < handled[m][2] /\ handled[m][2] < handled[m][3]
    /\ handled[m][3] < sent
    /\ \A k \in Unread : handled[m][3] < k

\* From the oldest unread byte on, every byte is unread or lost.
NoHoles == \A p \in Unread : \A k \in p .. sent - 1 : k \in Unread \cup gone

\* A packet whose first byte has been looked at was handled, or lost a byte.
Looked ==
  \A a \in Nat :
    /\ 3 * a < sent /\ 3 * a \notin Unread
    /\ 3 * a \notin gone /\ 3 * a + 1 \notin gone /\ 3 * a + 2 \notin gone
    => \E m \in 1 .. Len(handled) :
         handled[m] = <<3 * a, 3 * a + 1, 3 * a + 2>>

\* How far the ring can be behind, at each point of a receive.
Backlog == /\ pc \in {"idle", "parse"} => Len(rx) <= excess
           /\ pc = "get" => Len(rx) <= excess + (PacketSize - 2)

IInv == /\ Locals /\ Ordered /\ HandledOld /\ HandledInOrder
        /\ NoHoles /\ Looked /\ NoSplice /\ Backlog
-----------------------------------------------------------------------------
\* The empty sequence is one of bytes, and one of packets.
LEMMA EmptyNat == /\ << >> \in Seq(Nat) /\ Len(<< >>) = 0
                  /\ << >> \in Seq(Seq(Nat))
  BY EmptySeq

\* The invariant holds before the first tuxctl_ldisc_open.
LEMMA InitOK == Init => IInv
<1> SUFFICES ASSUME Init PROVE IInv
  OBVIOUS
<1> USE EmptyNat
<1>1. Locals
  <2>1. opened \in BOOLEAN
    BY Zenon DEF Init
  <2> QED BY <2>1 DEF Init, Locals, TypeOK
<1>2. Unread = {} /\ Len(handled) = 0
  BY DEF Init, Unread, Held
<1>3. Ordered
  BY <1>2 DEF Init, Ordered, Increasing, Before
<1>4. HandledOld /\ HandledInOrder /\ NoSplice
  BY <1>2 DEF HandledOld, HandledInOrder, NoSplice
<1>5. NoHoles /\ Looked
  BY <1>2 DEF NoHoles, Looked, Init
<1>6. Backlog
  BY DEF Init, Backlog
<1> QED BY <1>1, <1>3, <1>4, <1>5, <1>6 DEF IInv

\* No byte lies between sent and itself.
LEMMA SentNat == IInv => sent \in Nat /\ sent .. sent - 1 = {}
  BY DEF IInv, Locals, TypeOK

\* The bytes waiting are numbers of bytes.
LEMMA UnreadNat == Locals => Unread \subseteq Nat
<1> SUFFICES ASSUME Locals PROVE Unread \subseteq Nat
  OBVIOUS
<1>1. /\ rx \in [1 .. Len(rx) -> Nat] /\ saved \in [1 .. Len(saved) -> Nat]
      /\ packet \in [1 .. Len(packet) -> Nat] /\ i \in Nat
      /\ {Len(rx), Len(saved), Len(packet)} \subseteq Nat
  BY LenProperties DEF Locals, TypeOK
<1>2. \A j \in i + 1 .. Len(packet) : packet[j] \in Nat
  BY <1>1
<1> QED BY <1>1, <1>2 DEF Unread, Held

\* So are those of the packets handled.
LEMMA HandledNat ==
  HandledOld
    => \A m \in 1 .. Len(handled) : \A j \in 1 .. 3 : handled[m][j] \in Nat
  BY ElementOfSeq DEF HandledOld

\* A step may move bytes between the arrays, lose bytes, and bring new ones
\* that are then unread or lost: it keeps what is said of the packets handled
\* so far and of the bytes on their way.
LEMMA Moved ==
  ASSUME IInv, handled' = handled, NEW top \in Nat, sent' = top, sent <= top,
         gone \subseteq gone',
         Unread' \subseteq Unread \cup (sent .. top - 1),
         Unread' \cup gone' = Unread \cup gone \cup (sent .. top - 1)
  PROVE  /\ HandledOld' /\ HandledInOrder' /\ NoHoles' /\ Looked' /\ NoSplice'
         /\ \A k \in Unread' \cup gone' : k < sent'
<1> USE DEF IInv
<1>0. sent \in Nat /\ \A k \in Unread \cup gone : k < sent /\ k \in Nat
  BY UnreadNat, SentNat DEF Ordered, Locals, TypeOK
<1>1. HandledOld'
  <2>1. ASSUME NEW m \in 1 .. Len(handled)
        PROVE  /\ handled[m][3] \in Nat /\ handled[m][3] < sent
               /\ \A k \in Unread : handled[m][3] < k
    BY HandledNat DEF HandledOld
  <2>2. ASSUME NEW m \in 1 .. Len(handled)
        PROVE  handled[m][3] < top /\ \A k \in Unread' : handled[m][3] < k
    BY <1>0, <2>1
  <2> QED BY <2>2 DEF HandledOld
<1>2. HandledInOrder' /\ NoSplice'
  BY DEF HandledInOrder, NoSplice
<1>3. NoHoles'
  <2> SUFFICES ASSUME NEW p, p \in Unread', NEW k \in p .. top - 1
               PROVE  k \in Unread \cup gone \cup (sent .. top - 1)
    BY DEF NoHoles
  <2>0. p \in Nat /\ k \in Nat /\ p <= k /\ k <= top - 1
    <3>1. p \in Nat
      BY <1>0
    <3> QED BY <3>1
  <2>1. k >= sent => k \in sent .. top - 1
    BY <1>0, <2>0
  <2>2. k < sent => p \in Unread /\ k \in p .. sent - 1
    BY <1>0, <2>0
  <2> QED BY <1>0, <2>0, <2>1, <2>2 DEF NoHoles
<1>4. Looked'
  <2> SUFFICES ASSUME NEW a \in Nat, 3 * a < top, 3 * a \notin Unread',
                      3 * a \notin gone', 3 * a + 1 \notin gone',
                      3 * a + 2 \notin gone'
               PROVE  \E m \in 1 .. Len(handled) :
                         handled[m] = <<3 * a, 3 * a + 1, 3 * a + 2>>
    BY DEF Looked
  <2>1. 3 * a < sent /\ 3 * a \notin Unread
    BY <1>0
  <2> QED BY <2>1 DEF Looked
<1>5. \A k \in Unread' \cup gone' : k < top
  BY <1>0
<1> QED BY <1>1, <1>2, <1>3, <1>4, <1>5

\* tuxctl_ldisc_open finds no bytes in the ring it replaces.
LEMMA OpenOK == IInv /\ tuxctl_ldisc_open => IInv'
<1> SUFFICES ASSUME IInv, tuxctl_ldisc_open PROVE IInv'
  OBVIOUS
<1> USE DEF tuxctl_ldisc_open, local
<1>1. rx' = rx /\ pc' = "idle"
  BY DEF IInv, Locals
<1>2. Unread' = Unread
  BY <1>1 DEF Unread, Held
<1>3. Locals'
  <2>1. opened' \in BOOLEAN
    BY Zenon
  <2> QED BY <1>1, <2>1 DEF IInv, Locals, TypeOK
<1>4. Ordered'
  BY <1>1, <1>2 DEF IInv, Ordered, Increasing, Before
<1>5. Backlog'
  BY <1>1 DEF IInv, Backlog
<1> QED BY <1>2, <1>3, <1>4, <1>5, SentNat, Moved DEF IInv


\* tuxctl_ldisc_close loses the bytes of the ring and no others.
LEMMA CloseOK == IInv /\ tuxctl_ldisc_close => IInv'
<1> SUFFICES ASSUME IInv, tuxctl_ldisc_close PROVE IInv'
  OBVIOUS
<1> USE EmptyNat DEF tuxctl_ldisc_close, local
<1>0. /\ rx \in Seq(Nat) /\ Len(rx) \in Nat /\ DOMAIN rx = 1 .. Len(rx)
      /\ packet = << >> /\ i = 0
  BY DEF IInv, Locals, TypeOK
<1>1. ToSet(rx) = {rx[j] : j \in 1 .. Len(rx)}
  BY <1>0 DEF ToSet
<1>2. Unread' = Held /\ Unread = Held \cup ToSet(rx)
  BY <1>0, <1>1 DEF Unread, Held
<1>3. Locals'
  <2>1. opened' \in BOOLEAN
    BY Zenon
  <2>2. gone' \in SUBSET Nat
    <3>1. \A j \in 1 .. Len(rx) : rx[j] \in Nat
      BY <1>0, ElementOfSeq
    <3>2. gone \in SUBSET Nat
      BY DEF IInv, Locals, TypeOK
    <3> QED BY <1>1, <3>1, <3>2
  <2> QED BY <2>1, <2>2 DEF IInv, Locals, TypeOK
<1>4. /\ HandledOld' /\ HandledInOrder' /\ NoHoles' /\ Looked' /\ NoSplice'
      /\ \A k \in Unread' \cup gone' : k < sent'
  BY <1>2, SentNat, Moved
<1>5. Ordered'
  BY <1>4 DEF IInv, Ordered, Increasing, Before
<1>6. Backlog'
  BY DEF IInv, Backlog, Locals, TypeOK
<1> QED BY <1>3, <1>4, <1>5, <1>6 DEF IInv

\* What the line loses was never in an array.
LEMMA LossOK ==
  ASSUME IInv, NEW count \in 1 .. MaxGap, LineLoss(count) PROVE IInv'
<1> USE DEF LineLoss, local
<1>0. UNCHANGED <<rx, pc, saved, packet, i>>
  OBVIOUS
<1>1. Unread' = Unread
  BY ONLY <1>0 DEF Unread, Held
<1>2. Locals'
  <2>1. sent' \in Nat /\ sent .. sent + count - 1 \subseteq Nat
    BY SentNat
  <2>2. gone' \in SUBSET Nat
    BY <2>1 DEF IInv, Locals, TypeOK
  <2> QED BY <2>1, <2>2 DEF IInv, Locals, TypeOK
<1>3. /\ HandledOld' /\ HandledInOrder' /\ NoHoles' /\ Looked' /\ NoSplice'
      /\ \A k \in Unread' \cup gone' : k < sent'
  <2>1. sent \in Nat /\ sent + count \in Nat /\ sent <= sent + count
    BY SentNat
  <2>2. /\ sent' = sent + count
        /\ gone' = gone \cup (sent .. sent + count - 1)
        /\ handled' = handled
    OBVIOUS
  <2> QED BY <1>1, <2>1, <2>2, Moved
<1>4. Ordered'
  BY <1>1, <1>3 DEF IInv, Ordered, Increasing, Before
<1>5. Backlog'
  BY DEF IInv, Backlog
<1> QED BY <1>2, <1>3, <1>4, <1>5 DEF IInv


\* Bytes(s): the bytes of a sequence, by the places 1 .. Len(s).
Bytes(s) == {s[j] : j \in 1 .. Len(s)}

\* The bytes tuxctl_ldisc_rcv_buf stores: a run of the stream.
IsRun(new, first) == \A k \in 1 .. Len(new) : new[k] = first + k - 1

\* The function that tuxctl_ldisc_rcv_buf appends is such a run.
LEMMA Run ==
  ASSUME NEW n \in Nat, NEW first \in Nat
  PROVE  LET new == [k \in 1 .. n |-> first + k - 1]
         IN  new \in Seq(Nat) /\ Len(new) = n /\ IsRun(new, first)
<1> DEFINE new == [k \in 1 .. n |-> first + k - 1]
<1>1. new \in [1 .. n -> Nat]
  OBVIOUS
<1>2. new \in Seq(Nat)
  BY <1>1, SeqDef
<1>3. Len(new) = n
  BY <1>1, <1>2, LenProperties
<1> QED BY <1>2, <1>3 DEF IsRun

\* t is s with the n bytes from first on stored behind it.
Extended(t, s, n, first) ==
  /\ t \in Seq(Nat) /\ Len(t) = Len(s) + n
  /\ \A k \in 1 .. Len(s) : t[k] = s[k]
  /\ \A k \in Len(s) + 1 .. Len(s) + n : t[k] = first + (k - Len(s)) - 1
  /\ Bytes(t) = Bytes(s) \cup (first .. first + n - 1)

\* Appending a run extends a sequence.
LEMMA Stored ==
  ASSUME NEW s \in Seq(Nat), NEW first \in Nat,
         NEW new \in Seq(Nat), IsRun(new, first)
  PROVE  Extended(s \o new, s, Len(new), first)
<1> DEFINE t == s \o new
<1>4. Len(s) \in Nat /\ Len(new) \in Nat
  BY LenProperties
<1>5. t \in Seq(Nat) /\ Len(t) = Len(s) + Len(new)
  BY <1>4, ConcatProperties
<1>6. \A k \in 1 .. Len(s) + Len(new) : t[k] = IF k <= Len(s) THEN s[k] ELSE new[k - Len(s)]
  BY <1>4, ConcatProperties
<1> HIDE DEF t
<1>7. \A k \in 1 .. Len(s) : t[k] = s[k]
  BY <1>4, <1>6
<1>8. \A k \in Len(s) + 1 .. Len(s) + Len(new) : t[k] = first + (k - Len(s)) - 1
  BY <1>4, <1>6 DEF IsRun
<1>9. Bytes(t) = Bytes(s) \cup (first .. first + Len(new) - 1)
  <2>1. ASSUME NEW k \in first .. first + Len(new) - 1
        PROVE  \E j \in 1 .. Len(t) : t[j] = k
    <3> DEFINE j == Len(s) + (k - first) + 1
    <3>1. j \in Len(s) + 1 .. Len(s) + Len(new) /\ first + (j - Len(s)) - 1 = k
      BY <1>4
    <3> HIDE DEF j
    <3>2. j \in 1 .. Len(t)
      BY <1>4, <1>5, <3>1
    <3>3. t[j] = k
      BY <1>8, <3>1
    <3> QED BY <3>2, <3>3
  <2>2. ASSUME NEW j \in 1 .. Len(t)
        PROVE  \/ \E l \in 1 .. Len(s) : t[j] = s[l]
               \/ t[j] \in first .. first + Len(new) - 1
    <3>1. CASE j <= Len(s)
      BY <1>4, <1>7, <3>1
    <3>2. CASE j \in Len(s) + 1 .. Len(s) + Len(new)
      BY <1>4, <1>8, <3>2
    <3> QED BY <1>4, <1>5, <3>1, <3>2
  <2>3. ASSUME NEW j \in 1 .. Len(s)
        PROVE  \E l \in 1 .. Len(t) : t[l] = s[j]
    <3>1. j \in 1 .. Len(t)
      BY <1>4, <1>5
    <3> QED BY <1>7, <3>1
  <2>4. Bytes(t) \subseteq Bytes(s) \cup (first .. first + Len(new) - 1)
    BY <2>2 DEF Bytes
  <2>5. Bytes(s) \subseteq Bytes(t)
    BY <2>3 DEF Bytes
  <2>6. first .. first + Len(new) - 1 \subseteq Bytes(t)
    BY <2>1 DEF Bytes
  <2> QED BY <2>4, <2>5, <2>6
<1> QED BY <1>5, <1>7, <1>8, <1>9 DEF Extended, t

\* They keep the order, of s itself and behind any older r.
LEMMA StoredOrder ==
  ASSUME NEW s \in Seq(Nat), NEW n \in Nat, NEW first \in Nat,
         NEW t, Extended(t, s, n, first),
         Increasing(s), \A j \in 1 .. Len(s) : s[j] < first /\ s[j] \in Nat,
         NEW r \in Seq(Nat),
         \A j \in 1 .. Len(r) : r[j] < first /\ r[j] \in Nat, Before(r, s)
  PROVE  Increasing(t) /\ Before(r, t)
<1>1. /\ Len(t) = Len(s) + n /\ Len(s) \in Nat
      /\ \A k \in 1 .. Len(s) : t[k] = s[k]
      /\ \A k \in Len(s) + 1 .. Len(s) + n : t[k] = first + (k - Len(s)) - 1
  BY LenProperties DEF Extended
<1>2. ASSUME NEW a \in 1 .. Len(t), NEW b \in 1 .. Len(t), a < b
      PROVE  t[a] < t[b]
  <2>1. CASE b <= Len(s)
    <3>1. a \in 1 .. Len(s) /\ b \in 1 .. Len(s)
      BY <1>1, <1>2, <2>1
    <3> QED BY <1>1, <1>2, <3>1 DEF Increasing
  <2>2. CASE a <= Len(s) /\ b > Len(s)
    <3>1. a \in 1 .. Len(s) /\ b \in Len(s) + 1 .. Len(s) + n
      BY <1>1, <2>2
    <3>2. /\ t[a] = s[a] /\ s[a] < first /\ s[a] \in Nat
          /\ t[b] = first + (b - Len(s)) - 1
      BY <1>1, <3>1
    <3> QED BY <1>1, <3>1, <3>2
  <2>3. CASE a > Len(s)
    <3>1. a \in Len(s) + 1 .. Len(s) + n /\ b \in Len(s) + 1 .. Len(s) + n
      BY <1>1, <1>2, <2>3
    <3>2. t[a] = first + (a - Len(s)) - 1 /\ t[b] = first + (b - Len(s)) - 1
      BY <1>1, <3>1
    <3> QED BY <1>1, <1>2, <3>1, <3>2
  <2> QED BY <1>1, <1>2, <2>1, <2>2, <2>3
<1>3. ASSUME NEW a \in 1 .. Len(r), NEW b \in 1 .. Len(t)
      PROVE  r[a] < t[b]
  <2>1. CASE b <= Len(s)
    <3>1. b \in 1 .. Len(s)
      BY <1>1, <2>1
    <3> QED BY <1>1, <3>1 DEF Before
  <2>2. CASE b > Len(s)
    <3>1. b \in Len(s) + 1 .. Len(s) + n
      BY <1>1, <2>2
    <3>2. t[b] = first + (b - Len(s)) - 1
      BY <1>1, <3>1
    <3> QED BY <1>1, <3>1, <3>2
  <2> QED BY <1>1, <2>1, <2>2
<1> QED BY <1>2, <1>3 DEF Increasing, Before

\* tuxctl_ldisc_rcv_buf: every new byte is in the ring or lost.
LEMMA RcvOK ==
  ASSUME IInv, NEW count \in 1 .. MaxChunk, tuxctl_ldisc_rcv_buf(count)
  PROVE  IInv'
<1> DEFINE kept == IF opened THEN Fits(count) ELSE 0
           new == [k \in 1 .. kept |-> sent + k - 1]
<1>0. /\ pc = "idle" /\ sent' = sent + count
      /\ rx' = rx \o new
      /\ gone' = gone \cup (sent + kept .. sent + count - 1)
      /\ excess' = excess + (IF kept > PacketSize - 2
                             THEN kept - (PacketSize - 2) ELSE 0)
      /\ pc' = IF opened THEN "get" ELSE "idle"
      /\ UNCHANGED <<opened, saved, packet, i, handled, closes>>
  BY DEF tuxctl_ldisc_rcv_buf, local
<1>1. /\ sent \in Nat /\ rx \in Seq(Nat) /\ Len(rx) \in Nat
      /\ Len(rx) < TUXCTL_BUFSIZE /\ excess \in Nat
      /\ saved \in Seq(Nat) /\ packet = << >> /\ i = 0
  BY <1>0 DEF IInv, Locals, TypeOK
<1>2. /\ kept \in Nat /\ kept <= count
      /\ Len(rx) + kept < TUXCTL_BUFSIZE
  BY <1>1 DEF Fits
<1> HIDE DEF kept
<1>3. new \in Seq(Nat) /\ Len(new) = kept /\ IsRun(new, sent)
  BY <1>1, <1>2, Run
<1> HIDE DEF new
<1>5. Extended(rx', rx, kept, sent)
  BY <1>0, <1>1, <1>3, Stored
<1>4. /\ rx' \in Seq(Nat) /\ Len(rx') = Len(rx) + kept
      /\ \A k \in 1 .. Len(rx) : rx'[k] = rx[k]
      /\ \A k \in Len(rx) + 1 .. Len(rx) + kept : rx'[k] = sent + (k - Len(rx)) - 1
      /\ Bytes(rx') = Bytes(rx) \cup (sent .. sent + kept - 1)
  BY <1>5 DEF Extended
<1>6. UNCHANGED Held
  <2>1. pc # "parse" /\ pc' # "parse"
    BY <1>0
  <2> QED BY ONLY <1>0, <2>1 DEF Held
<1>7. Unread' = Unread \cup (sent .. sent + kept - 1)
  BY <1>4, <1>6 DEF Unread, Bytes
<1>8. Locals'
  <2>1. sent' \in Nat /\ excess' \in Nat
    BY <1>0, <1>1, <1>2
  <2>2. gone' \in SUBSET Nat
    <3>1. sent + kept .. sent + count - 1 \subseteq Nat
      BY <1>1, <1>2
    <3> QED BY <1>0, <3>1 DEF IInv, Locals, TypeOK
  <2>3. ~opened => kept = 0
    BY DEF kept
  <2>4. ~opened' => rx' = << >>
    BY <1>0, <1>1, <1>4, <2>3, EmptyNat, SeqEqual DEF IInv, Locals
  <2>5. opened' \in BOOLEAN
    BY <1>0 DEF IInv, Locals, TypeOK
  <2> QED BY <1>0, <1>1, <1>2, <1>4, <2>1, <2>2, <2>4, <2>5 DEF IInv, Locals, TypeOK
<1>9. /\ HandledOld' /\ HandledInOrder' /\ NoHoles' /\ Looked' /\ NoSplice'
      /\ \A k \in Unread' \cup gone' : k < sent'
  <2>1. sent .. sent' - 1
          = (sent .. sent + kept - 1) \cup (sent + kept .. sent + count - 1)
    BY <1>0, <1>1, <1>2
  <2> QED BY <1>0, <1>1, <1>2, <1>7, <2>1, Moved
<1>10. Ordered'
  <2>1. \A j \in 1 .. Len(rx) : rx[j] < sent /\ rx[j] \in Nat
    BY <1>1, ElementOfSeq DEF IInv, Ordered, Unread
  <2>2. \A j \in 1 .. Len(saved) : saved[j] < sent /\ saved[j] \in Nat
    BY <1>0, <1>1, ElementOfSeq DEF IInv, Ordered, Unread, Held
  <2>3. Increasing(rx') /\ Before(saved, rx')
    BY <1>0, <1>1, <1>2, <1>5, <2>1, <2>2, StoredOrder DEF IInv, Ordered
  <2>5. Increasing(saved') /\ Increasing(packet') /\ Before(packet', rx')
    BY <1>0, <1>1, EmptyNat DEF IInv, Ordered, Increasing, Before
  <2> QED BY <1>0, <1>9, <2>3, <2>5 DEF Ordered
<1>11. Backlog'
  BY <1>0, <1>1, <1>2, <1>4 DEF IInv, Backlog, kept
<1> QED BY <1>8, <1>9, <1>10, <1>11 DEF IInv


\* The first n bytes of s.
LEMMA CutFront ==
  ASSUME NEW s \in Seq(Nat), NEW n \in 0 .. Len(s)
  PROVE  /\ SubSeq(s, 1, n) \in Seq(Nat) /\ Len(SubSeq(s, 1, n)) = n
         /\ \A j \in 1 .. n : SubSeq(s, 1, n)[j] = s[j]
<1>1. Len(s) \in Nat /\ \A j \in 1 .. n : s[j] \in Nat
  BY LenProperties, ElementOfSeq
<1> QED BY <1>1, SubSeqProperties

\* What is left of s from place n + 1 on.
LEMMA CutBack ==
  ASSUME NEW s \in Seq(Nat), NEW n \in 0 .. Len(s)
  PROVE  /\ SubSeq(s, n + 1, Len(s)) \in Seq(Nat)
         /\ Len(SubSeq(s, n + 1, Len(s))) = Len(s) - n
         /\ \A j \in 1 .. Len(s) - n : SubSeq(s, n + 1, Len(s))[j] = s[n + j]
         /\ Bytes(SubSeq(s, n + 1, Len(s))) = {s[j] : j \in n + 1 .. Len(s)}
<1> DEFINE t == SubSeq(s, n + 1, Len(s))
<1>1. Len(s) \in Nat /\ \A j \in n + 1 .. Len(s) : s[j] \in Nat
  BY LenProperties, ElementOfSeq
<1>2. /\ t \in Seq(Nat) /\ Len(t) = Len(s) - n
      /\ \A j \in 1 .. Len(s) - n : t[j] = s[n + j]
  BY <1>1, SubSeqProperties
<1> HIDE DEF t
<1>3. Bytes(t) \subseteq {s[j] : j \in n + 1 .. Len(s)}
  <2>1. ASSUME NEW j \in 1 .. Len(t)
        PROVE  \E l \in n + 1 .. Len(s) : t[j] = s[l]
    <3>1. n + j \in n + 1 .. Len(s)
      BY <1>1, <1>2
    <3> QED BY <1>2, <3>1
  <2> QED BY <2>1 DEF Bytes
<1>4. {s[j] : j \in n + 1 .. Len(s)} \subseteq Bytes(t)
  <2>1. ASSUME NEW l \in n + 1 .. Len(s)
        PROVE  \E j \in 1 .. Len(t) : t[j] = s[l]
    <3>1. l - n \in 1 .. Len(t) /\ n + (l - n) = l
      BY <1>1, <1>2
    <3>2. t[l - n] = s[l]
      BY <1>2, <3>1
    <3> QED BY <3>1, <3>2
  <2> QED BY <2>1 DEF Bytes
<1> QED BY <1>2, <1>3, <1>4 DEF t

\* It is as ordered as s was.
LEMMA CutOrder ==
  ASSUME NEW s \in Seq(Nat), NEW n \in 0 .. Len(s), Increasing(s),
         NEW q \in Seq(Nat), Before(s, q)
  PROVE  /\ Increasing(SubSeq(s, n + 1, Len(s)))
         /\ Before(SubSeq(s, n + 1, Len(s)), q)
<1> DEFINE t == SubSeq(s, n + 1, Len(s))
<1>1. /\ Len(t) = Len(s) - n /\ Len(s) \in Nat
      /\ \A j \in 1 .. Len(s) - n : t[j] = s[n + j]
  BY CutBack, LenProperties
<1> HIDE DEF t
<1>2. ASSUME NEW j \in 1 .. Len(t)
      PROVE  n + j \in 1 .. Len(s) /\ t[j] = s[n + j]
  <2>1. j \in 1 .. Len(s) - n
    BY <1>1
  <2>2. n + j \in 1 .. Len(s)
    BY <1>1, <2>1
  <2> QED BY <1>1, <2>1, <2>2
<1>3. ASSUME NEW a \in 1 .. Len(t), NEW b \in 1 .. Len(t), a < b
      PROVE  t[a] < t[b]
  <2>1. n + a < n + b
    BY <1>1, <1>3
  <2> QED BY <1>2, <2>1 DEF Increasing
<1>4. Before(t, q)
  BY <1>2 DEF Before
<1> QED BY <1>3, <1>4 DEF Increasing, t

\* p and rest hold the bytes of s and q, in order, r of them moved over.
Regrouped(p, rest, s, q, r) ==
  /\ p \in Seq(Nat) /\ Len(p) = Len(s) + r
  /\ rest \in Seq(Nat) /\ Len(rest) = Len(q) - r
  /\ Bytes(p) \cup Bytes(rest) = Bytes(s) \cup Bytes(q)
  /\ Increasing(p) /\ Increasing(rest) /\ Before(p, rest)

\* The first r bytes of q moved behind those of s: they stay in order.
LEMMA Taken ==
  ASSUME NEW s \in Seq(Nat), NEW q \in Seq(Nat), NEW r \in 0 .. Len(q),
         Increasing(s), Increasing(q), Before(s, q),
         NEW p, p = s \o SubSeq(q, 1, r),
         NEW rest, rest = SubSeq(q, r + 1, Len(q))
  PROVE  Regrouped(p, rest, s, q, r)
<1> DEFINE front == SubSeq(q, 1, r)
<1>0. Len(s) \in Nat /\ Len(q) \in Nat
  BY LenProperties
<1>1. front \in Seq(Nat) /\ Len(front) = r /\ \A j \in 1 .. r : front[j] = q[j]
  BY CutFront
<1>2. /\ rest \in Seq(Nat) /\ Len(rest) = Len(q) - r
      /\ \A j \in 1 .. Len(q) - r : rest[j] = q[r + j]
      /\ Bytes(rest) = {q[j] : j \in r + 1 .. Len(q)}
  BY CutBack
<1> HIDE DEF front
<1>3. /\ p \in Seq(Nat) /\ Len(p) = Len(s) + r
      /\ \A j \in 1 .. Len(s) + r :
           p[j] = IF j <= Len(s) THEN s[j] ELSE front[j - Len(s)]
  BY <1>1, ConcatProperties DEF front
<1>4. ASSUME NEW j \in 1 .. Len(p)
      PROVE  \/ j \in 1 .. Len(s) /\ p[j] = s[j]
             \/ j - Len(s) \in 1 .. r /\ p[j] = q[j - Len(s)]
  BY <1>0, <1>1, <1>3
<1>5. ASSUME NEW j \in 1 .. Len(rest)
      PROVE  r + j \in 1 .. Len(q) /\ rest[j] = q[r + j]
  <2>1. j \in 1 .. Len(q) - r
    BY <1>2
  <2>2. rest[j] = q[r + j]
    BY <1>2, <2>1
  <2>3. r \in Nat /\ j \in Nat /\ 1 <= j /\ j <= Len(q) - r
    BY <1>0, <2>1
  <2>4. r + j \in 1 .. Len(q)
    BY <1>0, <2>3
  <2> QED BY <2>2, <2>4
<1>6. 1 .. r \subseteq 1 .. Len(q)
  BY <1>0
<1>7. ASSUME NEW a \in 1 .. Len(p), NEW b \in 1 .. Len(p), a < b
      PROVE  p[a] < p[b]
  <2>1. CASE b \in 1 .. Len(s) /\ p[b] = s[b]
    <3>1. a \in 1 .. Len(s) /\ p[a] = s[a]
      BY <1>0, <1>3, <1>7, <2>1
    <3> QED BY <1>7, <2>1, <3>1 DEF Increasing
  <2>2. CASE b - Len(s) \in 1 .. r /\ p[b] = q[b - Len(s)]
    <3>1. CASE a \in 1 .. Len(s) /\ p[a] = s[a]
      BY <1>6, <2>2, <3>1 DEF Before
    <3>2. CASE a - Len(s) \in 1 .. r /\ p[a] = q[a - Len(s)]
      <4>1. a - Len(s) < b - Len(s)
        BY <1>0, <1>3, <1>7
      <4> QED BY <1>6, <2>2, <3>2, <4>1 DEF Increasing
    <3> QED BY <1>4, <3>1, <3>2
  <2> QED BY <1>4, <2>1, <2>2
<1>8. ASSUME NEW a \in 1 .. Len(rest), NEW b \in 1 .. Len(rest), a < b
      PROVE  rest[a] < rest[b]
  <2>1. r + a < r + b
    BY <1>0, <1>2, <1>8
  <2> QED BY <1>5, <2>1 DEF Increasing
<1>9. ASSUME NEW a \in 1 .. Len(p), NEW b \in 1 .. Len(rest)
      PROVE  p[a] < rest[b]
  <2>1. CASE a \in 1 .. Len(s) /\ p[a] = s[a]
    BY <1>5, <2>1 DEF Before
  <2>2. CASE a - Len(s) \in 1 .. r /\ p[a] = q[a - Len(s)]
    <3>1. a - Len(s) < r + b
      BY <1>0, <1>2, <2>2
    <3> QED BY <1>5, <1>6, <2>2, <3>1 DEF Increasing
  <2> QED BY <1>4, <2>1, <2>2
<1>10. Bytes(p) \cup Bytes(rest) = Bytes(s) \cup Bytes(q)
  <2>1. Bytes(p) \subseteq Bytes(s) \cup Bytes(q)
    BY <1>4, <1>6 DEF Bytes
  <2>2. Bytes(rest) \subseteq Bytes(q)
    BY <1>5 DEF Bytes
  <2>3. Bytes(s) \subseteq Bytes(p)
    <3>1. ASSUME NEW j \in 1 .. Len(s) PROVE j \in 1 .. Len(p) /\ p[j] = s[j]
      BY <1>0, <1>3
    <3> QED BY <3>1 DEF Bytes
  <2>4. Bytes(q) \subseteq Bytes(p) \cup Bytes(rest)
    <3>1. ASSUME NEW j \in 1 .. r
          PROVE  \E l \in 1 .. Len(p) : p[l] = q[j]
      <4>1. Len(s) + j \in 1 .. Len(p) /\ (Len(s) + j) - Len(s) = j /\ ~(Len(s) + j <= Len(s))
        BY <1>0, <1>3
      <4>2. p[Len(s) + j] = q[j]
        BY <1>1, <1>3, <4>1
      <4> QED BY <4>1, <4>2
    <3>2. \A j \in 1 .. Len(q) : j \in 1 .. r \/ j \in r + 1 .. Len(q)
      BY <1>0
    <3>3. {q[j] : j \in 1 .. r} \subseteq Bytes(p)
      BY <3>1 DEF Bytes
    <3>4. Bytes(q) \subseteq {q[j] : j \in 1 .. r} \cup {q[j] : j \in r + 1 .. Len(q)}
      BY <3>2 DEF Bytes
    <3> QED BY <1>2, <3>3, <3>4
  <2> QED BY <2>1, <2>2, <2>3, <2>4
<1> QED BY <1>2, <1>3, <1>7, <1>8, <1>9, <1>10 DEF Regrouped, Increasing, Before

\* tuxctl_ldisc_get moves bytes from the ring to packet.
LEMMA GetOK == IInv /\ tuxctl_ldisc_get => IInv'
<1> SUFFICES ASSUME IInv, tuxctl_ldisc_get PROVE IInv'
  OBVIOUS
<1> DEFINE want == PacketSize - Len(saved)
           r == IF want <= Len(rx) THEN want ELSE Len(rx)
<1>0. /\ pc = "get" /\ pc' = "parse" /\ i' = 0
      /\ packet' = saved \o SubSeq(rx, 1, r)
      /\ rx' = SubSeq(rx, r + 1, Len(rx))
      /\ UNCHANGED <<opened, saved, handled, sent, gone, closes, excess>>
  BY DEF tuxctl_ldisc_get, Get
<1>1. /\ rx \in Seq(Nat) /\ Len(rx) \in Nat
      /\ saved \in Seq(Nat) /\ Len(saved) \in Nat /\ Len(saved) <= 2
      /\ packet = << >> /\ i = 0
  <2>1. /\ rx \in Seq(Nat) /\ saved \in Seq(Nat) /\ Len(saved) <= 2
        /\ packet = << >> /\ i = 0
    BY <1>0 DEF IInv, Locals, TypeOK
  <2>2. Len(rx) \in Nat /\ Len(saved) \in Nat
    BY <2>1, LenProperties
  <2> QED BY <2>1, <2>2
<1>2. /\ r \in 0 .. Len(rx) /\ Len(saved) + r <= PacketSize
      /\ r = Len(rx) \/ r >= PacketSize - 2
  <2>1. want \in Nat /\ want >= PacketSize - 2 /\ Len(saved) + want = PacketSize
    BY <1>1
  <2> HIDE DEF want
  <2> QED BY <1>1, <2>1
<1> HIDE DEF r
<1>3. /\ packet' \in Seq(Nat) /\ Len(packet') = Len(saved) + r
      /\ rx' \in Seq(Nat) /\ Len(rx') = Len(rx) - r
      /\ Bytes(packet') \cup Bytes(rx') = Bytes(saved) \cup Bytes(rx)
      /\ Increasing(packet') /\ Increasing(rx') /\ Before(packet', rx')
  <2>1. Increasing(saved) /\ Increasing(rx) /\ Before(saved, rx)
    BY <1>0 DEF IInv, Ordered
  <2>2. Regrouped(packet', rx', saved, rx, r)
    BY <1>0, <1>1, <1>2, <2>1, Taken
  <2> QED BY <2>2 DEF Regrouped
<1>4. Locals'
  <2>1. opened' \in BOOLEAN /\ opened'
    BY <1>0 DEF IInv, Locals, TypeOK
  <2>2. Len(rx') < TUXCTL_BUFSIZE /\ Len(packet') <= PacketSize /\ Len(packet') \in Nat
    BY <1>1, <1>2, <1>3 DEF IInv, Locals, TypeOK
  <2>3. /\ handled' \in Seq(Seq(Nat)) /\ saved' \in Seq(Nat)
        /\ {sent', closes', excess'} \subseteq Nat /\ gone' \in SUBSET Nat
    BY <1>0 DEF IInv, Locals, TypeOK
  <2>4. TypeOK'
    BY <1>0, <1>3, <2>1, <2>2, <2>3 DEF TypeOK
  <2>5. Len(saved') <= 2 /\ i' <= Len(packet') /\ Len(packet') <= PacketSize
    <3>1. Len(saved') <= 2
      BY <1>0, <1>1
    <3>2. i' <= Len(packet')
      <4>1. 0 <= Len(packet')
        BY <1>1, <1>2, <1>3
      <4>2. i' = 0
        BY <1>0
      <4> QED BY ONLY <4>1, <4>2
    <3> QED BY <2>2, <3>1, <3>2
  <2>6. pc' = "parse"
    BY <1>0
  <2> QED BY <2>1, <2>4, <2>5, <2>6, Zenon DEF Locals
<1>5. Unread' = Unread
  <2>1. Unread = Bytes(saved) \cup Bytes(rx)
    <3>1. i + 1 .. Len(packet) = {}
      BY <1>1, EmptyNat
    <3> QED BY <1>0, <3>1 DEF Unread, Held, Bytes
  <2>2. Unread' = Bytes(packet') \cup Bytes(rx')
    BY <1>0 DEF Unread, Held, Bytes
  <2> QED BY <1>3, <2>1, <2>2
<1>6. /\ HandledOld' /\ HandledInOrder' /\ NoHoles' /\ Looked' /\ NoSplice'
      /\ \A k \in Unread' \cup gone' : k < sent'
  <2>1. handled' = handled /\ gone' = gone /\ sent' = sent
    BY <1>0
  <2> QED BY <1>5, <2>1, SentNat, Moved
<1>7. Ordered'
  BY <1>0, <1>3, <1>6 DEF IInv, Ordered
<1>8. Backlog'
  BY <1>0, <1>1, <1>2, <1>3 DEF IInv, Backlog, Locals, TypeOK
<1> QED BY <1>4, <1>6, <1>7, <1>8 DEF IInv

\* The end of the callback moves the leftovers of packet to saved.
LEMMA SaveOK == IInv /\ SaveLeftovers => IInv'
<1> SUFFICES ASSUME IInv, SaveLeftovers PROVE IInv'
  OBVIOUS
<1>0. /\ pc = "parse" /\ pc' = "idle" /\ i >= Len(packet) - 2
      /\ saved' = SubSeq(packet, i + 1, Len(packet))
      /\ packet' = << >> /\ i' = 0
      /\ UNCHANGED <<opened, rx, handled, sent, gone, closes, excess>>
  BY DEF SaveLeftovers
<1>1. /\ rx \in Seq(Nat) /\ packet \in Seq(Nat) /\ i \in 0 .. Len(packet)
      /\ Len(packet) \in Nat
  <2>1. rx \in Seq(Nat) /\ packet \in Seq(Nat) /\ i \in Nat /\ i <= Len(packet)
    BY DEF IInv, Locals, TypeOK
  <2>2. Len(packet) \in Nat
    BY <2>1, LenProperties
  <2> QED BY <2>1, <2>2
<1>2. /\ saved' \in Seq(Nat) /\ Len(saved') = Len(packet) - i
      /\ \A j \in 1 .. Len(packet) - i : saved'[j] = packet[i + j]
      /\ Bytes(saved') = {packet[j] : j \in i + 1 .. Len(packet)}
  BY <1>0, <1>1, CutBack
<1>3. Locals'
  <2>1. Len(saved') <= 2
    BY <1>0, <1>1, <1>2
  <2>2. TypeOK'
    <3>1. opened' \in BOOLEAN /\ rx' \in Seq(Nat) /\ Len(rx') < TUXCTL_BUFSIZE
      BY <1>0 DEF IInv, Locals, TypeOK
    <3>2. /\ handled' \in Seq(Seq(Nat))
          /\ {sent', closes', excess'} \subseteq Nat /\ gone' \in SUBSET Nat
      BY <1>0 DEF IInv, Locals, TypeOK
    <3> QED BY <1>0, <1>2, <3>1, <3>2, EmptyNat DEF TypeOK
  <2>3. opened'
    BY <1>0 DEF IInv, Locals
  <2>4. i' <= Len(packet') /\ Len(packet') <= PacketSize
    BY <1>0, EmptyNat
  <2>5. packet' = << >> /\ i' = 0
    BY <1>0
  <2> QED BY <2>1, <2>2, <2>3, <2>4, <2>5, Zenon DEF Locals
<1>4. Unread' = Unread
  <2>1. Unread = {packet[j] : j \in i + 1 .. Len(packet)} \cup Bytes(rx)
    BY <1>0 DEF Unread, Held, Bytes
  <2>2. Unread' = Bytes(saved') \cup Bytes(rx')
    <3>1. i' + 1 .. Len(packet') = {}
      BY <1>0, EmptyNat
    <3> QED BY <1>0, <3>1 DEF Unread, Held, Bytes
  <2> QED BY <1>0, <1>2, <2>1, <2>2
<1>5. /\ HandledOld' /\ HandledInOrder' /\ NoHoles' /\ Looked' /\ NoSplice'
      /\ \A k \in Unread' \cup gone' : k < sent'
  <2>1. handled' = handled /\ gone' = gone /\ sent' = sent
    BY <1>0
  <2> QED BY <1>4, <2>1, SentNat, Moved
<1>6. Ordered'
  <2>1. Increasing(packet) /\ Increasing(rx) /\ Before(packet, rx)
    BY DEF IInv, Ordered
  <2>2. Increasing(saved') /\ Before(saved', rx)
    BY <1>0, <1>1, <2>1, CutOrder
  <2>3. Increasing(packet') /\ Before(packet', rx') /\ Increasing(rx')
    BY <1>0, <2>1, EmptyNat DEF Increasing, Before
  <2> QED BY <1>0, <1>5, <2>2, <2>3 DEF Ordered
<1>7. Backlog'
  BY <1>0 DEF IInv, Backlog
<1> QED BY <1>3, <1>5, <1>6, <1>7 DEF IInv

-----------------------------------------------------------------------------
(* One iteration of the callback's loop. *)

\* The bytes unread when the index is d.
Rest(d) == {packet[j] : j \in d + 1 .. Len(packet)} \cup Bytes(rx)

\* Stepping over one byte of packet: the oldest of the unread bytes.
LEMMA OneByte ==
  ASSUME Locals, Ordered, NEW d \in Nat, d < Len(packet)
  PROVE  /\ packet[d + 1] \in Nat
         /\ Rest(d) = {packet[d + 1]} \cup Rest(d + 1)
         /\ \A k \in Rest(d + 1) : packet[d + 1] < k
<1>1. packet \in Seq(Nat) /\ Len(packet) \in Nat /\ rx \in Seq(Nat)
  <2>1. packet \in Seq(Nat) /\ rx \in Seq(Nat)
    BY DEF Locals, TypeOK
  <2> QED BY <2>1, LenProperties
<1>2. d + 1 \in 1 .. Len(packet)
  BY <1>1
<1>3. packet[d + 1] \in Nat
  BY <1>1, <1>2, ElementOfSeq
<1>4. d + 1 .. Len(packet) = {d + 1} \cup (d + 2 .. Len(packet))
  BY <1>1
<1>5. Rest(d) = {packet[d + 1]} \cup Rest(d + 1)
  <2>1. {packet[j] : j \in d + 1 .. Len(packet)}
          = {packet[d + 1]} \cup {packet[j] : j \in d + 2 .. Len(packet)}
    BY <1>4
  <2>2. (d + 1) + 1 = d + 2
    OBVIOUS
  <2> QED BY <2>1, <2>2 DEF Rest
<1>6. ASSUME NEW j \in (d + 1) + 1 .. Len(packet) PROVE packet[d + 1] < packet[j]
  <2>1. j \in 1 .. Len(packet) /\ d + 1 < j
    BY <1>1
  <2> QED BY <1>2, <2>1 DEF Ordered, Increasing
<1>7. \A k \in Bytes(rx) : packet[d + 1] < k
  BY <1>2 DEF Ordered, Before, Bytes
<1> QED BY <1>3, <1>5, <1>6, <1>7 DEF Rest

\* Where a ParseStep happens: the three bytes it looks at are the oldest.
LEMMA ThreeBytes ==
  ASSUME IInv, pc = "parse", i < Len(packet) - 2
  PROVE  LET a == packet[i + 1]
             b == packet[i + 2]
             c == packet[i + 3]
         IN  /\ a \in Nat /\ b \in Nat /\ c \in Nat
             /\ a < b /\ b < c /\ c < sent
             /\ Unread = {a} \cup Rest(i + 1)
             /\ Unread = {a, b, c} \cup Rest(i + 3)
             /\ \A k \in Rest(i + 1) : a < k
             /\ \A k \in Rest(i + 3) : c < k
             /\ \A k \in a .. sent - 1 : k \in Unread \cup gone
<1> DEFINE a == packet[i + 1]
           b == packet[i + 2]
           c == packet[i + 3]
<1>1. packet \in Seq(Nat) /\ i \in Nat /\ Len(packet) \in Nat
  <2>1. packet \in Seq(Nat) /\ i \in Nat
    BY DEF IInv, Locals, TypeOK
  <2> QED BY <2>1, LenProperties
<1>2. /\ i + 1 \in Nat /\ i + 2 \in Nat
      /\ i < Len(packet) /\ i + 1 < Len(packet) /\ i + 2 < Len(packet)
      /\ (i + 1) + 1 = i + 2 /\ (i + 2) + 1 = i + 3
  BY <1>1
<1>3. a \in Nat /\ Rest(i) = {a} \cup Rest(i + 1) /\ \A k \in Rest(i + 1) : a < k
  BY <1>1, <1>2, OneByte DEF IInv
<1>4. b \in Nat /\ Rest(i + 1) = {b} \cup Rest(i + 2) /\ \A k \in Rest(i + 2) : b < k
  BY <1>2, OneByte DEF IInv
<1>5. c \in Nat /\ Rest(i + 2) = {c} \cup Rest(i + 3) /\ \A k \in Rest(i + 3) : c < k
  BY <1>2, OneByte DEF IInv
<1>6. Unread = Rest(i)
  BY DEF Unread, Held, Rest, Bytes
<1> HIDE DEF a, b, c
<1>7. a \in Unread /\ c \in Unread /\ a < b /\ b < c
  BY <1>3, <1>4, <1>5, <1>6
<1>8. c < sent
  BY <1>7 DEF IInv, Ordered
<1>9. \A k \in a .. sent - 1 : k \in Unread \cup gone
  BY <1>7 DEF IInv, NoHoles
<1>10. Unread = {a, b, c} \cup Rest(i + 3)
  BY <1>3, <1>4, <1>5, <1>6
<1> QED BY <1>3, <1>4, <1>5, <1>6, <1>7, <1>8, <1>9, <1>10 DEF a, b, c

\* Framing of the three bytes of a packet.
LEMMA Mod3 ==
  ASSUME NEW x \in Nat
  PROVE  (3 * x) % 3 = 0 /\ (3 * x + 1) % 3 = 1 /\ (3 * x + 2) % 3 = 2
  OBVIOUS

\* If the two bytes after the oldest one were not lost, they are next.
LEMMA Adjacent ==
  ASSUME NEW U, NEW R, NEW g, NEW top \in Nat,
         NEW a \in Nat, NEW b \in Nat, NEW c \in Nat, a < b, b < c, c < top,
         U = {a, b, c} \cup R, \A k \in R : c < k,
         \A k \in a .. top - 1 : k \in U \cup g,
         a + 1 \notin g, a + 2 \notin g
  PROVE  b = a + 1 /\ c = a + 2
<1>1. a + 1 \in a .. top - 1 /\ a + 2 \in a .. top - 1
  OBVIOUS
<1>2. a + 1 \in {a, b, c} \cup R /\ a + 2 \in {a, b, c} \cup R
  BY <1>1
<1>3. a + 1 \notin R /\ a + 2 \notin R
  OBVIOUS
<1> QED BY <1>2, <1>3

\* What both branches of a ParseStep share.
LEMMA Shrunk ==
  ASSUME IInv, NEW d \in Nat, pc = "parse", i + d <= Len(packet), i' = i + d,
         UNCHANGED <<opened, rx, saved, pc, packet, sent, gone, closes, excess>>,
         handled' \in Seq(Seq(Nat)),
         NEW D, Unread = D \cup Rest(i + d),
         \A x \in D : \A k \in Rest(i + d) : x < k
  PROVE  Locals' /\ Ordered' /\ NoHoles' /\ Backlog' /\ Unread' = Rest(i + d)
<1>1. Unread' = Rest(i + d)
  BY DEF Unread, Held, Rest, Bytes
<1>2. Locals'
  <2>1. i \in Nat /\ i' \in Nat
    BY DEF IInv, Locals, TypeOK
  <2>2. opened' \in BOOLEAN /\ opened'
    BY DEF IInv, Locals, TypeOK
  <2>3. TypeOK'
    BY <2>1, <2>2 DEF IInv, Locals, TypeOK
  <2>4. Len(saved') <= 2 /\ i' <= Len(packet') /\ Len(packet') <= PacketSize
    <3>1. i' <= Len(packet')
      OBVIOUS
    <3>2. Len(saved') <= 2 /\ Len(packet') <= PacketSize
      BY DEF IInv, Locals
    <3> QED BY <3>1, <3>2
  <2>5. pc' = "parse"
    OBVIOUS
  <2> QED BY <2>2, <2>3, <2>4, <2>5, Zenon DEF Locals
<1>3. Ordered'
  BY <1>1 DEF IInv, Ordered, Increasing, Before
<1>4. NoHoles'
  <2> SUFFICES ASSUME NEW p \in Rest(i + d), NEW k \in p .. sent - 1
               PROVE  k \in Rest(i + d) \cup gone
    BY <1>1 DEF NoHoles
  <2>1. k \in Unread \cup gone
    BY DEF IInv, NoHoles
  <2>2. p \in Nat
    BY UnreadNat DEF IInv
  <2>3. k \notin D
    <3>1. k \in Int /\ p <= k
      BY <2>2, SentNat
    <3> QED BY <2>2, <3>1
  <2> QED BY <2>1, <2>3
<1>5. Backlog'
  BY DEF IInv, Backlog
<1> QED BY <1>1, <1>2, <1>3, <1>4, <1>5

\* No packet starts at the index: nothing intact is passed over.
LEMMA SkipOK ==
  ASSUME IInv, ParseStep, ~PacketAt(i) PROVE IInv'
<1> DEFINE a == packet[i + 1]
           b == packet[i + 2]
           c == packet[i + 3]
<1>0. /\ pc = "parse" /\ i < Len(packet) - 2 /\ handled' = handled /\ i' = i + 1
      /\ UNCHANGED <<opened, rx, saved, pc, packet, sent, gone, closes, excess>>
  BY DEF ParseStep
<1>1. /\ i \in Nat /\ Len(packet) \in Nat /\ sent \in Nat
      /\ handled \in Seq(Seq(Nat))
  BY LenProperties DEF IInv, Locals, TypeOK
<1>2. /\ a \in Nat /\ b \in Nat /\ c \in Nat
      /\ a < b /\ b < c /\ c < sent
      /\ Unread = {a} \cup Rest(i + 1)
      /\ Unread = {a, b, c} \cup Rest(i + 3)
      /\ \A k \in Rest(i + 1) : a < k
      /\ \A k \in Rest(i + 3) : c < k
      /\ \A k \in a .. sent - 1 : k \in Unread \cup gone
  BY <1>0, ThreeBytes
<1>3. ~(a % 3 = 0 /\ b % 3 # 0 /\ c % 3 # 0)
  BY DEF PacketAt, Framing
<1> HIDE DEF a, b, c
<1>4. Locals' /\ Ordered' /\ NoHoles' /\ Backlog' /\ Unread' = Rest(i + 1)
  <2>1. i + 1 <= Len(packet) /\ \A x \in {a} : \A k \in Rest(i + 1) : x < k
    BY <1>0, <1>1, <1>2
  <2> QED BY <1>0, <1>1, <1>2, <2>1, Shrunk
<1>5. HandledOld'
  <2>1. Unread' \subseteq Unread
    BY <1>2, <1>4
  <2> QED BY <1>0, <2>1 DEF IInv, HandledOld
<1>6. HandledInOrder' /\ NoSplice'
  BY <1>0 DEF IInv, HandledInOrder, NoSplice
<1>7. Looked'
  <2> SUFFICES ASSUME NEW x \in Nat, 3 * x < sent, 3 * x \notin Rest(i + 1),
                      3 * x \notin gone, 3 * x + 1 \notin gone,
                      3 * x + 2 \notin gone
               PROVE  \E m \in 1 .. Len(handled) :
                         handled[m] = <<3 * x, 3 * x + 1, 3 * x + 2>>
    BY <1>0, <1>4 DEF Looked
  <2>1. CASE 3 * x \notin Unread
    BY <2>1 DEF IInv, Looked
  <2>2. CASE 3 * x \in Unread
    <3>1. a = 3 * x
      BY <1>2, <2>2
    <3>2. b = a + 1 /\ c = a + 2
      BY <1>1, <1>2, <3>1, Adjacent
    <3> QED BY <1>3, <3>1, <3>2, Mod3
  <2> QED BY <2>1, <2>2
<1> QED BY <1>4, <1>5, <1>6, <1>7 DEF IInv

\* Three bytes of packet, as a packet of their own.
LEMMA Cut3 ==
  ASSUME NEW s \in Seq(Nat), NEW n \in Nat, n < Len(s) - 2
  PROVE  LET h == SubSeq(s, n + 1, n + 3)
         IN  /\ h \in Seq(Nat) /\ Len(h) = 3
             /\ h[1] = s[n + 1] /\ h[2] = s[n + 2] /\ h[3] = s[n + 3]
             /\ h = <<s[n + 1], s[n + 2], s[n + 3]>>
             /\ ToSet(h) = {s[n + 1], s[n + 2], s[n + 3]}
<1> DEFINE h == SubSeq(s, n + 1, n + 3)
<1>1. Len(s) \in Nat /\ \A j \in n + 1 .. n + 3 : s[j] \in Nat
  <2>1. Len(s) \in Nat
    BY LenProperties
  <2>2. \A j \in n + 1 .. n + 3 : j \in 1 .. Len(s)
    BY <2>1
  <2> QED BY <2>1, <2>2, ElementOfSeq
<1>2. /\ h \in Seq(Nat) /\ Len(h) = 3
      /\ \A j \in 1 .. 3 : h[j] = s[n + j]
  BY <1>1, SubSeqProperties
<1> HIDE DEF h
<1>3. h[1] = s[n + 1] /\ h[2] = s[n + 2] /\ h[3] = s[n + 3]
  BY <1>2
<1>4. h = <<s[n + 1], s[n + 2], s[n + 3]>>
  BY <1>1, <1>2, <1>3, LenProperties
<1>5. ToSet(h) = {h[1], h[2], h[3]}
  <2>1. DOMAIN h = {1, 2, 3}
    BY <1>2, LenProperties
  <2> QED BY <2>1 DEF ToSet
<1> QED BY <1>2, <1>3, <1>4, <1>5 DEF h

\* Two numbers missing between the bytes make two missing numbers.
LEMMA TwoMissing ==
  ASSUME NEW a \in Nat, NEW b \in Nat, NEW c \in Nat, a < b, b < c,
         a % 3 = 0, b % 3 # 0, c % 3 # 0, (a .. c) \ {a, b, c} # {}
  PROVE  Cardinality((a .. c) \ {a, b, c}) >= 2
<1> DEFINE M == (a .. c) \ {a, b, c}
<1>1. c # a + 3
  OBVIOUS
<1>2. c # a + 2
  BY SMT
<1>3. c >= a + 4
  BY <1>1, <1>2
<1>4. PICK x, y \in M : x # y
  <2>1. CASE b = a + 1
    <3>1. a + 2 \in M /\ a + 3 \in M /\ a + 2 # a + 3
      BY <1>3, <2>1
    <3> HIDE DEF M
    <3> QED BY <3>1
  <2>2. CASE b = a + 2
    <3>1. a + 1 \in M /\ a + 3 \in M /\ a + 1 # a + 3
      BY <1>3, <2>2
    <3> HIDE DEF M
    <3> QED BY <3>1
  <2>3. CASE b > a + 2
    <3>1. a + 1 \in M /\ a + 2 \in M /\ a + 1 # a + 2
      BY <1>3, <2>3
    <3> HIDE DEF M
    <3> QED BY <3>1
  <2>4. b = a + 1 \/ b = a + 2 \/ b > a + 2
    OBVIOUS
  <2> QED BY <2>1, <2>2, <2>3, <2>4
<1>5. IsFiniteSet(M)
  <2>1. a \in Int /\ c \in Int
    OBVIOUS
  <2>2. IsFiniteSet(a .. c)
    BY <2>1, FS_Interval
  <2>3. M \in SUBSET (a .. c)
    OBVIOUS
  <2> QED BY <2>2, <2>3, FS_Subset
<1> HIDE DEF M
<1>6. IsFiniteSet({x, y}) /\ Cardinality({x, y}) = 2
  <2>1. IsFiniteSet({x}) /\ Cardinality({x}) = 1
    BY FS_Singleton
  <2>2. {x} \cup {y} = {x, y}
    OBVIOUS
  <2> QED BY <1>4, <2>1, <2>2, FS_AddElement
<1>7. Cardinality({x, y}) <= Cardinality(M) /\ Cardinality(M) \in Nat
  BY <1>4, <1>5, FS_Subset, FS_CardinalityType
<1> QED BY <1>6, <1>7 DEF M

\* A packet starts at the index: it is handled.
LEMMA HandleOK ==
  ASSUME IInv, ParseStep, PacketAt(i) PROVE IInv'
<1> DEFINE a == packet[i + 1]
           b == packet[i + 2]
           c == packet[i + 3]
           h == SubSeq(packet, i + 1, i + 3)
<1>0. /\ pc = "parse" /\ i < Len(packet) - 2
      /\ handled' = Append(handled, h) /\ i' = i + 3
      /\ UNCHANGED <<opened, rx, saved, pc, packet, sent, gone, closes, excess>>
  BY DEF ParseStep
<1>1. /\ i \in Nat /\ Len(packet) \in Nat /\ sent \in Nat
      /\ handled \in Seq(Seq(Nat)) /\ packet \in Seq(Nat) /\ Len(handled) \in Nat
  BY LenProperties DEF IInv, Locals, TypeOK
<1>2. /\ a \in Nat /\ b \in Nat /\ c \in Nat
      /\ a < b /\ b < c /\ c < sent
      /\ Unread = {a, b, c} \cup Rest(i + 3)
      /\ \A k \in Rest(i + 3) : c < k
      /\ \A k \in a .. sent - 1 : k \in Unread \cup gone
  BY <1>0, ThreeBytes
<1>3. a % 3 = 0 /\ b % 3 # 0 /\ c % 3 # 0
  BY DEF PacketAt, Framing
<1>4. /\ h \in Seq(Nat) /\ Len(h) = 3 /\ h[1] = a /\ h[2] = b /\ h[3] = c
      /\ h = <<a, b, c>> /\ ToSet(h) = {a, b, c}
  BY <1>0, <1>1, Cut3
<1> HIDE DEF a, b, c, h
<1>5. /\ handled' \in Seq(Seq(Nat)) /\ Len(handled') = Len(handled) + 1
      /\ \A m \in 1 .. Len(handled) : handled'[m] = handled[m]
      /\ handled'[Len(handled) + 1] = h
  BY <1>0, <1>1, <1>4, AppendProperties
<1>6. Locals' /\ Ordered' /\ NoHoles' /\ Backlog' /\ Unread' = Rest(i + 3)
  <2>1. i + 3 <= Len(packet)
    BY <1>0, <1>1
  <2>2. \A x \in {a, b, c} : \A k \in Rest(i + 3) : x < k
    <3>1. \A k \in Rest(i + 3) : k \in Nat
      BY <1>2, UnreadNat DEF IInv
    <3> QED BY <1>2, <3>1
  <2>3. PICK D : D = {a, b, c}
    OBVIOUS
  <2>4. Unread = D \cup Rest(i + 3) /\ \A x \in D : \A k \in Rest(i + 3) : x < k
    BY <1>2, <2>2, <2>3
  <2> QED BY <1>0, <1>1, <1>5, <2>1, <2>4, Shrunk
<1>7. \A m \in 1 .. Len(handled) + 1 : m \in 1 .. Len(handled) \/ m = Len(handled) + 1
  BY <1>1
<1>8. HandledOld'
  <2>1. Unread' \subseteq Unread
    BY <1>2, <1>6
  <2>2. \A k \in Unread' : c < k
    BY <1>2, <1>6
  <2> QED BY <1>0, <1>2, <1>4, <1>5, <1>7, <2>1, <2>2 DEF IInv, HandledOld
<1>9. HandledInOrder'
  <2>1. \A m \in 1 .. Len(handled) : \A j, k \in 1 .. 3 : handled[m][j] < h[k]
    <3> SUFFICES ASSUME NEW m \in 1 .. Len(handled), NEW j \in 1 .. 3, NEW k \in 1 .. 3
                 PROVE  handled[m][j] < h[k]
      OBVIOUS
    <3>1. /\ handled[m][1] \in Nat /\ handled[m][2] \in Nat /\ handled[m][3] \in Nat
      BY HandledNat DEF IInv
    <3>2. /\ handled[m][1] < handled[m][2] /\ handled[m][2] < handled[m][3]
          /\ handled[m][3] < a
      BY <1>2 DEF IInv, HandledOld
    <3>3. handled[m][j] \in Nat /\ handled[m][j] < a
      <4>1. j = 1 \/ j = 2 \/ j = 3
        OBVIOUS
      <4> QED BY <1>2, <3>1, <3>2, <4>1
    <3>4. h[k] \in Nat /\ a <= h[k]
      BY <1>2, <1>4
    <3> QED BY <1>2, <3>3, <3>4
  <2>2. ASSUME NEW m \in 1 .. Len(handled) + 1, NEW n \in 1 .. Len(handled) + 1, m < n,
               NEW j \in 1 .. 3, NEW k \in 1 .. 3
        PROVE  handled'[m][j] < handled'[n][k]
    <3>1. m \in 1 .. Len(handled)
      BY <1>1, <2>2
    <3>2. CASE n \in 1 .. Len(handled)
      BY <1>5, <2>2, <3>1, <3>2 DEF IInv, HandledInOrder
    <3>3. CASE n = Len(handled) + 1
      BY <1>5, <2>1, <3>1, <3>3
    <3> QED BY <1>7, <3>2, <3>3
  <2> QED BY <1>5, <2>2 DEF HandledInOrder
<1>10. Looked'
  <2> SUFFICES ASSUME NEW x \in Nat, 3 * x < sent, 3 * x \notin Rest(i + 3),
                      3 * x \notin gone, 3 * x + 1 \notin gone,
                      3 * x + 2 \notin gone
               PROVE  \E m \in 1 .. Len(handled) + 1 :
                         handled'[m] = <<3 * x, 3 * x + 1, 3 * x + 2>>
    BY <1>0, <1>5, <1>6 DEF Looked
  <2>1. CASE 3 * x \notin Unread
    <3>1. PICK m \in 1 .. Len(handled) : handled[m] = <<3 * x, 3 * x + 1, 3 * x + 2>>
      BY <2>1 DEF IInv, Looked
    <3>2. m \in 1 .. Len(handled) + 1
      BY <1>1
    <3> QED BY <1>5, <3>1, <3>2
  <2>2. CASE 3 * x \in Unread
    <3>1. a = 3 * x
      BY <1>2, <1>3, <2>2, Mod3
    <3>2. b = 3 * x + 1 /\ c = 3 * x + 2
      BY <1>1, <1>2, <3>1, Adjacent
    <3>3. Len(handled) + 1 \in 1 .. Len(handled) + 1
      BY <1>1
    <3> QED BY <1>4, <1>5, <3>1, <3>2, <3>3
  <2> QED BY <2>1, <2>2
<1>11. NoSplice'
  <2>1. (a .. c) \ {a, b, c} \subseteq gone
    <3> SUFFICES ASSUME NEW k \in a .. c, k \notin {a, b, c} PROVE k \in gone
      OBVIOUS
    <3>1. k \in a .. sent - 1
      BY <1>1, <1>2
    <3>2. k \notin Rest(i + 3)
      BY <1>1, <1>2
    <3> QED BY <1>2, <3>1, <3>2
  <2>2. (a .. c) \ {a, b, c} # {} => Cardinality((a .. c) \ {a, b, c}) >= 2
    BY <1>2, <1>3, TwoMissing
  <2>3. ASSUME NEW m \in 1 .. Len(handled) + 1
        PROVE  LET missing == (handled'[m][1] .. handled'[m][3]) \ ToSet(handled'[m])
               IN  missing # {} => missing \subseteq gone /\ Cardinality(missing) >= 2
    <3>1. CASE m \in 1 .. Len(handled)
      BY <1>5, <3>1 DEF IInv, NoSplice
    <3>2. CASE m = Len(handled) + 1
      BY <1>4, <1>5, <2>1, <2>2, <3>2
    <3> QED BY <1>7, <3>1, <3>2
  <2> QED BY <1>0, <1>5, <2>3 DEF NoSplice
<1> QED BY <1>6, <1>8, <1>9, <1>10, <1>11 DEF IInv

\* Every step preserves the invariant.
LEMMA NextOK == IInv /\ [Next]_vars => IInv'
<1> SUFFICES ASSUME IInv, [Next]_vars PROVE IInv'
  OBVIOUS
<1>1. CASE tuxctl_ldisc_open
  BY <1>1, OpenOK
<1>2. CASE tuxctl_ldisc_close
  BY <1>2, CloseOK
<1>3. CASE \E count \in 1 .. MaxChunk : tuxctl_ldisc_rcv_buf(count)
  BY <1>3, RcvOK
<1>4. CASE \E count \in 1 .. MaxGap : LineLoss(count)
  BY <1>4, LossOK
<1>5. CASE tuxctl_ldisc_data_callback
  BY <1>5, GetOK, SkipOK, HandleOK, SaveOK DEF tuxctl_ldisc_data_callback
<1>6. CASE UNCHANGED vars
  <2>1. UNCHANGED <<opened, rx, pc, saved, packet, i, handled, sent, gone, closes, excess>>
    BY <1>6 DEF vars, local
  <2>2. Unread' = Unread
    BY ONLY <2>1 DEF Unread, Held
  <2>3. Locals' /\ Backlog'
    BY <2>1 DEF IInv, Locals, TypeOK, Backlog
  <2>4. /\ HandledOld' /\ HandledInOrder' /\ NoHoles' /\ Looked' /\ NoSplice'
        /\ \A k \in Unread' \cup gone' : k < sent'
    BY <2>1, <2>2, SentNat, Moved
  <2>5. Ordered'
    BY <2>1, <2>2 DEF IInv, Ordered, Increasing, Before
  <2> QED BY <2>3, <2>4, <2>5 DEF IInv
<1> QED BY <1>1, <1>2, <1>3, <1>4, <1>5, <1>6 DEF Next

\* The invariant always holds.
LEMMA Inductive == Spec => []IInv
  BY InitOK, NextOK, PTL DEF Spec

-----------------------------------------------------------------------------
\* Type correctness, and tuxctl_ldisc_data_callback stays inside its arrays
\* packet and saved, whatever arrives.
THEOREM ArraysFitAlways == Spec => []ArraysFit
<1>1. IInv => ArraysFit
  BY DEF IInv, Locals, ArraysFit
<1> QED BY <1>1, Inductive, PTL

\* tuxctl_handle_packet sees packets in the order the controller sent them,
\* and no byte twice.
THEOREM PacketsInOrder == Spec => []HandledInOrder
<1>1. IInv => HandledInOrder
  BY DEF IInv
<1> QED BY <1>1, Inductive, PTL

\* A packet that tuxctl_handle_packet sees is one that was sent, or was put
\* together over at least two lost bytes.
THEOREM SplicesBounded == Spec => []NoSplice
<1>1. IInv => NoSplice
  BY DEF IInv
<1> QED BY <1>1, Inductive, PTL

\* Between two calls the ring holds no more than too large chunks left.
THEOREM BacklogBounded == Spec => []NoBacklog
<1>1. IInv => NoBacklog
  BY DEF IInv, Backlog, NoBacklog
<1> QED BY <1>1, Inductive, PTL

\* Every packet that arrives whole is handled: the callback resynchronises
\* at the first framing bit, whatever was lost around the packet.
THEOREM WholePacketsHandled == Spec => []IntactHandled
<1>1. IInv => IntactHandled
  <2> SUFFICES ASSUME IInv, NEW a \in 0 .. MaxBytes \div 3, 3 * a + 2 < sent,
                      (3 * a .. 3 * a + 2) \cap (gone \cup Pending) = {}
               PROVE  <<3 * a, 3 * a + 1, 3 * a + 2>> \in ToSet(handled)
    BY DEF IntactHandled
  <2>1. a \in Nat
    OBVIOUS
  <2>2. 3 * a < sent
    BY <2>1, SentNat
  <2>3. /\ 3 * a \in 3 * a .. 3 * a + 2
        /\ 3 * a + 1 \in 3 * a .. 3 * a + 2 /\ 3 * a + 2 \in 3 * a .. 3 * a + 2
    BY <2>1
  <2>4. /\ 3 * a \notin gone /\ 3 * a + 1 \notin gone /\ 3 * a + 2 \notin gone
        /\ 3 * a \notin Pending
    BY <2>3
  <2>5. Unread \subseteq Pending
    <3>1. /\ rx \in Seq(Nat) /\ saved \in Seq(Nat) /\ packet \in Seq(Nat)
          /\ i \in Nat /\ i <= Len(packet)
      BY DEF IInv, Locals, TypeOK
    <3>2. ToSet(rx) = Bytes(rx) /\ ToSet(saved) = Bytes(saved)
      BY <3>1, LenProperties DEF ToSet, Bytes
    <3>3. /\ SubSeq(packet, i + 1, Len(packet)) \in Seq(Nat)
          /\ Bytes(SubSeq(packet, i + 1, Len(packet)))
               = {packet[j] : j \in i + 1 .. Len(packet)}
      <4>1. i \in 0 .. Len(packet)
        BY <3>1, LenProperties
      <4> QED BY <3>1, <4>1, CutBack
    <3>4. ToSet(SubSeq(packet, i + 1, Len(packet)))
            = {packet[j] : j \in i + 1 .. Len(packet)}
      BY <3>3, LenProperties DEF ToSet, Bytes
    <3> QED BY <3>2, <3>4 DEF Unread, Held, Pending, Bytes
  <2>6. PICK m \in 1 .. Len(handled) : handled[m] = <<3 * a, 3 * a + 1, 3 * a + 2>>
    BY <2>1, <2>2, <2>4, <2>5 DEF IInv, Looked
  <2>7. m \in DOMAIN handled
    BY LenProperties DEF IInv, Locals, TypeOK
  <2> QED BY <2>6, <2>7 DEF ToSet
<1> QED BY <1>1, Inductive, PTL
=============================================================================
