---------------------------- MODULE TuxTxProofs -----------------------------
(***************************************************************************)
(* Proofs about TuxTx, for every ring size, every serial buffer size and   *)
(* any number of putting and waking contexts.                              *)
(***************************************************************************)
EXTENDS TuxTx, SequenceTheorems, FiniteSetTheorems, TLAPS

\* The remainder of a number below twice the modulus: what one wrap of a
\* ring index amounts to.
LEMMA ModOnce ==
  ASSUME NEW a \in Nat, NEW m \in Nat \ {0}, a < 2 * m
  PROVE  a % m = IF a < m THEN a ELSE a - m
<1>1. CASE a < m
  BY <1>1, SMT
<1>2. CASE ~(a < m)
  BY <1>2, SMT
<1> QED BY <1>1, <1>2

\* The ring macros without the modulus: buf_incidx wraps at the last slot,
\* and the k-th slot after start is start + k, wrapped at most once.
LEMMA RingArith ==
  ASSUME NEW i \in Index
  PROVE  /\ buf_incidx(i) = IF i = TUXCTL_BUFSIZE - 1 THEN 0 ELSE i + 1
         /\ buf_incidx(i) \in Index
         /\ \A k \in Index :
              Slot(i, k)
                = IF i + k < TUXCTL_BUFSIZE THEN i + k ELSE (i + k) - TUXCTL_BUFSIZE
<1>1. ASSUME NEW k \in Index
      PROVE  Slot(i, k)
               = IF i + k < TUXCTL_BUFSIZE THEN i + k ELSE (i + k) - TUXCTL_BUFSIZE
  <2> DEFINE a == i + k
  <2>1. /\ a \in Nat /\ TUXCTL_BUFSIZE \in Nat \ {0}
        /\ a < 2 * TUXCTL_BUFSIZE
    BY SizeAssumption DEF Index
  <2> HIDE DEF a
  <2>2. a % TUXCTL_BUFSIZE
          = IF a < TUXCTL_BUFSIZE THEN a ELSE a - TUXCTL_BUFSIZE
    BY <2>1, ModOnce
  <2>3. Slot(i, k) = a % TUXCTL_BUFSIZE
    BY Zenon DEF a, Slot
  <2> QED BY <2>2, <2>3, Zenon DEF a
<1>2. 1 \in Index
  BY SizeAssumption DEF Index
<1>3. buf_incidx(i) = IF i = TUXCTL_BUFSIZE - 1 THEN 0 ELSE i + 1
  <2>1. Slot(i, 1)
          = IF i + 1 < TUXCTL_BUFSIZE THEN i + 1 ELSE (i + 1) - TUXCTL_BUFSIZE
    BY <1>1, <1>2
  <2>2. buf_incidx(i) = Slot(i, 1)
    BY DEF buf_incidx, Slot
  <2> QED BY <2>1, <2>2, SizeAssumption DEF Index
<1>4. buf_incidx(i) \in Index
  BY <1>3, SizeAssumption DEF Index
<1> QED BY <1>1, <1>3, <1>4

\* A ring of TUXCTL_BUFSIZE slots holds between 0 and TUXCTL_BUFSIZE - 1
\* bytes; it is full exactly at the upper end and empty at the lower one.
LEMMA RingUsed ==
  ASSUME NEW s \in Index, NEW e \in Index
  PROVE  /\ buf_used(s, e) \in Index
         /\ buf_full(s, e) <=> buf_used(s, e) = TUXCTL_BUFSIZE - 1
         /\ buf_empty(s, e) <=> buf_used(s, e) = 0
         /\ ~buf_full(s, e) => buf_used(s, buf_incidx(e)) = buf_used(s, e) + 1
         /\ ~buf_empty(s, e) => buf_used(buf_incidx(s), e) = buf_used(s, e) - 1
<1>1. /\ buf_incidx(s) = IF s = TUXCTL_BUFSIZE - 1 THEN 0 ELSE s + 1
      /\ buf_incidx(e) = IF e = TUXCTL_BUFSIZE - 1 THEN 0 ELSE e + 1
  BY RingArith
<1>2. buf_full(s, e) <=> buf_incidx(e) = s
  BY DEF buf_full, buf_incidx
<1> QED BY <1>1, <1>2, SizeAssumption DEF buf_used, buf_empty, Index

\* The first u + 1 slots from the start of a ring that is not full: only the
\* last of them is the slot at its end, where put stores.
LEMMA SlotEnd ==
  ASSUME NEW s \in Index, NEW e \in Index, ~buf_full(s, e)
  PROVE  /\ buf_used(s, e) + 1 \in Index
         /\ \A k \in 0 .. buf_used(s, e) :
              Slot(s, k) \in Index /\ (Slot(s, k) = e <=> k = buf_used(s, e))
<1> DEFINE u == buf_used(s, e)
<1>1. u \in Index /\ u # TUXCTL_BUFSIZE - 1
  BY RingUsed
<1>2. u = IF s <= e THEN e - s ELSE TUXCTL_BUFSIZE + e - s
  BY DEF buf_used
<1> HIDE DEF u
<1>3. u \in Nat /\ u < TUXCTL_BUFSIZE - 1 /\ u + 1 \in Index
  BY <1>1, SizeAssumption DEF Index
<1>4. ASSUME NEW k \in 0 .. u
      PROVE  Slot(s, k) \in Index /\ (Slot(s, k) = e <=> k = u)
  <2> DEFINE slot == Slot(s, k)
  <2>1. k \in Index
    BY <1>3, SizeAssumption DEF Index
  <2>2. slot = IF s + k < TUXCTL_BUFSIZE THEN s + k ELSE (s + k) - TUXCTL_BUFSIZE
    BY <2>1, RingArith
  <2> HIDE DEF slot
  <2>3. slot \in Index /\ (slot = e <=> k = u)
    BY <1>2, <1>3, <2>1, <2>2, SizeAssumption DEF Index
  <2> QED BY <2>3 DEF slot
<1> QED BY <1>3, <1>4 DEF u

\* Advancing the start by one slot shifts every later slot by one.
LEMMA SlotNext ==
  ASSUME NEW s \in Index, NEW k \in Index, k + 1 \in Index
  PROVE  Slot(buf_incidx(s), k) = Slot(s, k + 1)
<1> DEFINE p == Slot(buf_incidx(s), k)
           r == Slot(s, k + 1)
           t == buf_incidx(s)
<1>1. t \in Index /\ t = IF s = TUXCTL_BUFSIZE - 1 THEN 0 ELSE s + 1
  BY RingArith
<1>2. /\ p = IF t + k < TUXCTL_BUFSIZE THEN t + k ELSE (t + k) - TUXCTL_BUFSIZE
      /\ r = IF s + (k + 1) < TUXCTL_BUFSIZE
             THEN s + (k + 1) ELSE (s + (k + 1)) - TUXCTL_BUFSIZE
  BY <1>1, RingArith
<1> HIDE DEF p, r, t
<1>3. p = r
  BY <1>1, <1>2, SizeAssumption DEF Index
<1> QED BY <1>3 DEF p, r

\* The ring b, with u bytes from slot s on, holds bytes x - u + 1 .. x.
Holds(b, s, u, x) ==
  \A k \in 0 .. u - 1 : b[Slot(s, k)] = x - u + 1 + k

\* Storing byte x + 1 at the end keeps the bytes before it.
LEMMA RingPut ==
  ASSUME NEW b \in [Index -> Nat], NEW s \in Index, NEW e \in Index,
         NEW x \in Nat, ~buf_full(s, e), Holds(b, s, buf_used(s, e), x)
  PROVE  Holds([b EXCEPT ![e] = x + 1], s, buf_used(s, e) + 1, x + 1)
<1> DEFINE u == buf_used(s, e)
<1>1. u \in Nat
  BY RingUsed, SizeAssumption DEF Index
<1>2. \A k \in 0 .. u : Slot(s, k) \in Index /\ (Slot(s, k) = e <=> k = u)
  BY SlotEnd
<1> HIDE DEF u
<1> SUFFICES ASSUME NEW k \in 0 .. u
             PROVE  [b EXCEPT ![e] = x + 1][Slot(s, k)] = x + 1 - u + k
  BY <1>1 DEF Holds, u
<1>3. CASE k = u
  BY <1>1, <1>2, <1>3
<1>4. CASE k # u
  <2>1. k \in 0 .. u - 1
    BY <1>4, <1>1
  <2>2. b[Slot(s, k)] = x - u + 1 + k
    BY <2>1 DEF Holds, u
  <2>3. [b EXCEPT ![e] = x + 1][Slot(s, k)] = b[Slot(s, k)]
    BY <1>2, <1>4
  <2> QED BY <2>2, <2>3, <1>1
<1> QED BY <1>3, <1>4

\* Advancing the start drops the oldest byte only.
LEMMA RingTake ==
  ASSUME NEW b \in [Index -> Nat], NEW s \in Index, NEW u \in Index, u > 0,
         NEW x \in Nat, Holds(b, s, u, x)
  PROVE  Holds(b, buf_incidx(s), u - 1, x)
<1> SUFFICES ASSUME NEW k \in 0 .. u - 2
             PROVE  b[Slot(buf_incidx(s), k)] = x - u + 1 + (k + 1)
  BY SizeAssumption DEF Holds, Index
<1>1. k \in Index /\ k + 1 \in Index /\ k + 1 \in 0 .. u - 1
  BY SizeAssumption DEF Index
<1>2. Slot(buf_incidx(s), k) = Slot(s, k + 1)
  BY <1>1, SlotNext
<1> QED BY <1>1, <1>2 DEF Holds

-----------------------------------------------------------------------------
LEMMA InitOK == Init => IInv
<1> SUFFICES ASSUME Init PROVE IInv
  OBVIOUS
<1> USE SizeAssumption, CtxAssumption DEF Init
<1>1. TypeOK
  <2>1. tx_buf \in [Index -> Nat] /\ tx_start \in Index /\ tx_end \in Index
    BY DEF Index
  <2>2. << >> \in Seq(Nat)
    OBVIOUS
  <2> QED BY <2>1, <2>2 DEF TypeOK, Label
<1>2. LockInv
  BY DEF LockInv
<1>3. BufInv
  BY DEF BufInv
<1>4. RingFifo
  BY DEF RingFifo, used, buf_used
<1> QED BY <1>1, <1>2, <1>3, <1>4 DEF IInv

\* One step of any context, or of the port, preserves the invariant.
LEMMA NextOK == IInv /\ [Next]_vars => IInv'
<1> SUFFICES ASSUME IInv, [Next]_vars PROVE IInv'
  OBVIOUS
<1> USE SizeAssumption, CtxAssumption
<1> USE DEF IInv
<1>u. /\ used \in Index
      /\ buf_incidx(tx_start) \in Index /\ buf_incidx(tx_end) \in Index
  BY RingArith, RingUsed DEF TypeOK, used
<1>idx. \A i \in Index : i \in Int /\ 0 <= i /\ i < TUXCTL_BUFSIZE
  BY DEF Index
<1>lock. ASSUME NEW c \in Ctx, NEW l \in Label, NEW m \in Label,
                l \notin {"put", "take", "write"}, m \in {"put", "take"},
                SpinLock(c, l, m)
         PROVE  IInv'
  <2> USE <1>lock DEF SpinLock, Goto, ringVars, serialVars
  <2>1. TypeOK'
    BY DEF TypeOK
  <2>2. LockInv'
    BY DEF LockInv, TypeOK
  <2>3. used' = used
    BY DEF used
  <2>4. BufInv'
    <3> SUFFICES ASSUME NEW d \in Ctx PROVE BufInv!(d)'
      BY DEF BufInv
    <3>1. CASE d = c
      <4>1. buf[c] = << >>
        BY DEF BufInv, TypeOK
      <4>2. Len(buf[c]) = 0 /\ used < TUXCTL_BUFSIZE /\ used \in Int
        BY <4>1, <1>u, <1>idx
      <4>3. buf'[c] = buf[c] /\ pc'[c] = m
        BY DEF TypeOK
      <4> QED BY <3>1, <4>1, <4>2, <4>3, <2>3
    <3>2. CASE d # c
      BY <3>2, <2>3 DEF BufInv, TypeOK
    <3> QED BY <3>1, <3>2
  <2>5. RingFifo'
    BY <2>3 DEF RingFifo
  <2> QED BY <2>1, <2>2, <2>4, <2>5
<1>1. ASSUME NEW c \in Putter, NEW k \in 1 .. MaxPut, PutCall(c, k)
      PROVE  IInv'
  <2> USE <1>1 DEF PutCall, Goto, ringVars, serialVars, Ctx
  <2>1. TypeOK'
    BY DEF TypeOK, Label
  <2>2. LockInv'
    BY DEF LockInv, TypeOK
  <2>3. used' = used
    BY DEF used
  <2>4. BufInv'
    BY <2>3 DEF BufInv, TypeOK
  <2>5. RingFifo'
    BY <2>3 DEF RingFifo
  <2> QED BY <2>1, <2>2, <2>4, <2>5
<1>2. ASSUME NEW c \in Putter, PutLock(c) PROVE IInv'
  BY <1>2, <1>lock DEF PutLock, Ctx, Label
<1>3. ASSUME NEW c \in Putter, PutByte(c) PROVE IInv'
  <2> USE <1>3 DEF PutByte, serialVars, Ctx
  <2>1. TypeOK'
    <3>1. n[c] - 1 \in Nat /\ enq + 1 \in Nat
      BY DEF TypeOK
    <3>2. tx_buf' \in [Index -> Nat] /\ n' \in [Ctx -> Nat]
      BY <3>1 DEF TypeOK
    <3> QED BY <3>1, <3>2, <1>u DEF TypeOK
  <2>2. LockInv'
    BY DEF LockInv, TypeOK
  <2>3. used' = used + 1
    BY RingUsed DEF used, TypeOK
  <2>4. BufInv'
    BY DEF BufInv, LockInv, TypeOK
  <2>5. RingFifo'
    <3>1. Holds(tx_buf, tx_start, buf_used(tx_start, tx_end), enq)
      BY DEF RingFifo, Holds, used
    <3>2. Holds([tx_buf EXCEPT ![tx_end] = enq + 1], tx_start,
                buf_used(tx_start, tx_end) + 1, enq + 1)
      BY <3>1, RingPut DEF TypeOK
    <3> QED BY <3>2, <2>3 DEF RingFifo, Holds, used
  <2> QED BY <2>1, <2>2, <2>4, <2>5
<1>4. ASSUME NEW c \in Putter, PutUnlock(c) PROVE IInv'
  <2> USE <1>4 DEF PutUnlock, Goto, ringVars, serialVars, Ctx
  <2>1. TypeOK'
    BY DEF TypeOK, Label
  <2>2. LockInv'
    BY DEF LockInv, TypeOK
  <2>3. used' = used
    BY DEF used
  <2>4. BufInv'
    BY <2>3 DEF BufInv, TypeOK
  <2>5. RingFifo'
    BY <2>3 DEF RingFifo
  <2> QED BY <2>1, <2>2, <2>4, <2>5
<1>5. ASSUME NEW c \in Waker, WakeCall(c) PROVE IInv'
  <2> USE <1>5 DEF WakeCall, Goto, ringVars, serialVars, Ctx
  <2>1. TypeOK'
    BY DEF TypeOK, Label
  <2>2. LockInv'
    BY DEF LockInv, TypeOK
  <2>3. used' = used
    BY DEF used
  <2>4. BufInv'
    BY <2>3 DEF BufInv, TypeOK
  <2>5. RingFifo'
    BY <2>3 DEF RingFifo
  <2> QED BY <2>1, <2>2, <2>4, <2>5
<1>6. ASSUME NEW c \in Ctx, WriteRoom(c) PROVE IInv'
  <2> USE <1>6 DEF WriteRoom, Goto, ringVars, serialVars
  <2>1. TypeOK'
    <3>1. UartSize - Len(uart) \in 0 .. UartSize
      BY DEF TypeOK
    <3> QED BY <3>1 DEF TypeOK, Label
  <2>2. LockInv'
    BY DEF LockInv, TypeOK
  <2>3. used' = used
    BY DEF used
  <2>4. BufInv'
    BY <2>3 DEF BufInv, TypeOK
  <2>5. RingFifo'
    BY <2>3 DEF RingFifo
  <2> QED BY <2>1, <2>2, <2>4, <2>5
<1>7. ASSUME NEW c \in Ctx, TakeLock(c) PROVE IInv'
  BY <1>7, <1>lock DEF TakeLock, Label
<1>8. ASSUME NEW c \in Ctx, TakeByte(c) PROVE IInv'
  <2> USE <1>8 DEF TakeByte, serialVars
  <2>1. /\ buf[c] \in Seq(Nat) /\ tx_buf[tx_start] \in Nat
        /\ Append(buf[c], tx_buf[tx_start]) \in Seq(Nat)
        /\ Len(Append(buf[c], tx_buf[tx_start])) = Len(buf[c]) + 1
    BY AppendProperties DEF TypeOK
  <2>2. TypeOK'
    <3>1. buf' \in [Ctx -> Seq(Nat)]
      BY <2>1 DEF TypeOK
    <3> QED BY <3>1, <1>u DEF TypeOK
  <2>3. LockInv'
    BY DEF LockInv, TypeOK
  <2>4. used' = used - 1 /\ used > 0
    <3>1. ~buf_empty(tx_start, tx_end)
      BY DEF MoreToTake
    <3>2. /\ buf_used(buf_incidx(tx_start), tx_end) = used - 1
          /\ used # 0
      BY <3>1, RingUsed DEF used, TypeOK
    <3> QED BY <3>2, <1>u, <1>idx DEF used
  <2>5. BufInv'
    <3> SUFFICES ASSUME NEW d \in Ctx PROVE BufInv!(d)'
      BY DEF BufInv
    <3>1. CASE d = c
      <4>1. /\ pc'[d] = "take"
            /\ Len(buf'[d]) = Len(buf[d]) + 1
        BY <3>1, <2>1 DEF TypeOK
      <4>2. /\ Len(buf[d]) + used < TUXCTL_BUFSIZE
            /\ Len(buf[d]) \in Int /\ used \in Int
        BY <3>1, <1>u, <1>idx, <2>1 DEF BufInv
      <4> QED BY <4>1, <4>2, <2>4
    <3>2. CASE d # c
      <4>1. buf'[d] = buf[d] /\ pc'[d] = pc[d] /\ pc[d] # "take"
        BY <3>2 DEF LockInv, TypeOK
      <4> QED BY <4>1 DEF BufInv
    <3> QED BY <3>1, <3>2
  <2>6. RingFifo'
    <3>1. Holds(tx_buf, tx_start, used, enq)
      BY DEF RingFifo, Holds
    <3>2. Holds(tx_buf, buf_incidx(tx_start), used - 1, enq)
      BY <3>1, <1>u, <2>4, RingTake DEF TypeOK
    <3> QED BY <3>2, <2>4 DEF RingFifo, Holds
  <2> QED BY <2>2, <2>3, <2>5, <2>6
<1>9. ASSUME NEW c \in Ctx, TakeUnlock(c) PROVE IInv'
  <2> USE <1>9 DEF TakeUnlock, Goto, ringVars, serialVars
  <2>1. TypeOK'
    BY DEF TypeOK, Label
  <2>2. LockInv'
    BY DEF LockInv, TypeOK
  <2>3. used' = used
    BY DEF used
  <2>4. BufInv'
    <3> SUFFICES ASSUME NEW d \in Ctx PROVE BufInv!(d)'
      BY DEF BufInv
    <3>1. /\ Len(buf[d]) \in Int /\ buf'[d] = buf[d]
          /\ used \in Int /\ used >= 0
      BY <1>u, <1>idx DEF TypeOK
    <3>2. CASE d = c
      <4>1. pc[d] = "take" /\ pc'[d] = "write"
        BY <3>2 DEF TypeOK
      <4>2. Len(buf[d]) + used < TUXCTL_BUFSIZE
        BY <4>1 DEF BufInv
      <4>3. Len(buf[d]) < TUXCTL_BUFSIZE
        BY <4>2, <3>1
      <4> QED BY <4>1, <4>3, <3>1
    <3>3. CASE d # c
      <4>1. pc'[d] = pc[d]
        BY <3>3 DEF TypeOK
      <4> QED BY <4>1, <3>1, <2>3 DEF BufInv
    <3> QED BY <3>2, <3>3
  <2>5. RingFifo'
    BY <2>3 DEF RingFifo
  <2> QED BY <2>1, <2>2, <2>4, <2>5
<1>10. ASSUME NEW c \in Ctx, DriverWrite(c) PROVE IInv'
  <2> USE <1>10 DEF DriverWrite, Goto, ringVars
  <2> DEFINE k == Accepted(buf[c])
  <2>1. /\ buf[c] \in Seq(Nat) /\ k \in Int /\ k <= Len(buf[c])
        /\ \A i \in 1 .. Len(buf[c]) : buf[c][i] \in Nat
    BY ElementOfSeq DEF TypeOK, Accepted
  <2>2. uart' \in Seq(Nat) /\ Len(uart') <= UartSize
    <3>1. \A i \in 1 .. k : buf[c][i] \in Nat
      BY <2>1
    <3>2. SubSeq(buf[c], 1, k) \in Seq(Nat)
      BY <2>1, <3>1, SubSeqProperties
    <3>3. Len(uart) + Len(SubSeq(buf[c], 1, k)) <= UartSize
      BY <2>1, <3>2 DEF Accepted, TypeOK
    <3> QED BY <3>2, <3>3, ConcatProperties DEF TypeOK
  <2>3. lost' \in SUBSET Nat
    <3>1. k >= 0
      BY DEF Accepted, TypeOK
    <3>2. \A i \in k + 1 .. Len(buf[c]) : buf[c][i] \in Nat
      BY <3>1, <2>1
    <3> DEFINE rest == { buf[c][i] : i \in k + 1 .. Len(buf[c]) }
    <3>3. lost' = lost \cup rest /\ lost \subseteq Nat
      BY DEF TypeOK
    <3>4. ASSUME NEW x \in rest PROVE x \in Nat
      BY <3>2, <3>4, Zenon
    <3> HIDE DEF rest
    <3> QED BY ONLY <3>3, <3>4
  <2>4. TypeOK'
    <3>1. << >> \in Seq(Nat) /\ 0 \in 0 .. UartSize /\ "idle" \in Label
      BY DEF Label
    <3>2. /\ pc' \in [Ctx -> Label] /\ n' \in [Ctx -> Nat]
          /\ room' \in [Ctx -> 0 .. UartSize] /\ buf' \in [Ctx -> Seq(Nat)]
      BY <3>1 DEF TypeOK
    <3> QED BY <3>2, <2>2, <2>3 DEF TypeOK
  <2>5. LockInv'
    BY DEF LockInv, TypeOK
  <2>6. used' = used
    BY DEF used
  <2>7. BufInv'
    BY <2>6 DEF BufInv, TypeOK
  <2>8. RingFifo'
    BY <2>6 DEF RingFifo
  <2> QED BY <2>4, <2>5, <2>7, <2>8
<1>11. ASSUME UartSend PROVE IInv'
  <2> USE <1>11 DEF UartSend, ringVars
  <2>1. /\ Head(uart) \in Nat /\ Tail(uart) \in Seq(Nat)
        /\ Len(Tail(uart)) <= UartSize
        /\ Append(wire, Head(uart)) \in Seq(Nat)
    BY HeadTailProperties, AppendProperties DEF TypeOK
  <2>2. TypeOK'
    BY <2>1 DEF TypeOK
  <2>3. used' = used
    BY DEF used
  <2> QED BY <2>2, <2>3 DEF LockInv, BufInv, RingFifo
<1>12. CASE UNCHANGED vars
  <2>1. used' = used
    BY <1>12 DEF vars, ringVars, used
  <2> QED BY <1>12, <2>1 DEF vars, ringVars, serialVars, TypeOK, LockInv,
                              BufInv, RingFifo
<1> QED
  BY <1>1, <1>2, <1>3, <1>4, <1>5, <1>6, <1>7, <1>8, <1>9, <1>10, <1>11, <1>12
  DEF Next, tuxctl_ldisc_put, tuxctl_ldisc_write_wakeup

\* The inductive invariant holds in every reachable state.
LEMMA Inductive == Spec => []IInv
  BY InitOK, NextOK, PTL DEF Spec

\* Type correctness, the bound on the serial driver's buffer included.
THEOREM TypeCorrect == Spec => []TypeOK
<1>1. IInv => TypeOK
  BY DEF IInv
<1> QED BY <1>1, Inductive, PTL

\* tuxctl_ldisc_put and tuxctl_ldisc_write_wakeup exclude each other: the
\* spin lock is held exactly inside their loops over the ring.
THEOREM MutualExclusion == Spec => []LockInv
<1>1. IInv => LockInv
  BY DEF IInv
<1> QED BY <1>1, Inductive, PTL

\* The ring always holds the most recently stored bytes, oldest first.
THEOREM RingContents == Spec => []RingFifo
<1>1. IInv => RingFifo
  BY DEF IInv
<1> QED BY <1>1, Inductive, PTL

\* write_wakeup stays inside its local buffer, whatever write_room answers.
THEOREM NoOverrun == Spec => []BufFits
<1>1. IInv => BufFits
  <2> SUFFICES ASSUME IInv, NEW c \in Ctx
               PROVE  Len(buf[c]) < TUXCTL_BUFSIZE
    BY DEF BufFits
  <2>1. used \in Int /\ used >= 0 /\ Len(buf[c]) \in Int
    <3>1. used \in Index /\ buf[c] \in Seq(Nat)
      BY RingUsed DEF IInv, TypeOK, used
    <3> QED BY <3>1, SizeAssumption DEF Index
  <2>2. CASE pc[c] \notin {"take", "write"}
    <3>1. buf[c] = << >>
      BY <2>2 DEF IInv, BufInv
    <3> QED BY <3>1, SizeAssumption
  <2>3. CASE pc[c] = "take"
    <3>1. Len(buf[c]) + used < TUXCTL_BUFSIZE
      BY <2>3 DEF IInv, BufInv
    <3> QED BY <3>1, <2>1, SizeAssumption
  <2>4. CASE pc[c] = "write"
    BY <2>4 DEF IInv, BufInv
  <2> QED BY <2>2, <2>3, <2>4
<1> QED BY <1>1, Inductive, PTL

-----------------------------------------------------------------------------
(* Refinement: the ring implements the bounded queue of ByteFifo. *)

\* The bytes of the ring b, u of them from slot s on, oldest first.
AsQueue(b, s, u) == [k \in 1 .. u |-> b[Slot(s, k - 1)]]

LEMMA QueueSeq ==
  ASSUME NEW b \in [Index -> Nat], NEW s \in Index, NEW u \in Index
  PROVE  AsQueue(b, s, u) \in Seq(Nat) /\ Len(AsQueue(b, s, u)) = u
<1>1. u \in Nat
  BY SizeAssumption DEF Index
<1>2. ASSUME NEW k \in 1 .. u PROVE b[Slot(s, k - 1)] \in Nat
  <2>1. k - 1 \in Index
    BY <1>1, SizeAssumption DEF Index
  <2> DEFINE slot == Slot(s, k - 1)
  <2>2. slot = IF s + (k - 1) < TUXCTL_BUFSIZE
               THEN s + (k - 1) ELSE (s + (k - 1)) - TUXCTL_BUFSIZE
    BY <2>1, RingArith
  <2> HIDE DEF slot
  <2>3. slot \in Index
    BY <2>1, <2>2, SizeAssumption DEF Index
  <2> QED BY <2>3 DEF slot
<1>3. AsQueue(b, s, u) \in [1 .. u -> Nat]
  BY <1>2 DEF AsQueue
<1> QED BY <1>1, <1>3, SeqDef, LenProperties

\* Storing at the end of a ring that is not full appends.
LEMMA QueuePut ==
  ASSUME NEW b \in [Index -> Nat], NEW s \in Index, NEW e \in Index,
         NEW x \in Nat, ~buf_full(s, e)
  PROVE  AsQueue([b EXCEPT ![e] = x], s, buf_used(s, e) + 1)
           = Append(AsQueue(b, s, buf_used(s, e)), x)
<1> DEFINE u == buf_used(s, e)
           p == AsQueue([b EXCEPT ![e] = x], s, u + 1)
           r == Append(AsQueue(b, s, u), x)
<1>1. u \in Index /\ u + 1 \in Index
  BY RingUsed, SlotEnd
<1>2. \A k \in 0 .. u : Slot(s, k) \in Index /\ (Slot(s, k) = e <=> k = u)
  BY SlotEnd
<1> HIDE DEF u
<1>3. u \in Nat
  BY <1>1, SizeAssumption DEF Index
<1>4. /\ AsQueue(b, s, u) \in Seq(Nat) /\ Len(AsQueue(b, s, u)) = u
      /\ p \in Seq(Nat) /\ Len(p) = u + 1
  <2>1. [b EXCEPT ![e] = x] \in [Index -> Nat]
    OBVIOUS
  <2> QED BY <2>1, <1>1, QueueSeq
<1>5. r \in Seq(Nat) /\ Len(r) = u + 1 /\ r[u + 1] = x
  BY <1>4, AppendProperties
<1>6. ASSUME NEW k \in 1 .. u + 1 PROVE p[k] = r[k]
  <2>1. p[k] = [b EXCEPT ![e] = x][Slot(s, k - 1)]
    BY <1>3 DEF AsQueue
  <2>2. k - 1 \in 0 .. u
    BY <1>3
  <2>3. CASE k = u + 1
    <3>1. Slot(s, k - 1) = e
      BY <1>2, <1>3, <2>2, <2>3
    <3> QED BY <3>1, <2>1, <2>3, <1>5
  <2>4. CASE k # u + 1
    <3>1. k \in 1 .. u /\ k - 1 # u
      BY <2>4, <1>3
    <3>2. r[k] = AsQueue(b, s, u)[k]
      BY <3>1, <1>4, AppendProperties
    <3>3. AsQueue(b, s, u)[k] = b[Slot(s, k - 1)]
      BY <3>1 DEF AsQueue
    <3>4. Slot(s, k - 1) \in Index /\ Slot(s, k - 1) # e
      BY <3>1, <2>2, <1>2
    <3> QED BY <2>1, <3>2, <3>3, <3>4
  <2> QED BY <2>3, <2>4
<1> HIDE DEF p, r
<1>7. p = r
  BY <1>4, <1>5, <1>6, SeqEqual
<1> QED BY <1>7 DEF p, r, u

\* Advancing the start of a ring that is not empty removes the head.
LEMMA QueueTake ==
  ASSUME NEW b \in [Index -> Nat], NEW s \in Index, NEW u \in Index, u > 0
  PROVE  AsQueue(b, buf_incidx(s), u - 1) = Tail(AsQueue(b, s, u))
<1> DEFINE p == AsQueue(b, buf_incidx(s), u - 1)
           r == AsQueue(b, s, u)
<1>1. u \in Nat /\ u - 1 \in Index /\ buf_incidx(s) \in Index
  <2>1. buf_incidx(s) \in Index
    BY RingArith
  <2> QED BY <2>1, SizeAssumption DEF Index
<1>2. /\ p \in Seq(Nat) /\ Len(p) = u - 1
      /\ r \in Seq(Nat) /\ Len(r) = u
  BY <1>1, QueueSeq
<1>3. r # << >>
  BY <1>2
<1>4. Tail(r) \in Seq(Nat) /\ Len(Tail(r)) = u - 1
  BY <1>1, <1>2, <1>3, HeadTailProperties
<1>5. ASSUME NEW k \in 1 .. u - 1 PROVE p[k] = Tail(r)[k]
  <2>1. /\ k - 1 \in Index /\ k \in Index /\ k = (k - 1) + 1
        /\ k + 1 \in 1 .. u /\ (k + 1) - 1 = k
    BY <1>1, SizeAssumption DEF Index
  <2>2. Slot(buf_incidx(s), k - 1) = Slot(s, k)
    BY <2>1, SlotNext
  <2>3. p[k] = b[Slot(buf_incidx(s), k - 1)]
    BY DEF AsQueue
  <2>4. r[k + 1] = b[Slot(s, k)]
    BY <2>1 DEF AsQueue
  <2>5. Tail(r)[k] = r[k + 1]
    BY <1>1, <1>2, <1>3, <1>4, HeadTailProperties
  <2> QED BY <2>2, <2>3, <2>4, <2>5
<1> HIDE DEF p, r
<1>6. p = Tail(r)
  BY <1>1, <1>2, <1>4, <1>5, SeqEqual
<1> QED BY <1>6 DEF p, r

\* A step of the transmit path is a step of the queue or leaves it alone:
\* only the two loop bodies that run under the lock touch it.
LEMMA StepRefines == IInv /\ [Next]_vars => [Fifo!Next]_queue
<1> SUFFICES ASSUME IInv, [Next]_vars
             PROVE  Fifo!Next \/ queue' = queue
  OBVIOUS
<1>1. /\ tx_buf \in [Index -> Nat] /\ tx_start \in Index /\ tx_end \in Index
      /\ enq \in Nat /\ used \in Index
      /\ queue = AsQueue(tx_buf, tx_start, used)
      /\ queue' = AsQueue(tx_buf', tx_start', used')
  BY RingUsed DEF IInv, TypeOK, used, queue, AsQueue
<1>2. queue \in Seq(Nat) /\ Len(queue) = used
  BY <1>1, QueueSeq
<1>3. ASSUME NEW c \in Putter, PutByte(c) PROVE Fifo!Next
  <2>1. used' = used + 1 /\ used # TUXCTL_BUFSIZE - 1
    BY <1>1, <1>3, RingUsed DEF PutByte, used
  <2>2. queue' = Append(queue, enq + 1)
    <3>1. enq + 1 \in Nat /\ ~buf_full(tx_start, tx_end)
      BY <1>1, <1>3 DEF PutByte
    <3>2. AsQueue([tx_buf EXCEPT ![tx_end] = enq + 1], tx_start, used + 1)
            = Append(AsQueue(tx_buf, tx_start, used), enq + 1)
      BY <1>1, <3>1, QueuePut DEF used
    <3>3. /\ tx_buf' = [tx_buf EXCEPT ![tx_end] = enq + 1]
          /\ tx_start' = tx_start
      BY <1>3 DEF PutByte
    <3> QED BY <1>1, <2>1, <3>2, <3>3
  <2>3. used \in Nat /\ used < TUXCTL_BUFSIZE - 1
    BY <1>1, <2>1, SizeAssumption DEF Index
  <2>4. Len(queue') = Len(queue) + 1 /\ queue'[Len(queue) + 1] = enq + 1
    BY <1>1, <1>2, <2>2, AppendProperties
  <2> QED BY <1>2, <2>2, <2>3, <2>4 DEF Fifo!Next, Fifo!Enqueue
<1>4. ASSUME NEW c \in Ctx, TakeByte(c) PROVE Fifo!Next
  <2>1. used' = used - 1 /\ used # 0
    BY <1>1, <1>4, RingUsed DEF TakeByte, MoreToTake, used
  <2>2. used > 0
    BY <1>1, <2>1, SizeAssumption DEF Index
  <2>3. queue' = Tail(queue)
    BY <1>1, <1>4, <2>1, <2>2, QueueTake DEF TakeByte
  <2>4. queue # << >>
    BY <1>2, <2>2
  <2> QED BY <2>3, <2>4 DEF Fifo!Next, Fifo!Dequeue
<1>5. ASSUME UNCHANGED ringVars PROVE queue' = queue
  BY <1>1, <1>5 DEF ringVars, used
<1>6. CASE \E c \in Putter : tuxctl_ldisc_put(c)
  BY <1>3, <1>5, <1>6
  DEF tuxctl_ldisc_put, PutCall, PutLock, PutUnlock, SpinLock
<1>7. CASE \E c \in Ctx : tuxctl_ldisc_write_wakeup(c)
  BY <1>4, <1>5, <1>7
  DEF tuxctl_ldisc_write_wakeup, WriteRoom, TakeLock, TakeUnlock, SpinLock,
      DriverWrite
<1>8. CASE \E c \in Waker : WakeCall(c)
  BY <1>5, <1>8 DEF WakeCall
<1>9. CASE UartSend
  BY <1>5, <1>9 DEF UartSend
<1>10. CASE UNCHANGED vars
  BY <1>5, <1>10 DEF vars
<1> QED BY <1>6, <1>7, <1>8, <1>9, <1>10 DEF Next

\* The transmit ring, under any interleaving of tuxctl_ldisc_put and
\* tuxctl_ldisc_write_wakeup, is a bounded queue of TUXCTL_BUFSIZE - 1 bytes.
THEOREM RingRefinesFifo == Spec => RingIsFifo
<1>1. Init => Fifo!Init
  <2> SUFFICES ASSUME Init PROVE queue = << >>
    BY DEF Fifo!Init
  <2>1. used = 0
    BY DEF Init, used, buf_used
  <2> QED BY <2>1 DEF queue
<1> QED BY <1>1, Inductive, StepRefines, PTL DEF Spec, RingIsFifo, Fifo!Spec

-----------------------------------------------------------------------------
(* Every byte is in one place. *)

Elems(s) == { s[j] : j \in 1 .. Len(s) }

Distinct(s) == \A j, k \in 1 .. Len(s) : s[j] = s[k] => j = k

\* Adding one byte to a sequence that does not hold it.
LEMMA AppendElems ==
  ASSUME NEW s \in Seq(Nat), NEW x \in Nat
  PROVE  /\ Elems(Append(s, x)) = Elems(s) \cup {x}
         /\ Distinct(s) /\ x \notin Elems(s) => Distinct(Append(s, x))
<1> DEFINE t == Append(s, x)
<1>1. /\ t \in Seq(Nat) /\ Len(t) = Len(s) + 1 /\ Len(s) \in Nat
      /\ \A i \in 1 .. Len(s) : t[i] = s[i]
      /\ t[Len(s) + 1] = x
  BY AppendProperties
<1> HIDE DEF t
<1>2. /\ \A i \in 1 .. Len(t) : i \in 1 .. Len(s) \/ i = Len(s) + 1
      /\ \A i \in 1 .. Len(s) : i \in 1 .. Len(t)
      /\ Len(s) + 1 \in 1 .. Len(t)
  BY <1>1
<1>3. \A i \in 1 .. Len(s) : s[i] \in Elems(s)
  BY DEF Elems
<1>4. Elems(t) = Elems(s) \cup {x}
  <2>1. ASSUME NEW y \in Elems(t) PROVE y \in Elems(s) \cup {x}
    <3>1. PICK i \in 1 .. Len(t) : y = t[i]
      BY <2>1 DEF Elems
    <3> QED BY <3>1, <1>1, <1>2, <1>3
  <2>2. ASSUME NEW y \in Elems(s) PROVE y \in Elems(t)
    <3>1. PICK i \in 1 .. Len(s) : y = s[i]
      BY <2>2 DEF Elems
    <3>2. i \in 1 .. Len(t) /\ t[i] = y
      BY <3>1, <1>1, <1>2
    <3> QED BY <3>2 DEF Elems
  <2>3. x \in Elems(t)
    BY <1>1, <1>2 DEF Elems
  <2> QED BY <2>1, <2>2, <2>3
<1>5. ASSUME Distinct(s), x \notin Elems(s) PROVE Distinct(t)
  <2> SUFFICES ASSUME NEW j \in 1 .. Len(t), NEW k \in 1 .. Len(t), t[j] = t[k]
               PROVE  j = k
    BY DEF Distinct
  <2> QED BY <1>1, <1>2, <1>3, <1>5 DEF Distinct
<1> QED BY <1>4, <1>5 DEF t

\* Joining two sequences.
LEMMA ConcatElems ==
  ASSUME NEW s \in Seq(Nat), NEW r \in Seq(Nat)
  PROVE  /\ Elems(s \o r) = Elems(s) \cup Elems(r)
         /\ Distinct(s) /\ Distinct(r) /\ Elems(s) \cap Elems(r) = {}
              => Distinct(s \o r)
<1> DEFINE t == s \o r
           a == Len(s)
           b == Len(r)
<1>1. /\ t \in Seq(Nat) /\ Len(t) = a + b /\ a \in Nat /\ b \in Nat
      /\ \A i \in 1 .. a : t[i] = s[i]
      /\ \A i \in 1 .. b : t[a + i] = r[i]
  BY ConcatProperties
<1> HIDE DEF t
<1> HIDE DEF a, b
<1>2. ASSUME NEW i \in 1 .. Len(t)
      PROVE  i \in 1 .. a \/ (i - a \in 1 .. b /\ t[i] = r[i - a])
  <2>1. i \in 1 .. a \/ (i - a \in 1 .. b /\ a + (i - a) = i)
    BY <1>1
  <2> QED BY <2>1, <1>1
<1>3. Elems(t) = Elems(s) \cup Elems(r)
  <2>1. ASSUME NEW y \in Elems(t) PROVE y \in Elems(s) \cup Elems(r)
    BY <2>1, <1>1, <1>2 DEF Elems, a, b
  <2>2. ASSUME NEW y \in Elems(s) PROVE y \in Elems(t)
    BY <2>2, <1>1 DEF Elems, a
  <2>3. ASSUME NEW y \in Elems(r) PROVE y \in Elems(t)
    <3>1. PICK i \in 1 .. b : y = r[i]
      BY <2>3 DEF Elems, b
    <3>2. a + i \in 1 .. Len(t) /\ t[a + i] = y
      BY <3>1, <1>1
    <3> QED BY <3>2 DEF Elems
  <2> QED BY <2>1, <2>2, <2>3
<1>4. ASSUME Distinct(s), Distinct(r), Elems(s) \cap Elems(r) = {}
      PROVE  Distinct(t)
  <2> SUFFICES ASSUME NEW j \in 1 .. Len(t), NEW k \in 1 .. Len(t), t[j] = t[k]
               PROVE  j = k
    BY DEF Distinct
  <2>1. \A i \in 1 .. a : s[i] \in Elems(s)
    BY DEF Elems, a
  <2>2. \A i \in 1 .. b : r[i] \in Elems(r)
    BY DEF Elems, b
  <2>3. CASE j \in 1 .. a /\ k \in 1 .. a
    BY <2>3, <1>1, <1>4 DEF Distinct, a
  <2>4. CASE j - a \in 1 .. b /\ k - a \in 1 .. b /\ j \notin 1 .. a /\ k \notin 1 .. a
    <3>1. t[j] = r[j - a] /\ t[k] = r[k - a]
      BY <2>4, <1>2
    <3>2. j - a = k - a
      BY <3>1, <2>4, <1>4 DEF Distinct, b
    <3> QED BY <3>2, <1>1
  <2>5. CASE j \in 1 .. a /\ k \notin 1 .. a
    BY <2>5, <1>1, <1>2, <1>4, <2>1, <2>2
  <2>6. CASE k \in 1 .. a /\ j \notin 1 .. a
    BY <2>6, <1>1, <1>2, <1>4, <2>1, <2>2
  <2> QED BY <2>3, <2>4, <2>5, <2>6, <1>2
<1> QED BY <1>3, <1>4 DEF t

\* What driver->write accepts of a buffer and what it drops.
LEMMA SplitElems ==
  ASSUME NEW s \in Seq(Nat), NEW k \in 0 .. Len(s)
  PROVE  /\ SubSeq(s, 1, k) \in Seq(Nat) /\ Len(SubSeq(s, 1, k)) = k
         /\ Elems(s) = Elems(SubSeq(s, 1, k)) \cup { s[i] : i \in k + 1 .. Len(s) }
         /\ Distinct(s)
              => /\ Distinct(SubSeq(s, 1, k))
                 /\ Elems(SubSeq(s, 1, k)) \cap { s[i] : i \in k + 1 .. Len(s) } = {}
<1> DEFINE t == SubSeq(s, 1, k)
           rest == { s[i] : i \in k + 1 .. Len(s) }
<1>1. Len(s) \in Nat /\ k \in Nat /\ k <= Len(s)
  OBVIOUS
<1>2. \A i \in 1 .. k : s[i] \in Nat
  BY <1>1, ElementOfSeq
<1>3. t \in Seq(Nat) /\ Len(t) = k /\ \A i \in 1 .. k : t[i] = s[i]
  BY <1>1, <1>2, SubSeqProperties
<1> HIDE DEF t
<1>4. \A i \in 1 .. Len(s) : i \in 1 .. k \/ i \in k + 1 .. Len(s)
  BY <1>1
<1>5. /\ \A i \in 1 .. k : i \in 1 .. Len(s)
      /\ \A i \in k + 1 .. Len(s) : i \in 1 .. Len(s) /\ i \notin 1 .. k
  BY <1>1
<1>6. Elems(t) = { s[i] : i \in 1 .. k }
  BY <1>3 DEF Elems
<1>7. Elems(s) = Elems(t) \cup rest
  BY <1>4, <1>5, <1>6, Zenon DEF Elems
<1>8. ASSUME Distinct(s) PROVE Distinct(t) /\ Elems(t) \cap rest = {}
  <2>1. Distinct(t)
    BY <1>3, <1>5, <1>8 DEF Distinct
  <2>2. ASSUME NEW y \in Elems(t), y \in rest PROVE FALSE
    <3>1. PICK i \in 1 .. k : y = s[i]
      BY <2>2, <1>6
    <3>2. PICK j \in k + 1 .. Len(s) : y = s[j]
      BY <2>2
    <3> QED BY <3>1, <3>2, <1>5, <1>8 DEF Distinct
  <2> QED BY <2>1, <2>2
<1> QED BY <1>3, <1>7, <1>8 DEF t

\* The byte the port sends next and the bytes behind it.
LEMMA HeadElems ==
  ASSUME NEW s \in Seq(Nat), s # << >>
  PROVE  /\ Elems(s) = {Head(s)} \cup Elems(Tail(s))
         /\ Distinct(s) => Distinct(Tail(s)) /\ Head(s) \notin Elems(Tail(s))
<1> DEFINE t == Tail(s)
           h == Head(s)
<1>1. /\ Len(s) \in Nat /\ Len(s) >= 1 /\ h = s[1]
      /\ t \in Seq(Nat) /\ Len(t) = Len(s) - 1
      /\ \A i \in 1 .. Len(t) : t[i] = s[i + 1]
  BY HeadTailProperties, EmptySeq
<1> HIDE DEF t, h
<1>2. Elems(s) = {h} \cup Elems(t)
  <2>1. ASSUME NEW y \in Elems(s) PROVE y = h \/ y \in Elems(t)
    <3>1. PICK i \in 1 .. Len(s) : y = s[i]
      BY <2>1 DEF Elems
    <3>2. CASE i = 1
      BY <3>1, <3>2, <1>1
    <3>3. CASE i # 1
      <4>1. i - 1 \in 1 .. Len(t) /\ (i - 1) + 1 = i
        BY <3>3, <1>1
      <4>2. t[i - 1] = y
        BY <4>1, <3>1, <1>1
      <4> QED BY <4>1, <4>2 DEF Elems
    <3> QED BY <3>2, <3>3
  <2>2. h \in Elems(s)
    BY <1>1 DEF Elems
  <2>3. ASSUME NEW y \in Elems(t) PROVE y \in Elems(s)
    <3>1. PICK i \in 1 .. Len(t) : y = t[i]
      BY <2>3 DEF Elems
    <3>2. i + 1 \in 1 .. Len(s) /\ y = s[i + 1]
      BY <3>1, <1>1
    <3> QED BY <3>2 DEF Elems
  <2> QED BY <2>1, <2>2, <2>3
<1>3. \A i \in 1 .. Len(t) : i + 1 \in 1 .. Len(s) /\ i + 1 # 1
  BY <1>1
<1>4. ASSUME Distinct(s) PROVE Distinct(t) /\ h \notin Elems(t)
  <2>1. ASSUME NEW j \in 1 .. Len(t), NEW k \in 1 .. Len(t), t[j] = t[k]
        PROVE  j = k
    <3>1. s[j + 1] = s[k + 1] /\ j + 1 \in 1 .. Len(s) /\ k + 1 \in 1 .. Len(s)
      BY <2>1, <1>1, <1>3
    <3>2. j + 1 = k + 1
      BY <3>1, <1>4 DEF Distinct
    <3> QED BY <3>2
  <2>2. ASSUME NEW j \in 1 .. Len(t), t[j] = h PROVE FALSE
    <3>1. s[j + 1] = s[1] /\ 1 \in 1 .. Len(s)
      BY <2>2, <1>1
    <3> QED BY <3>1, <1>3, <1>4 DEF Distinct
  <2> QED BY <2>1, <2>2 DEF Distinct, Elems
<1> QED BY <1>2, <1>4 DEF t, h

\* The sets B[c] (the copies), U, W and L are disjoint and make up T.
Partition(B, U, W, L, T) ==
  /\ \A c, d \in Ctx : c # d => B[c] \cap B[d] = {}
  /\ \A c \in Ctx : B[c] \cap U = {} /\ B[c] \cap W = {} /\ B[c] \cap L = {}
  /\ U \cap W = {} /\ U \cap L = {} /\ W \cap L = {}
  /\ \A i : i \in T <=> \/ \E c \in Ctx : i \in B[c]
                        \/ i \in U \/ i \in W \/ i \in L

\* One byte is taken from the ring into the copy of context c.
LEMMA PartitionTake ==
  ASSUME NEW B, NEW B2, NEW U, NEW W, NEW L, NEW T, NEW x, NEW c \in Ctx,
         Partition(B, U, W, L, T), x \notin T,
         B2[c] = B[c] \cup {x}, \A d \in Ctx \ {c} : B2[d] = B[d]
  PROVE  Partition(B2, U, W, L, T \cup {x})
<1>1. /\ \A d \in Ctx : x \notin B[d]
      /\ x \notin U /\ x \notin W /\ x \notin L
  BY DEF Partition
<1>2. \A c1, d \in Ctx : c1 # d => B2[c1] \cap B2[d] = {}
  <2> SUFFICES ASSUME NEW c1 \in Ctx, NEW d \in Ctx, c1 # d, NEW y \in B2[c1], y \in B2[d]
               PROVE  FALSE
    OBVIOUS
  <2> QED BY <1>1 DEF Partition
<1>3. \A d \in Ctx : B2[d] \cap U = {} /\ B2[d] \cap W = {} /\ B2[d] \cap L = {}
  <2> SUFFICES ASSUME NEW d \in Ctx, NEW y \in B2[d] PROVE y \notin U /\ y \notin W /\ y \notin L
    OBVIOUS
  <2> QED BY <1>1 DEF Partition
<1>4. ASSUME NEW i
      PROVE  i \in T \cup {x} <=> \/ \E d \in Ctx : i \in B2[d]
                                  \/ i \in U \/ i \in W \/ i \in L
  BY <1>1 DEF Partition
<1> QED BY <1>2, <1>3, <1>4 DEF Partition

\* The copy of context c goes to the serial driver (X) or is lost (Y).
LEMMA PartitionWrite ==
  ASSUME NEW B, NEW B2, NEW U, NEW W, NEW L, NEW T, NEW X, NEW Y, NEW c \in Ctx,
         Partition(B, U, W, L, T), B[c] = X \cup Y, X \cap Y = {},
         B2[c] = {}, \A d \in Ctx \ {c} : B2[d] = B[d]
  PROVE  Partition(B2, U \cup X, W, L \cup Y, T)
<1>1. \A c1, d \in Ctx : c1 # d => B2[c1] \cap B2[d] = {}
  <2> SUFFICES ASSUME NEW c1 \in Ctx, NEW d \in Ctx, c1 # d, NEW y \in B2[c1], y \in B2[d]
               PROVE  FALSE
    OBVIOUS
  <2> QED BY DEF Partition
<1>2. ASSUME NEW d \in Ctx, NEW y \in B2[d]
      PROVE  y \notin U \cup X /\ y \notin W /\ y \notin L \cup Y
  <2>1. d # c /\ B2[d] = B[d]
    BY <1>2
  <2> QED BY <2>1, <1>2 DEF Partition
<1>3. (U \cup X) \cap W = {} /\ (U \cup X) \cap (L \cup Y) = {} /\ W \cap (L \cup Y) = {}
  <2>1. \A y : y \in X \cup Y => y \notin U /\ y \notin W /\ y \notin L
    BY DEF Partition
  <2>2. U \cap W = {} /\ U \cap L = {} /\ W \cap L = {}
    BY DEF Partition
  <2> QED BY <2>1, <2>2
<1>4. ASSUME NEW i
      PROVE  i \in T <=> \/ \E d \in Ctx : i \in B2[d]
                         \/ i \in U \cup X \/ i \in W \/ i \in L \cup Y
  <2>1. i \in T <=> \/ \E d \in Ctx : i \in B[d]
                    \/ i \in U \/ i \in W \/ i \in L
    BY DEF Partition
  <2>2. (\E d \in Ctx : i \in B[d])
          <=> (\E d \in Ctx : i \in B2[d]) \/ i \in X \/ i \in Y
    OBVIOUS
  <2> QED BY <2>1, <2>2
<1>5. \A d \in Ctx : /\ B2[d] \cap (U \cup X) = {} /\ B2[d] \cap W = {}
                     /\ B2[d] \cap (L \cup Y) = {}
  BY <1>2
<1> QED BY <1>1, <1>3, <1>4, <1>5 DEF Partition

\* The port sends byte h.
LEMMA PartitionSend ==
  ASSUME NEW B, NEW U, NEW V, NEW W, NEW L, NEW T, NEW h,
         Partition(B, U, W, L, T), U = {h} \cup V, h \notin V
  PROVE  Partition(B, V, W \cup {h}, L, T)
<1>1. \A d \in Ctx : h \notin B[d]
  BY DEF Partition
<1>2. h \notin W /\ h \notin L
  BY DEF Partition
<1>3. \A d \in Ctx : /\ B[d] \cap V = {} /\ B[d] \cap (W \cup {h}) = {}
                     /\ B[d] \cap L = {}
  BY <1>1 DEF Partition
<1>4. V \cap (W \cup {h}) = {} /\ V \cap L = {} /\ (W \cup {h}) \cap L = {}
  BY <1>2 DEF Partition
<1>5. ASSUME NEW i
      PROVE  i \in T <=> \/ \E c \in Ctx : i \in B[c]
                         \/ i \in V \/ i \in W \cup {h} \/ i \in L
  BY DEF Partition
<1> QED BY <1>3, <1>4, <1>5 DEF Partition

\* What each context has copied.
copied == [c \in Ctx |-> Elems(buf[c])]

\* The bytes that have left the ring are 1 .. enq - used; they are divided
\* between the copies, the serial driver, the wire and the lost ones, and no
\* sequence holds one of them twice.
OnceInv ==
  /\ Partition(copied, Elems(uart), Elems(wire), lost, 1 .. enq - used)
  /\ \A c \in Ctx : Distinct(buf[c])
  /\ Distinct(uart) /\ Distinct(wire)
  /\ used <= enq

\* A step that neither takes a byte nor moves one keeps the division.
LEMMA OnceSame ==
  ASSUME OnceInv, UNCHANGED <<buf, uart, wire, lost>>,
         enq' - used' = enq - used, used' <= enq'
  PROVE  OnceInv'
<1>1. copied' = copied
  BY DEF copied
<1> QED BY <1>1 DEF OnceInv

\* The byte write_wakeup takes is the one after those that have left the
\* ring before it.
LEMMA TakenByte ==
  ASSUME IInv, OnceInv, NEW c \in Ctx, TakeByte(c)
  PROVE  /\ used' = used - 1 /\ enq' = enq
         /\ used \in Nat /\ used > 0 /\ enq \in Nat
         /\ tx_buf[tx_start] = enq - used + 1 /\ tx_buf[tx_start] \in Nat
         /\ \A y \in 1 .. enq - used : y < tx_buf[tx_start]
<1>1. used \in Index /\ used # 0 /\ used' = used - 1 /\ enq' = enq
  BY RingUsed DEF IInv, TypeOK, TakeByte, MoreToTake, used
<1>2. used \in Nat /\ used > 0 /\ enq \in Nat /\ 0 \in Index
  BY <1>1, SizeAssumption DEF Index, IInv, TypeOK
<1>3. tx_buf[tx_start] = enq - used + 1 /\ tx_buf[tx_start] \in Nat
  <2>1. 0 \in 0 .. used - 1
    BY <1>2
  <2>2. tx_buf[Slot(tx_start, 0)] = enq - used + 1 + 0
    BY <2>1 DEF IInv, RingFifo
  <2>3. Slot(tx_start, 0) = tx_start
    <3>1. tx_start \in Index /\ tx_start \in Nat /\ tx_start < TUXCTL_BUFSIZE
      BY SizeAssumption DEF IInv, TypeOK, Index
    <3> QED BY <3>1, <1>2, RingArith
  <2>4. tx_buf[tx_start] \in Nat
    BY DEF IInv, TypeOK
  <2> QED BY <2>2, <2>3, <2>4, <1>2
<1> QED BY <1>1, <1>2, <1>3

LEMMA OnceTake ==
  ASSUME IInv, OnceInv, NEW c \in Ctx, TakeByte(c)
  PROVE  OnceInv'
<1> DEFINE x == tx_buf[tx_start]
<1>1. used' = used - 1 /\ enq' = enq
  BY TakenByte
<1>2. used \in Nat /\ used > 0 /\ enq \in Nat
  BY TakenByte
<1>3. x = enq - used + 1 /\ x \in Nat
  BY TakenByte
<1>4. /\ buf[c] \in Seq(Nat) /\ buf \in [Ctx -> Seq(Nat)]
      /\ buf' = [buf EXCEPT ![c] = Append(@, x)]
      /\ UNCHANGED <<uart, wire, lost>>
  BY DEF IInv, TypeOK, TakeByte, serialVars
<1> HIDE DEF x
<1>5. /\ x \notin 1 .. enq - used
      /\ 1 .. enq' - used' = (1 .. enq - used) \cup {x}
      /\ used' <= enq'
  <2>1. PICK t \in Nat : t = enq - used
    BY <1>2 DEF OnceInv
  <2>2. x = t + 1 /\ enq' - used' = t + 1 /\ used' <= enq'
    BY <1>1, <1>2, <1>3, <2>1
  <2>3. x \notin 1 .. t /\ 1 .. t + 1 = (1 .. t) \cup {x}
    BY <2>2
  <2> QED BY <2>1, <2>2, <2>3
<1>6. x \notin Elems(buf[c])
  <2>1. Elems(buf[c]) = copied[c]
    BY DEF copied
  <2> QED BY <2>1, <1>5 DEF OnceInv, Partition
<1>7. /\ Elems(Append(buf[c], x)) = Elems(buf[c]) \cup {x}
      /\ Distinct(Append(buf[c], x))
  BY <1>3, <1>4, <1>6, AppendElems DEF OnceInv
<1>8. /\ copied'[c] = copied[c] \cup {x}
      /\ \A d \in Ctx \ {c} : copied'[d] = copied[d]
  BY <1>4, <1>7 DEF copied
<1>9. Partition(copied', Elems(uart), Elems(wire), lost, (1 .. enq - used) \cup {x})
  <2>1. PICK T : T = 1 .. enq - used
    OBVIOUS
  <2>2. Partition(copied, Elems(uart), Elems(wire), lost, T) /\ x \notin T
    BY <2>1, <1>5 DEF OnceInv
  <2>3. Partition(copied', Elems(uart), Elems(wire), lost, T \cup {x})
    BY <2>2, <1>8, PartitionTake
  <2> QED BY <2>1, <2>3
<1>10. \A d \in Ctx : Distinct(buf'[d])
  BY <1>4, <1>7 DEF OnceInv
<1> QED BY <1>4, <1>5, <1>9, <1>10 DEF OnceInv

LEMMA OnceWrite ==
  ASSUME IInv, OnceInv, NEW c \in Ctx, DriverWrite(c)
  PROVE  OnceInv'
<1> DEFINE k == Accepted(buf[c])
           X == Elems(SubSeq(buf[c], 1, k))
           Y == { buf[c][i] : i \in k + 1 .. Len(buf[c]) }
<1>1. /\ buf[c] \in Seq(Nat) /\ buf \in [Ctx -> Seq(Nat)] /\ uart \in Seq(Nat)
      /\ buf' = [buf EXCEPT ![c] = << >>]
      /\ uart' = uart \o SubSeq(buf[c], 1, k)
      /\ lost' = lost \cup Y
      /\ UNCHANGED <<wire, tx_start, tx_end, enq>>
  BY DEF IInv, TypeOK, DriverWrite, ringVars
<1>2. k \in 0 .. Len(buf[c])
  BY SizeAssumption DEF Accepted, IInv, TypeOK
<1>3. /\ SubSeq(buf[c], 1, k) \in Seq(Nat)
      /\ Elems(buf[c]) = X \cup Y
      /\ Distinct(SubSeq(buf[c], 1, k)) /\ X \cap Y = {}
  BY <1>1, <1>2, SplitElems DEF OnceInv
<1>4. Elems(uart) \cap X = {}
  <2>1. copied[c] = X \cup Y
    BY <1>3 DEF copied
  <2> QED BY <2>1 DEF OnceInv, Partition
<1>5. Elems(uart') = Elems(uart) \cup X /\ Distinct(uart')
  BY <1>1, <1>3, <1>4, ConcatElems DEF OnceInv
<1>6. Elems(<< >>) = {} /\ Distinct(<< >>)
  BY DEF Elems, Distinct
<1>7. /\ copied[c] = X \cup Y /\ copied'[c] = {}
      /\ \A d \in Ctx \ {c} : copied'[d] = copied[d]
  BY <1>1, <1>3, <1>6 DEF copied
<1>8. \A d \in Ctx : Distinct(buf'[d])
  BY <1>1, <1>6 DEF OnceInv
<1>9. used' = used
  BY <1>1 DEF used
<1> HIDE DEF k, X, Y
<1>10. Partition(copied', Elems(uart) \cup X, Elems(wire), lost \cup Y, 1 .. enq - used)
  BY <1>3, <1>7, PartitionWrite DEF OnceInv
<1> QED BY <1>1, <1>5, <1>8, <1>9, <1>10 DEF OnceInv

LEMMA OnceSend ==
  ASSUME IInv, OnceInv, UartSend
  PROVE  OnceInv'
<1>1. /\ uart \in Seq(Nat) /\ uart # << >> /\ wire \in Seq(Nat)
      /\ uart' = Tail(uart) /\ wire' = Append(wire, Head(uart))
      /\ UNCHANGED <<buf, lost, tx_start, tx_end, enq>>
  BY DEF IInv, TypeOK, UartSend, ringVars
<1>2. /\ Elems(uart) = {Head(uart)} \cup Elems(uart')
      /\ Distinct(uart') /\ Head(uart) \notin Elems(uart')
  BY <1>1, HeadElems DEF OnceInv
<1>3. Head(uart) \in Nat
  BY <1>1, HeadTailProperties
<1>4. Head(uart) \notin Elems(wire)
  BY <1>2 DEF OnceInv, Partition
<1>5. Elems(wire') = Elems(wire) \cup {Head(uart)} /\ Distinct(wire')
  BY <1>1, <1>3, <1>4, AppendElems DEF OnceInv
<1>6. copied' = copied /\ used' = used
  BY <1>1 DEF copied, used
<1>7. Partition(copied, Elems(uart'), Elems(wire) \cup {Head(uart)}, lost, 1 .. enq - used)
  BY <1>2, PartitionSend DEF OnceInv
<1> QED BY <1>1, <1>2, <1>5, <1>6, <1>7 DEF OnceInv

LEMMA OnceNext == IInv /\ OnceInv /\ [Next]_vars => OnceInv'
<1> SUFFICES ASSUME IInv, OnceInv, [Next]_vars PROVE OnceInv'
  OBVIOUS
<1>1. ASSUME UNCHANGED <<ringVars, buf, serialVars>> PROVE OnceInv'
  <2>1. used' = used /\ enq' = enq
    BY <1>1 DEF ringVars, used
  <2> QED BY <1>1, <2>1, OnceSame DEF OnceInv, serialVars
<1>2. ASSUME NEW c \in Putter, PutByte(c) PROVE OnceInv'
  <2>1. used' = used + 1 /\ enq' = enq + 1
    BY <1>2, RingUsed DEF IInv, TypeOK, PutByte, used
  <2>2. enq' - used' = enq - used /\ used' <= enq'
    <3>1. used \in Int /\ enq \in Int
      BY RingUsed, SizeAssumption DEF IInv, TypeOK, used, Index
    <3> QED BY <2>1, <3>1 DEF OnceInv
  <2> QED BY <1>2, <2>2, OnceSame DEF PutByte, serialVars
<1>3. CASE \E c \in Putter : tuxctl_ldisc_put(c)
  BY <1>1, <1>2, <1>3
  DEF tuxctl_ldisc_put, PutCall, PutLock, PutUnlock, SpinLock
<1>4. CASE \E c \in Ctx : tuxctl_ldisc_write_wakeup(c)
  BY <1>1, <1>4, OnceTake, OnceWrite
  DEF tuxctl_ldisc_write_wakeup, WriteRoom, TakeLock, TakeUnlock, SpinLock
<1>5. CASE \E c \in Waker : WakeCall(c)
  BY <1>1, <1>5 DEF WakeCall
<1>6. CASE UartSend
  BY <1>6, OnceSend
<1>7. CASE UNCHANGED vars
  BY <1>1, <1>7 DEF vars
<1> QED BY <1>3, <1>4, <1>5, <1>6, <1>7 DEF Next

LEMMA OnceInit == Init => OnceInv
<1> SUFFICES ASSUME Init PROVE OnceInv
  OBVIOUS
<1>1. Elems(<< >>) = {} /\ Distinct(<< >>)
  BY DEF Elems, Distinct
<1>2. 1 .. enq - used = {} /\ used <= enq
  BY DEF Init, used, buf_used
<1>3. \A c \in Ctx : copied[c] = {} /\ Distinct(buf[c])
  BY <1>1 DEF copied, Init
<1>4. uart = << >> /\ wire = << >> /\ lost = {}
  BY DEF Init
<1>5. Partition(copied, {}, {}, {}, {})
  BY <1>3 DEF Partition
<1> QED BY <1>1, <1>2, <1>3, <1>4, <1>5 DEF OnceInv

LEMMA OnceAlways == Spec => [](IInv /\ OnceInv)
  BY Inductive, OnceInit, OnceNext, PTL DEF Spec

\* The one place of byte i, in the ring or outside it.
LEMMA OnePlace ==
  ASSUME IInv, OnceInv, NEW i \in 1 .. enq
  PROVE  \E p : Occurrences(i) = {p}
<1> DEFINE ring == { j \in 0 .. used - 1 : tx_buf[Slot(tx_start, j)] = i }
           held(c) == { j \in DOMAIN buf[c] : buf[c][j] = i }
           inUart == { j \in DOMAIN uart : uart[j] = i }
           inWire == { j \in DOMAIN wire : wire[j] = i }
           P1 == { <<"ring", k>> : k \in ring }
           P2 == UNION { { <<c, k>> : k \in held(c) } : c \in Ctx }
           P3 == { <<"uart", k>> : k \in inUart }
           P4 == { <<"wire", k>> : k \in inWire }
           P5 == { <<"lost", 0>> : x \in lost \cap {i} }
<1>1. /\ used \in Nat /\ enq \in Nat /\ buf \in [Ctx -> Seq(Nat)]
      /\ uart \in Seq(Nat) /\ wire \in Seq(Nat)
  <2>1. used \in Index
    BY RingUsed DEF IInv, TypeOK, used
  <2> QED BY <2>1, SizeAssumption DEF Index, IInv, TypeOK
<1>2. i \in Nat /\ i >= 1 /\ i <= enq
  BY <1>1
<1>3. /\ \A c \in Ctx : held(c) # {} <=> i \in copied[c]
      /\ inUart # {} <=> i \in Elems(uart)
      /\ inWire # {} <=> i \in Elems(wire)
  BY <1>1 DEF copied, Elems
<1>4. /\ \A c \in Ctx : \A j, k \in held(c) : j = k
      /\ \A j, k \in inUart : j = k
      /\ \A j, k \in inWire : j = k
  <2>1. /\ \A c \in Ctx : DOMAIN buf[c] = 1 .. Len(buf[c])
        /\ DOMAIN uart = 1 .. Len(uart) /\ DOMAIN wire = 1 .. Len(wire)
    BY <1>1
  <2>2. ASSUME NEW q, DOMAIN q = 1 .. Len(q), Distinct(q),
               NEW j \in { d \in DOMAIN q : q[d] = i }, NEW k \in { d \in DOMAIN q : q[d] = i }
        PROVE  j = k
    BY <2>2 DEF Distinct
  <2> QED BY <2>1, <2>2, Zenon DEF OnceInv
<1>5. \A j \in ring : i > enq - used /\ j = i - (enq - used + 1)
  BY <1>1, <1>2 DEF IInv, RingFifo
<1>6. Occurrences(i) = P1 \cup P2 \cup P3 \cup P4 \cup P5
  BY DEF Occurrences
<1>7. Partition(copied, Elems(uart), Elems(wire), lost, 1 .. enq - used)
  BY DEF OnceInv
<1>8. CASE i > enq - used
  <2> DEFINE k == i - (enq - used + 1)
  <2>1. k \in 0 .. used - 1 /\ enq - used + 1 + k = i
    BY <1>1, <1>2, <1>8
  <2>2. k \in ring
    BY <2>1 DEF IInv, RingFifo
  <2> HIDE DEF k
  <2>3. ring = {k}
    BY <2>2, <1>5 DEF k
  <2>4. i \notin 1 .. enq - used
    BY <1>1, <1>2, <1>8
  <2>5. /\ \A c \in Ctx : held(c) = {}
        /\ inUart = {} /\ inWire = {} /\ lost \cap {i} = {}
    BY <2>4, <1>3, <1>7 DEF Partition
  <2> HIDE DEF ring, held, inUart, inWire
  <2>6. Occurrences(i) = { <<"ring", k>> }
    BY <1>6, <2>3, <2>5
  <2> QED BY <2>6
<1>9. CASE ~(i > enq - used)
  <2>1. ring = {}
    BY <1>5, <1>9
  <2>2. i \in 1 .. enq - used
    BY <1>1, <1>2, <1>9
  <2> HIDE DEF ring
  <2>3. CASE \E c \in Ctx : i \in copied[c]
    <3>1. PICK c \in Ctx : i \in copied[c]
      BY <2>3
    <3>2. PICK k : k \in held(c)
      BY <3>1, <1>3
    <3>3. held(c) = {k}
      BY <3>2, <1>4
    <3>4. /\ \A d \in Ctx : d # c => held(d) = {}
          /\ inUart = {} /\ inWire = {} /\ lost \cap {i} = {}
      BY <3>1, <1>3, <1>7 DEF Partition
    <3> HIDE DEF held, inUart, inWire
    <3>5. P2 = { <<c, k>> }
      BY <3>3, <3>4
    <3>6. Occurrences(i) = { <<c, k>> }
      BY <1>6, <2>1, <3>4, <3>5
    <3> QED BY <3>6
  <2>4. CASE i \in Elems(uart)
    <3>1. PICK k : k \in inUart
      BY <2>4, <1>3
    <3>2. inUart = {k}
      BY <3>1, <1>4
    <3>3. /\ \A d \in Ctx : held(d) = {}
          /\ inWire = {} /\ lost \cap {i} = {}
      BY <2>4, <1>3, <1>7 DEF Partition
    <3> HIDE DEF held, inUart, inWire
    <3>4. Occurrences(i) = { <<"uart", k>> }
      <4>1. P2 = {}
        BY <3>3
      <4>2. P3 = { <<"uart", k>> }
        BY <3>2
      <4>3. /\ P1 = {}
            /\ P4 = {}
            /\ P5 = {}
        BY <2>1, <3>3
      <4> HIDE DEF P1, P2, P3, P4, P5
      <4> QED BY <1>6, <4>1, <4>2, <4>3
    <3> QED BY <3>4
  <2>5. CASE i \in Elems(wire)
    <3>1. PICK k : k \in inWire
      BY <2>5, <1>3
    <3>2. inWire = {k}
      BY <3>1, <1>4
    <3>3. /\ \A d \in Ctx : held(d) = {}
          /\ inUart = {} /\ lost \cap {i} = {}
      BY <2>5, <1>3, <1>7 DEF Partition
    <3> HIDE DEF held, inUart, inWire
    <3>4. Occurrences(i) = { <<"wire", k>> }
      <4>1. P2 = {}
        BY <3>3
      <4>2. P4 = { <<"wire", k>> }
        BY <3>2
      <4>3. /\ P1 = {}
            /\ P3 = {}
            /\ P5 = {}
        BY <2>1, <3>3
      <4> HIDE DEF P1, P2, P3, P4, P5
      <4> QED BY <1>6, <4>1, <4>2, <4>3
    <3> QED BY <3>4
  <2>6. CASE i \in lost
    <3>1. lost \cap {i} = {i}
      BY <2>6
    <3>2. /\ \A d \in Ctx : held(d) = {}
          /\ inUart = {} /\ inWire = {}
      BY <2>6, <1>3, <1>7 DEF Partition
    <3> HIDE DEF held, inUart, inWire
    <3>3. Occurrences(i) = { <<"lost", 0>> }
      <4>1. P2 = {}
        BY <3>2
      <4>2. P5 = { <<"lost", 0>> }
        BY <3>1
      <4>3. /\ P1 = {}
            /\ P3 = {}
            /\ P4 = {}
        BY <2>1, <3>2
      <4> HIDE DEF P1, P2, P3, P4, P5
      <4> QED BY <1>6, <4>1, <4>2, <4>3
    <3> QED BY <3>3
  <2> QED BY <2>2, <2>3, <2>4, <2>5, <2>6, <1>7 DEF Partition
<1> QED BY <1>8, <1>9

\* However put and write_wakeup interleave, every byte stored in the ring is
\* in exactly one place: sent at most once, and gone only where driver->write
\* had no room for it.
THEOREM EveryByteOnce == Spec => []EachByteOnce
<1>1. IInv /\ OnceInv => EachByteOnce
  <2> SUFFICES ASSUME IInv, OnceInv, NEW i \in 1 .. enq
               PROVE  Cardinality(Occurrences(i)) = 1
    BY DEF EachByteOnce
  <2>1. PICK p : Occurrences(i) = {p}
    BY OnePlace
  <2> QED BY <2>1, FS_Singleton
<1> QED BY <1>1, OnceAlways, PTL

-----------------------------------------------------------------------------
(* The order on the wire: what run tx_reorder refutes holds as long as no  *)
(* two contexts have bytes of the ring in their local copies at once.      *)

\* At most one context is between taking the lock of write_wakeup and the
\* return of driver->write, the stretch the code would have to serialise.
OneWriter == \A c, d \in Ctx : /\ pc[c] \in {"take", "write"}
                               /\ pc[d] \in {"take", "write"}
                               => c = d

Increasing(s) == \A i, j \in 1 .. Len(s) : i < j => s[i] < s[j]

Below(s, t) == \A i \in 1 .. Len(s), j \in 1 .. Len(t) : s[i] < t[j]

\* The wire, the serial driver's buffer and the copy, one after the other,
\* are in the order of the ring.
OrderInv ==
  /\ Increasing(wire) /\ Increasing(uart) /\ Below(wire, uart)
  /\ \A c \in Ctx : /\ Increasing(buf[c])
                    /\ Below(wire, buf[c]) /\ Below(uart, buf[c])

\* Joining two sequences, the first below the second.
LEMMA ConcatIncreasing ==
  ASSUME NEW s \in Seq(Nat), NEW r \in Seq(Nat), NEW q \in Seq(Nat),
         Increasing(s), Increasing(r), Below(s, r), Below(q, s), Below(q, r)
  PROVE  Increasing(s \o r) /\ Below(q, s \o r)
<1> DEFINE t == s \o r
           a == Len(s)
           b == Len(r)
<1>1. /\ t \in Seq(Nat) /\ Len(t) = a + b /\ a \in Nat /\ b \in Nat
      /\ \A i \in 1 .. a : t[i] = s[i]
      /\ \A i \in 1 .. b : t[a + i] = r[i]
  BY ConcatProperties
<1> HIDE DEF t, a, b
<1>2. ASSUME NEW i \in 1 .. Len(t)
      PROVE  (i \in 1 .. a /\ t[i] = s[i]) \/ (i > a /\ i - a \in 1 .. b /\ t[i] = r[i - a])
  <2>1. i \in 1 .. a \/ (i > a /\ i - a \in 1 .. b /\ a + (i - a) = i)
    BY <1>1
  <2> QED BY <2>1, <1>1
<1>3. ASSUME NEW i \in 1 .. Len(t), NEW j \in 1 .. Len(t), i < j
      PROVE  t[i] < t[j]
  <2>1. CASE i \in 1 .. a /\ t[i] = s[i] /\ j \in 1 .. a /\ t[j] = s[j]
    BY <1>3, <2>1 DEF Increasing, a
  <2>2. CASE i \in 1 .. a /\ t[i] = s[i] /\ j > a /\ j - a \in 1 .. b /\ t[j] = r[j - a]
    BY <2>2 DEF Below, a, b
  <2>3. CASE i > a /\ i - a \in 1 .. b /\ t[i] = r[i - a] /\ j > a /\ j - a \in 1 .. b /\ t[j] = r[j - a]
    <3>1. i - a < j - a
      BY <1>1, <1>3
    <3> QED BY <3>1, <2>3 DEF Increasing, b
  <2>4. ~(i > a /\ j \in 1 .. a)
    BY <1>1, <1>3
  <2> QED BY <1>2, <2>1, <2>2, <2>3, <2>4
<1>4. ASSUME NEW i \in 1 .. Len(q), NEW j \in 1 .. Len(t)
      PROVE  q[i] < t[j]
  BY <1>2 DEF Below, a, b
<1> QED BY <1>3, <1>4 DEF Increasing, Below, t

\* Appending a byte above all others.
LEMMA AppendIncreasing ==
  ASSUME NEW s \in Seq(Nat), NEW x \in Nat,
         Increasing(s), \A y \in Elems(s) : y < x
  PROVE  Increasing(Append(s, x))
<1> DEFINE t == Append(s, x)
<1>1. /\ Len(t) = Len(s) + 1 /\ Len(s) \in Nat
      /\ \A i \in 1 .. Len(s) : t[i] = s[i]
      /\ t[Len(s) + 1] = x
  BY AppendProperties
<1> HIDE DEF t
<1>2. \A i \in 1 .. Len(s) : s[i] < x
  BY DEF Elems
<1>3. ASSUME NEW i \in 1 .. Len(t), NEW j \in 1 .. Len(t), i < j
      PROVE  t[i] < t[j]
  <2>1. i \in 1 .. Len(s) /\ (j \in 1 .. Len(s) \/ j = Len(s) + 1)
    BY <1>1, <1>3
  <2> QED BY <2>1, <1>1, <1>2, <1>3 DEF Increasing
<1> QED BY <1>3 DEF Increasing, t

\* Below, in terms of the elements.
LEMMA BelowElems ==
  ASSUME NEW s, NEW t
  PROVE  Below(s, t) <=> \A x \in Elems(s), y \in Elems(t) : x < y
<1>1. \A i \in 1 .. Len(s) : s[i] \in Elems(s)
  BY DEF Elems
<1>2. \A i \in 1 .. Len(t) : t[i] \in Elems(t)
  BY DEF Elems
<1>3. \A x \in Elems(s) : \E i \in 1 .. Len(s) : x = s[i]
  BY DEF Elems
<1>4. \A x \in Elems(t) : \E i \in 1 .. Len(t) : x = t[i]
  BY DEF Elems
<1> QED BY <1>1, <1>2, <1>3, <1>4, Zenon DEF Below

LEMMA OrderTake ==
  ASSUME IInv, OnceInv, OrderInv, NEW c \in Ctx, TakeByte(c)
  PROVE  OrderInv'
<1> DEFINE x == tx_buf[tx_start]
<1>1. /\ buf[c] \in Seq(Nat) /\ buf \in [Ctx -> Seq(Nat)] /\ x \in Nat
      /\ buf' = [buf EXCEPT ![c] = Append(@, x)]
      /\ UNCHANGED <<uart, wire>>
  BY DEF IInv, TypeOK, TakeByte, serialVars
<1>2. \A y \in 1 .. enq - used : y < x
  BY TakenByte
<1> HIDE DEF x
<1>3. /\ \A y \in Elems(buf[c]) : y < x
      /\ \A y \in Elems(uart) : y < x
      /\ \A y \in Elems(wire) : y < x
  <2>1. Elems(buf[c]) = copied[c]
    BY DEF copied
  <2> QED BY <2>1, <1>2 DEF OnceInv, Partition
<1>4. Increasing(Append(buf[c], x)) /\ Elems(Append(buf[c], x)) = Elems(buf[c]) \cup {x}
  BY <1>1, <1>3, AppendIncreasing, AppendElems DEF OrderInv
<1>5. Below(wire, Append(buf[c], x)) /\ Below(uart, Append(buf[c], x))
  <2>1. Below(wire, buf[c]) /\ Below(uart, buf[c])
    BY DEF OrderInv
  <2> QED BY <2>1, <1>3, <1>4, BelowElems
<1> QED BY <1>1, <1>4, <1>5 DEF OrderInv

LEMMA OrderWrite ==
  ASSUME IInv, OrderInv, OneWriter, NEW c \in Ctx, DriverWrite(c)
  PROVE  OrderInv'
<1> DEFINE k == Accepted(buf[c])
           t == SubSeq(buf[c], 1, k)
<1>1. /\ buf[c] \in Seq(Nat) /\ buf \in [Ctx -> Seq(Nat)] /\ uart \in Seq(Nat)
      /\ wire \in Seq(Nat)
      /\ buf' = [buf EXCEPT ![c] = << >>]
      /\ uart' = uart \o t
      /\ wire' = wire
      /\ pc[c] = "write"
  BY DEF IInv, TypeOK, DriverWrite
<1>2. k \in 0 .. Len(buf[c])
  BY SizeAssumption DEF Accepted, IInv, TypeOK
<1>3. t \in Seq(Nat) /\ Len(t) = k /\ \A i \in 1 .. k : t[i] = buf[c][i]
  <2>1. \A i \in 1 .. k : buf[c][i] \in Nat
    BY <1>1, <1>2, ElementOfSeq
  <2> QED BY <1>1, <1>2, <2>1, SubSeqProperties
<1> HIDE DEF k, t
<1>4. \A i \in 1 .. k : i \in 1 .. Len(buf[c])
  BY <1>1, <1>2
<1>5. Increasing(t) /\ Below(uart, t) /\ Below(wire, t)
  BY <1>3, <1>4 DEF OrderInv, Increasing, Below
<1>6. Increasing(uart') /\ Below(wire, uart')
  BY <1>1, <1>3, <1>5, ConcatIncreasing DEF OrderInv
<1>7. ASSUME NEW d \in Ctx PROVE buf'[d] = << >>
  <2>1. CASE d = c
    BY <2>1, <1>1
  <2>2. CASE d # c
    <3>1. pc[d] \notin {"take", "write"}
      BY <2>2, <1>1 DEF OneWriter
    <3> QED BY <3>1, <2>2, <1>1 DEF IInv, BufInv
  <2> QED BY <2>1, <2>2
<1>8. \A q : Increasing(<< >>) /\ Below(q, << >>)
  BY DEF Increasing, Below
<1> QED BY <1>1, <1>6, <1>7, <1>8 DEF OrderInv

LEMMA OrderSend ==
  ASSUME IInv, OrderInv, UartSend
  PROVE  OrderInv'
<1>1. /\ uart \in Seq(Nat) /\ uart # << >> /\ wire \in Seq(Nat)
      /\ uart' = Tail(uart) /\ wire' = Append(wire, Head(uart))
      /\ buf' = buf
  BY DEF IInv, TypeOK, UartSend
<1>2. PICK h \in Nat : h = Head(uart)
  BY <1>1, HeadTailProperties
<1>3. Elems(uart) = {h} \cup Elems(uart')
  BY <1>1, <1>2, HeadElems
<1>4. Elems(wire') = Elems(wire) \cup {h}
  BY <1>1, <1>2, AppendElems
<1>5. /\ Len(uart) \in Nat /\ Len(uart) >= 1 /\ h = uart[1]
      /\ Len(uart') = Len(uart) - 1
      /\ \A i \in 1 .. Len(uart') : uart'[i] = uart[i + 1]
  BY <1>1, <1>2, HeadTailProperties, EmptySeq
<1>6. \A i \in 1 .. Len(uart') : i + 1 \in 1 .. Len(uart) /\ 1 < i + 1
  BY <1>5
<1>7. Increasing(uart')
  <2> SUFFICES ASSUME NEW i \in 1 .. Len(uart'), NEW j \in 1 .. Len(uart'), i < j
               PROVE  uart'[i] < uart'[j]
    BY DEF Increasing
  <2>1. i + 1 < j + 1
    OBVIOUS
  <2> QED BY <2>1, <1>5, <1>6 DEF OrderInv, Increasing
<1>8. \A y \in Elems(uart') : h < y
  <2> SUFFICES ASSUME NEW i \in 1 .. Len(uart') PROVE h < uart'[i]
    BY DEF Elems
  <2>1. 1 \in 1 .. Len(uart)
    BY <1>5
  <2> QED BY <2>1, <1>5, <1>6 DEF OrderInv, Increasing
<1>9. \A y \in Elems(wire) : y < h
  BY <1>3, BelowElems DEF OrderInv
<1>10. Increasing(wire')
  BY <1>1, <1>2, <1>9, AppendIncreasing DEF OrderInv
<1>11. Below(wire', uart')
  <2>1. Below(wire, uart)
    BY DEF OrderInv
  <2> QED BY <2>1, <1>3, <1>4, <1>8, BelowElems
<1>12. ASSUME NEW c \in Ctx
       PROVE  Increasing(buf[c]) /\ Below(wire', buf[c]) /\ Below(uart', buf[c])
  <2>1. Increasing(buf[c]) /\ Below(wire, buf[c]) /\ Below(uart, buf[c])
    BY DEF OrderInv
  <2> QED BY <2>1, <1>3, <1>4, BelowElems
<1> QED BY <1>1, <1>7, <1>10, <1>11, <1>12 DEF OrderInv

LEMMA OrderNext ==
  IInv /\ OnceInv /\ OrderInv /\ OneWriter /\ [Next]_vars => OrderInv'
<1> SUFFICES ASSUME IInv, OnceInv, OrderInv, OneWriter, [Next]_vars PROVE OrderInv'
  OBVIOUS
<1>1. ASSUME UNCHANGED <<buf, serialVars>> PROVE OrderInv'
  BY <1>1 DEF OrderInv, serialVars
<1>2. CASE \E c \in Putter : tuxctl_ldisc_put(c)
  BY <1>1, <1>2
  DEF tuxctl_ldisc_put, PutCall, PutLock, PutByte, PutUnlock, SpinLock
<1>3. CASE \E c \in Ctx : tuxctl_ldisc_write_wakeup(c)
  BY <1>1, <1>3, OrderTake, OrderWrite
  DEF tuxctl_ldisc_write_wakeup, WriteRoom, TakeLock, TakeUnlock, SpinLock
<1>4. CASE \E c \in Waker : WakeCall(c)
  BY <1>1, <1>4 DEF WakeCall
<1>5. CASE UartSend
  BY <1>5, OrderSend
<1>6. CASE UNCHANGED vars
  BY <1>1, <1>6 DEF vars
<1> QED BY <1>2, <1>3, <1>4, <1>5, <1>6 DEF Next

\* Bytes reach the controller in the order put stored them in every
\* behaviour in which the copies of two contexts never coexist: the missing
\* serialisation of driver->write is all there is to run tx_reorder.
THEOREM InOrderIfSerialised == Spec /\ []OneWriter => []InOrder
<1>1. Init => OrderInv
  <2> SUFFICES ASSUME Init PROVE OrderInv
    OBVIOUS
  <2>1. \A q : Increasing(<< >>) /\ Below(q, << >>)
    BY DEF Increasing, Below
  <2>2. /\ uart = << >> /\ wire = << >>
        /\ \A c \in Ctx : buf[c] = << >>
    BY DEF Init
  <2> QED BY <2>1, <2>2 DEF OrderInv
<1>2. IInv /\ OrderInv => InOrder
  <2> SUFFICES ASSUME IInv, OrderInv PROVE InOrder
    OBVIOUS
  <2>1. DOMAIN wire = 1 .. Len(wire)
    BY DEF IInv, TypeOK
  <2> QED BY <2>1 DEF OrderInv, Increasing, InOrder
<1> QED BY <1>1, <1>2, OnceAlways, OrderNext, PTL DEF Spec
=============================================================================
