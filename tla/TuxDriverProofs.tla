-------------------------- MODULE TuxDriverProofs ---------------------------
(***************************************************************************)
(* Proofs about TuxDriver, for any number of calls, button presses and     *)
(* resets, any time shown at the start, and every interleaving of ioctls,  *)
(* interrupts and the line.                                                *)
(***************************************************************************)
EXTENDS TuxDriver, SequenceTheorems, TLAPS

USE DriverAssumption

Leds == [1 .. 2 -> [1 .. 2 -> Nat]]

InitCommand == {<<"BIOC_ON">>, <<"LED_USR">>, <<"CLK_RESET">>, <<"CLK_UP">>}

Command == InitCommand \cup {<<"ZEROS">>} \cup {<<"LED_SET", leds>> : leds \in Leds}

Packet == {<<"ERROR">>, <<"RESET">>}
            \cup {<<"BIOC_EVENT", bytes>> : bytes \in [1 .. 2 -> Int]}

Controller == [bioc : BOOLEAN, usr : BOOLEAN, usr0 : BOOLEAN, leds : Leds,
               buttons : [1 .. 2 -> Int], lockup : BOOLEAN, dead : BOOLEAN]

\* The types of what the properties are about.
TypeOK ==
  /\ counter \in Nat
  /\ led_regular_buffer \in Leds /\ button_buffer \in [1 .. 2 -> Int]
  /\ ring \in Seq(Command) /\ held \in [Context -> Seq(Command)]
  /\ tx \in Seq(Command) /\ rx \in Seq(Packet) /\ cmds \in Seq(InitCommand)
  /\ newest \in {"ring", "sent"} \cup Context
  /\ upc = "init" => cmds # << >>
  /\ upc \in {"user", "init", "readA", "readB", "put", "save0", "save1"}
  /\ hpc \in {"idle", "leds", "buttons"}
  /\ hpc = "buttons" => pkt \in Packet /\ pkt[1] = "BIOC_EVENT"
  /\ dev \in Controller

\* Messages on the way: whether v is one, whether the last of a kind is v,
\* and whether there is none of a kind.
Has(q, v) == \E n \in 1 .. Len(q) : q[n] = v

Last(q, tag, v) == \E n \in 1 .. Len(q) :
                     q[n] = v /\ \A m \in n + 1 .. Len(q) : q[m][1] # tag

Lacks(q, tag) == \A n \in 1 .. Len(q) : q[n][1] # tag

\* What the LEDs were set to when the clock stood at count.
Shown(count) == IF count = 0 THEN Dark ELSE regular_buf(buf_time(count - 1))

Saving == upc \in {"save0", "save1"}

\* What the LEDs should show when all is quiet: the last command put.
Target == IF Saving THEN Display ELSE Shown(counter)

\* led_regular_buffer follows the commands, except inside TUX_SET_LED.
Saved == /\ ~Saving => led_regular_buffer = Shown(counter)
         /\ upc = "save1" => led_regular_buffer[1] = Display[1]

\* tuxctl_handle_packet has yet to restore the LEDs of a reset.
ResetPending == hpc = "leds" \/ Has(rx, <<"RESET">>)

\* The last command put that sets the LEDs sets them to leds; it is on its
\* way: the last in the ring, in the copy some context holds, or in tx.
LastSet(leds) ==
  \/ newest = "ring" /\ Last(ring, "LED_SET", <<"LED_SET", leds>>)
  \/ newest \in Context /\ Last(held[newest], "LED_SET", <<"LED_SET", leds>>)
  \/ newest = "sent" /\ Last(tx, "LED_SET", <<"LED_SET", leds>>)

\* It was carried out, and no other is on its way behind it.
Reached(leds) == newest = "sent" /\ Lacks(tx, "LED_SET") /\ dev.leds = leds

\* The target is on its way, or reached, or a reset will send it again.
LedsComing ==
  (counter > 0 \/ Saving) /\ ~raced /\ ~overtaken /\ ~dev.dead
    => ResetPending \/ LastSet(Target) \/ Reached(Target)

\* The controller's buttons are the last on the way, or being stored, or
\* stored.
ButtonsComing ==
  reported =>
    \/ Last(rx, "BIOC_EVENT", <<"BIOC_EVENT", dev.buttons>>)
    \/ /\ Lacks(rx, "BIOC_EVENT") /\ hpc = "buttons"
       /\ pkt = <<"BIOC_EVENT", dev.buttons>>
       /\ button_buffer[1] = dev.buttons[1]
    \/ /\ Lacks(rx, "BIOC_EVENT") /\ hpc # "buttons"
       /\ button_buffer = dev.buttons

IInv == TypeOK /\ Saved /\ LedsComing /\ ButtonsComing
-----------------------------------------------------------------------------
(* The conversion of the time. *)

\* The bytes of nums[] are not zero.
LEMMA NumsNat == \A d \in 0 .. 9 : nums[d + 1] \in Nat /\ nums[d + 1] # 0
<1> SUFFICES ASSUME NEW d \in 0 .. 9 PROVE nums[d + 1] \in Nat /\ nums[d + 1] # 0
  OBVIOUS
<1>1. d = 0 \/ d = 1 \/ d = 2 \/ d = 3 \/ d = 4 \/ d = 5 \/ d = 6 \/ d = 7 \/ d = 8 \/ d = 9
  OBVIOUS
<1> QED BY <1>1 DEF nums

\* The eight segments of an LED.
LEMMA Segments == DOMAIN Bit = {"A", "B", "C", "D", "E", "F", "G", "dp"}
  BY DEF Bit

\* The byte of a digit lights its segments, with or without the point.
LEMMA NumsLit ==
  ASSUME NEW d \in 0 .. 9
  PROVE  /\ Lit(nums[d + 1]) = Digit(d)
         /\ Lit(nums[d + 1] + 16) = Digit(d) \cup {"dp"}
<1> USE Segments DEF Lit, Digit, nums, Bit
<1>0. CASE d = 0
  BY <1>0
<1>1. CASE d = 1
  BY <1>1
<1>2. CASE d = 2
  BY <1>2
<1>3. CASE d = 3
  BY <1>3
<1>4. CASE d = 4
  BY <1>4
<1>5. CASE d = 5
  BY <1>5
<1>6. CASE d = 6
  BY <1>6
<1>7. CASE d = 7
  BY <1>7
<1>8. CASE d = 8
  BY <1>8
<1>9. CASE d = 9
  BY <1>9
<1> QED BY <1>0, <1>1, <1>2, <1>3, <1>4, <1>5, <1>6, <1>7, <1>8, <1>9

\* A zero byte lights nothing.
LEMMA DarkLit == Lit(0) = {}
  BY Segments DEF Lit, Bit

\* What display_time_on_tux and tuxctl_ioctl make of a time can be read, is
\* never dark, and is four bytes.
LEMMA Clock ==
  ASSUME NEW count \in Nat
  PROVE  /\ regular_buf(buf_time(count)) \in Leds
         /\ regular_buf(buf_time(count))[1] # Dark[1]
         /\ Reads(regular_buf(buf_time(count)), count)
<1> DEFINE minutes == IF count \div 60 > 99 THEN 0 ELSE count \div 60
           sec == count % 60
           s0 == sec % 10
           s1 == sec \div 10
           m0 == minutes % 10
           m1 == minutes \div 10
           leds == regular_buf(buf_time(count))
           led3 == IF minutes < 10 THEN 0 ELSE nums[m1 + 1]
<1>1. minutes \in 0 .. 99 /\ sec \in 0 .. 59
  OBVIOUS
<1>2. (count >= 6000) <=> (count \div 60 > 99)
  OBVIOUS
<1>3. minutes = IF count >= 6000 THEN 0 ELSE count \div 60
  BY <1>2
<1>4. leds = << <<nums[s0 + 1] + 0, nums[s1 + 1] + 0>>, <<nums[m0 + 1] + 16, led3 + 0>> >>
  <2> HIDE DEF nums
  <2> QED BY DEF regular_buf, buf_time
<1> HIDE DEF minutes, sec
<1>5. s0 \in 0 .. 9 /\ s1 \in 0 .. 9 /\ m0 \in 0 .. 9 /\ m1 \in 0 .. 9
  BY <1>1
<1> HIDE DEF s0, s1, m0, m1, leds
<1>6. /\ nums[s0 + 1] \in Nat /\ nums[s1 + 1] \in Nat /\ nums[m0 + 1] \in Nat
      /\ led3 \in Nat /\ nums[s0 + 1] # 0
  BY <1>5, NumsNat
<1>7. /\ leds[1][1] = nums[s0 + 1] /\ leds[1][2] = nums[s1 + 1]
      /\ leds[2][1] = nums[m0 + 1] + 16 /\ leds[2][2] = led3
  BY <1>4, <1>6
<1>8. leds \in Leds
  <2>1. ASSUME NEW p \in Nat, NEW q \in Nat PROVE <<p, q>> \in [1 .. 2 -> Nat]
    OBVIOUS
  <2>2. /\ <<nums[s0 + 1] + 0, nums[s1 + 1] + 0>> \in [1 .. 2 -> Nat]
        /\ <<nums[m0 + 1] + 16, led3 + 0>> \in [1 .. 2 -> Nat]
    BY <1>6, <2>1
  <2> QED BY <1>4, <2>2 DEF Leds
<1>9. leds[1] # Dark[1]
  BY <1>6, <1>7 DEF Dark
<1>10. Reads(leds, count)
  <2>1. Lit(leds[1][1]) = Digit(s0) /\ Lit(leds[1][2]) = Digit(s1)
    BY <1>5, <1>7, NumsLit
  <2>2. Lit(leds[2][1]) = Digit(m0) \cup {"dp"}
    BY <1>5, <1>7, NumsLit
  <2>3. Lit(leds[2][2]) = IF minutes < 10 THEN {} ELSE Digit(m1)
    BY <1>5, <1>7, NumsLit, DarkLit
  <2> QED BY <1>3, <2>1, <2>2, <2>3 DEF Reads, sec, s0, s1, m0, m1
<1> QED BY <1>8, <1>9, <1>10 DEF leds

-----------------------------------------------------------------------------
(* Queues of messages. *)

\* A message behind the others is the last of its kind.
LEMMA AppendLast ==
  ASSUME NEW S, NEW q \in Seq(S), NEW v \in S, NEW tag
  PROVE  Last(Append(q, v), tag, v)
<1> DEFINE t == Append(q, v)
<1>1. Len(t) = Len(q) + 1 /\ t[Len(q) + 1] = v /\ Len(q) \in Nat
  BY AppendProperties, LenProperties
<1> HIDE DEF t
<1>2. Len(q) + 1 \in 1 .. Len(t) /\ (Len(q) + 1) + 1 .. Len(t) = {}
  BY <1>1
<1> QED BY <1>1, <1>2 DEF Last, t

\* A message of another kind changes nothing.
LEMMA AppendOther ==
  ASSUME NEW S, NEW q \in Seq(S), NEW e \in S, NEW tag, e[1] # tag, NEW v
  PROVE  /\ Last(q, tag, v) => Last(Append(q, e), tag, v)
         /\ Lacks(q, tag) => Lacks(Append(q, e), tag)
<1> DEFINE t == Append(q, e)
<1>1. /\ Len(t) = Len(q) + 1 /\ t[Len(q) + 1] = e /\ Len(q) \in Nat
      /\ \A n \in 1 .. Len(q) : t[n] = q[n]
  BY AppendProperties, LenProperties
<1> HIDE DEF t
<1>2. \A n \in 1 .. Len(t) : n \in 1 .. Len(q) \/ n = Len(q) + 1
  BY <1>1
<1>3. ASSUME Last(q, tag, v) PROVE Last(t, tag, v)
  <2>1. PICK n \in 1 .. Len(q) :
          q[n] = v /\ \A m \in n + 1 .. Len(q) : q[m][1] # tag
    BY <1>3 DEF Last
  <2>2. n \in 1 .. Len(t) /\ t[n] = v
    BY <1>1, <2>1
  <2>3. ASSUME NEW m \in n + 1 .. Len(t) PROVE t[m][1] # tag
    <3>1. m = Len(q) + 1 \/ m \in n + 1 .. Len(q)
      BY <1>1
    <3>2. m \in n + 1 .. Len(q) => t[m] = q[m]
      BY <1>1
    <3> QED BY <1>1, <2>1, <3>1, <3>2
  <2> QED BY <2>2, <2>3 DEF Last
<1>4. ASSUME Lacks(q, tag) PROVE Lacks(t, tag)
  BY <1>1, <1>2, <1>4 DEF Lacks
<1> QED BY <1>3, <1>4 DEF t

\* Taking the first message: it was the last of its kind, or that one stays.
LEMMA TakeHead ==
  ASSUME NEW S, NEW q \in Seq(S), q # << >>, NEW tag, NEW v
  PROVE  /\ Tail(q) \in Seq(S) /\ Head(q) \in S
         /\ Last(q, tag, v) => \/ Last(Tail(q), tag, v)
                               \/ Head(q) = v /\ Lacks(Tail(q), tag)
         /\ Lacks(q, tag) => Lacks(Tail(q), tag) /\ Head(q)[1] # tag
         /\ Head(q)[1] # tag /\ v[1] = tag /\ Last(q, tag, v) => Last(Tail(q), tag, v)
<1> DEFINE t == Tail(q)
<1>1. /\ t \in Seq(S) /\ Head(q) \in S /\ Head(q) = q[1]
      /\ Len(t) = Len(q) - 1 /\ \A n \in 1 .. Len(t) : t[n] = q[n + 1]
  BY HeadTailProperties
<1>2. Len(q) \in Nat /\ Len(q) # 0
  BY EmptySeq, LenProperties
<1> HIDE DEF t
<1>3. ASSUME Last(q, tag, v)
      PROVE  Last(t, tag, v) \/ (Head(q) = v /\ Lacks(t, tag))
  <2>1. PICK n \in 1 .. Len(q) :
          q[n] = v /\ \A m \in n + 1 .. Len(q) : q[m][1] # tag
    BY <1>3 DEF Last
  <2>2. CASE n = 1
    <3>1. ASSUME NEW m \in 1 .. Len(t) PROVE t[m][1] # tag
      <4>1. m + 1 \in n + 1 .. Len(q)
        BY <1>1, <1>2, <2>2
      <4> QED BY <1>1, <2>1, <4>1
    <3> QED BY <1>1, <2>1, <2>2, <3>1 DEF Lacks
  <2>3. CASE n # 1
    <3>1. n - 1 \in 1 .. Len(t) /\ (n - 1) + 1 = n
      BY <1>1, <1>2, <2>3
    <3>2. t[n - 1] = v
      BY <1>1, <2>1, <3>1
    <3>3. ASSUME NEW m \in (n - 1) + 1 .. Len(t) PROVE t[m][1] # tag
      <4>1. m \in 1 .. Len(t) /\ m + 1 \in n + 1 .. Len(q)
        BY <1>1, <1>2
      <4> QED BY <1>1, <2>1, <4>1
    <3> QED BY <3>1, <3>2, <3>3 DEF Last
  <2> QED BY <2>2, <2>3
<1>4. ASSUME Lacks(q, tag) PROVE Lacks(t, tag) /\ Head(q)[1] # tag
  <2>1. 1 \in 1 .. Len(q) /\ \A n \in 1 .. Len(t) : n + 1 \in 1 .. Len(q)
    BY <1>1, <1>2
  <2> QED BY <1>1, <1>4, <2>1 DEF Lacks
<1> QED BY <1>1, <1>3, <1>4 DEF t

\* Messages written behind others: the last of a kind is theirs, if they have
\* one, and the others' if they have none.
LEMMA ConcatLast ==
  ASSUME NEW S, NEW q \in Seq(S), NEW r \in Seq(S), NEW tag, NEW v
  PROVE  /\ q \o r \in Seq(S)
         /\ Last(r, tag, v) => Last(q \o r, tag, v)
         /\ Lacks(r, tag) /\ Last(q, tag, v) => Last(q \o r, tag, v)
         /\ Lacks(r, tag) /\ Lacks(q, tag) => Lacks(q \o r, tag)
<1> DEFINE t == q \o r
<1>1. /\ t \in Seq(S) /\ Len(t) = Len(q) + Len(r)
      /\ \A n \in 1 .. Len(t) : t[n] = IF n <= Len(q) THEN q[n] ELSE r[n - Len(q)]
  BY ConcatProperties
<1>2. Len(q) \in Nat /\ Len(r) \in Nat
  BY LenProperties
<1> HIDE DEF t
<1>3. ASSUME Last(r, tag, v) PROVE Last(t, tag, v)
  <2>1. PICK n \in 1 .. Len(r) :
          r[n] = v /\ \A m \in n + 1 .. Len(r) : r[m][1] # tag
    BY <1>3 DEF Last
  <2>2. /\ Len(q) + n \in 1 .. Len(t) /\ ~(Len(q) + n <= Len(q))
        /\ (Len(q) + n) - Len(q) = n
    BY <1>1, <1>2
  <2>3. t[Len(q) + n] = v
    BY <1>1, <2>1, <2>2
  <2>4. ASSUME NEW m \in (Len(q) + n) + 1 .. Len(t) PROVE t[m][1] # tag
    <3>1. m \in 1 .. Len(t) /\ ~(m <= Len(q)) /\ m - Len(q) \in n + 1 .. Len(r)
      BY <1>1, <1>2
    <3>2. t[m] = r[m - Len(q)]
      BY <1>1, <3>1
    <3> QED BY <2>1, <3>1, <3>2
  <2> QED BY <2>2, <2>3, <2>4 DEF Last
<1>4. ASSUME Lacks(r, tag), NEW m \in 1 .. Len(t), ~(m <= Len(q)) PROVE t[m][1] # tag
  <2>1. m - Len(q) \in 1 .. Len(r)
    BY <1>1, <1>2, <1>4
  <2>2. t[m] = r[m - Len(q)]
    BY <1>1, <1>4
  <2> QED BY <1>4, <2>1, <2>2 DEF Lacks
<1>5. ASSUME Lacks(r, tag), Last(q, tag, v) PROVE Last(t, tag, v)
  <2>1. PICK n \in 1 .. Len(q) :
          q[n] = v /\ \A m \in n + 1 .. Len(q) : q[m][1] # tag
    BY <1>5 DEF Last
  <2>2. n \in 1 .. Len(t) /\ n <= Len(q)
    BY <1>1, <1>2
  <2>3. t[n] = v
    BY <1>1, <2>1, <2>2
  <2>4. ASSUME NEW m \in n + 1 .. Len(t) PROVE t[m][1] # tag
    <3>1. m \in 1 .. Len(t) /\ (m <= Len(q) => m \in n + 1 .. Len(q))
      BY <1>1, <1>2
    <3>2. CASE m <= Len(q)
      <4>1. t[m] = q[m]
        BY <1>1, <3>1, <3>2
      <4> QED BY <2>1, <3>1, <3>2, <4>1
    <3> QED BY <1>4, <1>5, <3>1, <3>2
  <2> QED BY <2>2, <2>3, <2>4 DEF Last
<1>6. ASSUME Lacks(r, tag), Lacks(q, tag) PROVE Lacks(t, tag)
  <2>1. ASSUME NEW m \in 1 .. Len(t) PROVE t[m][1] # tag
    <3>1. CASE m <= Len(q)
      <4>1. m \in 1 .. Len(q)
        BY <1>1, <1>2, <3>1
      <4>2. t[m] = q[m]
        BY <1>1, <3>1
      <4> QED BY <1>6, <4>1, <4>2 DEF Lacks
    <3> QED BY <1>4, <1>6, <3>1
  <2> QED BY <2>1 DEF Lacks
<1> QED BY <1>1, <1>3, <1>5, <1>6 DEF t

\* A message stays on its way until it is taken.
LEMMA HasKept ==
  ASSUME NEW S, NEW q \in Seq(S), NEW v, Has(q, v)
  PROVE  /\ \A e \in S : Has(Append(q, e), v)
         /\ q # << >> /\ Head(q) # v => Has(Tail(q), v)
<1>1. PICK n \in 1 .. Len(q) : q[n] = v
  BY DEF Has
<1>2. ASSUME NEW e \in S PROVE Has(Append(q, e), v)
  <2>1. /\ Len(Append(q, e)) = Len(q) + 1 /\ Append(q, e)[n] = q[n]
        /\ Len(q) \in Nat
    BY AppendProperties, LenProperties
  <2>2. n \in 1 .. Len(Append(q, e))
    BY <2>1
  <2> QED BY <1>1, <2>1, <2>2 DEF Has
<1>3. ASSUME q # << >>, Head(q) # v PROVE Has(Tail(q), v)
  <2> DEFINE t == Tail(q)
  <2>1. /\ Len(t) = Len(q) - 1 /\ \A m \in 1 .. Len(t) : t[m] = q[m + 1]
        /\ Head(q) = q[1] /\ Len(q) \in Nat
    BY <1>3, HeadTailProperties, LenProperties
  <2> HIDE DEF t
  <2>2. n - 1 \in 1 .. Len(t) /\ (n - 1) + 1 = n
    BY <1>1, <1>3, <2>1
  <2>3. t[n - 1] = v
    BY <1>1, <2>1, <2>2
  <2> QED BY <2>2, <2>3 DEF Has, t
<1> QED BY <1>2, <1>3

\* A message just sent is on its way.
LEMMA HasNew ==
  ASSUME NEW S, NEW q \in Seq(S), NEW v \in S PROVE Has(Append(q, v), v)
<1>1. Last(Append(q, v), "", v)
  BY AppendLast
<1> QED BY <1>1 DEF Last, Has

-----------------------------------------------------------------------------
(* Frames: what the steps that leave something alone preserve. *)

\* Putting a command that is no LED_SET, or none.
LEMMA PutOther ==
  ASSUME IInv, NEW e \in Command, e[1] # "LED_SET",
         ring' = Append(ring, e) \/ ring' = ring,
         UNCHANGED <<held, tx, newest, overtaken, rx, dev, raced, counter, hpc>>,
         Saving' <=> Saving
  PROVE  LedsComing' /\ ring' \in Seq(Command)
<1>1. ring \in Seq(Command)
  BY DEF IInv, TypeOK
<1>2. ring' \in Seq(Command)
  BY <1>1, AppendProperties
<1>3. Target' = Target
  BY DEF Target, Display
<1>4. ASSUME NEW v PROVE Last(ring, "LED_SET", v) => Last(ring', "LED_SET", v)
  BY <1>1, AppendOther
<1>5. LastSet(Target) => LastSet(Target)'
  BY <1>3, <1>4 DEF LastSet
<1>6. ResetPending' <=> ResetPending
  BY DEF ResetPending
<1> QED BY <1>2, <1>3, <1>5, <1>6 DEF IInv, LedsComing, Reached

\* Leaving the button events alone.
LEMMA ButtonsFrame ==
  ASSUME IInv, UNCHANGED <<reported, pkt, button_buffer>>,
         dev'.buttons = dev.buttons, hpc' = "buttons" <=> hpc = "buttons",
         \/ rx' = rx
         \/ \E e \in Packet : e[1] # "BIOC_EVENT" /\ rx' = Append(rx, e)
         \/ rx # << >> /\ Head(rx)[1] # "BIOC_EVENT" /\ rx' = Tail(rx)
  PROVE  ButtonsComing' /\ rx' \in Seq(Packet)
<1>1. rx \in Seq(Packet)
  BY DEF IInv, TypeOK
<1> DEFINE v == <<"BIOC_EVENT", dev.buttons>>
<1>2. v[1] = "BIOC_EVENT"
  OBVIOUS
<1> HIDE DEF v
<1>3. /\ Last(rx, "BIOC_EVENT", v) => Last(rx', "BIOC_EVENT", v)
      /\ Lacks(rx, "BIOC_EVENT") => Lacks(rx', "BIOC_EVENT")
      /\ rx' \in Seq(Packet)
  <2>1. CASE rx' = rx
    BY <1>1, <2>1
  <2>2. CASE \E e \in Packet : e[1] # "BIOC_EVENT" /\ rx' = Append(rx, e)
    <3>1. PICK e \in Packet : e[1] # "BIOC_EVENT" /\ rx' = Append(rx, e)
      BY <2>2
    <3>2. rx' \in Seq(Packet)
      BY <1>1, <3>1, AppendProperties
    <3> QED BY <1>1, <3>1, <3>2, AppendOther
  <2>3. CASE rx # << >> /\ Head(rx)[1] # "BIOC_EVENT" /\ rx' = Tail(rx)
    <3>1. rx' \in Seq(Packet)
      BY <1>1, <2>3, TakeHead
    <3>2. Lacks(rx, "BIOC_EVENT") => Lacks(rx', "BIOC_EVENT")
      BY <1>1, <2>3, TakeHead
    <3>3. Last(rx, "BIOC_EVENT", v) => Last(rx', "BIOC_EVENT", v)
      BY <1>1, <1>2, <2>3, TakeHead
    <3> QED BY <3>1, <3>2, <3>3
  <2> QED BY <2>1, <2>2, <2>3
<1> QED BY <1>3 DEF IInv, ButtonsComing, v

-----------------------------------------------------------------------------
(* The initial states. *)

\* Six zero bytes have the type of LEDs.
LEMMA DarkLeds == Dark \in Leds
<1>1. <<0, 0>> \in [1 .. 2 -> Nat]
  OBVIOUS
<1> QED BY <1>1 DEF Dark, Leds

\* What was shown at any time has the type of LEDs.
LEMMA ShownLeds == ASSUME NEW count \in Nat PROVE Shown(count) \in Leds
  BY DarkLeds, Clock DEF Shown

\* The initial states satisfy the inductive invariant.
LEMMA InitOK == Init => IInv
<1> SUFFICES ASSUME Init PROVE IInv
  OBVIOUS
<1>1. counter \in Nat /\ led_regular_buffer = Shown(counter)
  BY DEF Init, Shown
<1>2. led_regular_buffer \in Leds
  BY <1>1, ShownLeds
<1>3. button_buffer \in [1 .. 2 -> Int]
  BY DEF Init, None
<1>4. /\ dev.leds = led_regular_buffer /\ dev.dead = FALSE
      /\ dev \in Controller
  <2>1. <<1, 1>> \in [1 .. 2 -> Int]
    OBVIOUS
  <2>2. PICK lockup \in BOOLEAN, usr \in BOOLEAN :
          dev = [bioc |-> FALSE, usr |-> usr, usr0 |-> usr, leds |-> led_regular_buffer,
                 buttons |-> <<1, 1>>, lockup |-> lockup, dead |-> FALSE]
    BY DEF Init
  <2> QED BY <1>2, <2>1, <2>2 DEF Controller
<1>5. /\ tx \in Seq(Command) /\ rx \in Seq(Packet) /\ cmds \in Seq(InitCommand)
      /\ ring \in Seq(Command) /\ held \in [Context -> Seq(Command)] /\ newest = "sent"
  BY EmptySeq DEF Init
<1>6. upc = "user" /\ hpc = "idle" /\ tx = << >> /\ Len(tx) = 0
  BY EmptySeq DEF Init
<1>7. TypeOK
  BY <1>1, <1>2, <1>3, <1>4, <1>5, <1>6 DEF TypeOK
<1>8. Saved
  BY <1>1, <1>6 DEF Saved, Saving
<1>9. LedsComing
  <2>1. Lacks(tx, "LED_SET")
    BY <1>6 DEF Lacks
  <2>2. dev.leds = Target
    BY <1>1, <1>4, <1>6 DEF Target, Saving
  <2> QED BY <1>5, <2>1, <2>2 DEF LedsComing, Reached
<1>10. ButtonsComing
  BY DEF Init, ButtonsComing
<1> QED BY <1>7, <1>8, <1>9, <1>10 DEF IInv

-----------------------------------------------------------------------------
(* Steps of tuxctl_ioctl. *)

\* The commands of TUX_INIT are commands, and set no LEDs.
LEMMA CommandType ==
  ASSUME NEW e \in InitCommand PROVE e \in Command /\ e[1] # "LED_SET"
  BY DEF InitCommand, Command

\* The entry of an ioctl puts at most a BIOC_ON.
LEMMA EnterOK ==
  ASSUME IInv, NEW label \in {"init", "readA", "put"}, Enter(label),
         cmds' \in Seq(InitCommand), label = "init" => cmds' # << >>
  PROVE  IInv'
<1>1. /\ upc = "user" /\ upc' = label
      /\ ring' = Append(ring, <<"BIOC_ON">>) \/ ring' = ring
      /\ UNCHANGED <<error_flag, led_regular_buffer, button_buffer, counter, hpc, pkt,
                     held, tx, newest, overtaken, rx, dev, reported, raced>>
  BY DEF Enter, ldisc_put, SetsLeds, driver, handler, ldisc, order
<1>2. ~Saving /\ ~Saving'
  BY <1>1 DEF Saving
<1>3. <<"BIOC_ON">> \in Command /\ <<"BIOC_ON">>[1] # "LED_SET"
  BY CommandType DEF InitCommand
<1>4. LedsComing' /\ ring' \in Seq(Command)
  BY <1>1, <1>2, <1>3, PutOther
<1>5. ButtonsComing' /\ rx' \in Seq(Packet)
  BY <1>1, ButtonsFrame
<1>6. Saved'
  BY <1>1, <1>2 DEF IInv, Saved, Display
<1>7. TypeOK'
  BY <1>1, <1>4, <1>5 DEF IInv, TypeOK
<1> QED BY <1>4, <1>5, <1>6, <1>7 DEF IInv

\* The three calls are entries.
LEMMA CallsOK == IInv /\ (InitCall \/ ButtonsCall \/ SetLedCall) => IInv'
<1> SUFFICES ASSUME IInv, InitCall \/ ButtonsCall \/ SetLedCall PROVE IInv'
  OBVIOUS
<1>1. cmds \in Seq(InitCommand)
  BY DEF IInv, TypeOK
<1>2. CASE InitCall
  <2>1. InitCmds \in Seq(InitCommand) /\ InitCmds # << >>
    BY DEF InitCmds, InitCommand
  <2> QED BY <1>2, <2>1, EnterOK DEF InitCall
<1>3. CASE ButtonsCall
  BY <1>1, <1>3, EnterOK DEF ButtonsCall
<1>4. CASE SetLedCall
  BY <1>1, <1>4, EnterOK DEF SetLedCall
<1> QED BY <1>2, <1>3, <1>4

\* The puts of TUX_INIT set no LEDs.
LEMMA InitPutOK == IInv /\ InitPut => IInv'
<1> SUFFICES ASSUME IInv, InitPut PROVE IInv'
  OBVIOUS
<1>1. /\ upc = "init" /\ ldisc_put("ioctl", Head(cmds)) /\ cmds' = Tail(cmds)
      /\ upc' = IF Len(cmds) = 1 THEN "user" ELSE upc
      /\ UNCHANGED <<led_regular_buffer, button_buffer, counter, hpc, pkt,
                     rx, dev, reported, raced>>
  BY DEF InitPut, driver, handler
<1>2. cmds \in Seq(InitCommand) /\ cmds # << >>
  BY <1>1 DEF IInv, TypeOK
<1>3. /\ Head(cmds) \in InitCommand /\ Tail(cmds) \in Seq(InitCommand)
      /\ Len(Tail(cmds)) = Len(cmds) - 1 /\ Len(cmds) \in Nat
  BY <1>2, HeadTailProperties, LenProperties
<1>4. ~Saving /\ ~Saving'
  BY <1>1 DEF Saving
<1>5. Head(cmds) \in Command /\ Head(cmds)[1] # "LED_SET"
  BY <1>3, CommandType
<1>a. ring' = Append(ring, Head(cmds)) /\ UNCHANGED <<held, tx, newest, overtaken>>
  BY <1>1, <1>5 DEF ldisc_put, SetsLeds
<1>6. LedsComing' /\ ring' \in Seq(Command)
  BY <1>1, <1>4, <1>5, <1>a, PutOther
<1>7. ButtonsComing' /\ rx' \in Seq(Packet)
  BY <1>1, ButtonsFrame
<1>8. Saved'
  BY <1>1, <1>4 DEF IInv, Saved
<1>9. TypeOK'
  <2>1. upc' = "init" => cmds' # << >>
    <3>1. upc' = "init" => Len(cmds') # 0
      BY <1>1, <1>3
    <3> QED BY <3>1, EmptySeq
  <2> QED BY <1>1, <1>3, <1>6, <1>7, <1>a, <2>1 DEF IInv, TypeOK
<1> QED BY <1>6, <1>7, <1>8, <1>9 DEF IInv

\* TUX_BUTTONS only reads.
LEMMA ReadOK == IInv /\ (ReadA \/ \E valid \in BOOLEAN : ReadB(valid)) => IInv'
<1> SUFFICES ASSUME IInv, ReadA \/ \E valid \in BOOLEAN : ReadB(valid) PROVE IInv'
  OBVIOUS
<1>1. /\ upc \in {"readA", "readB"} /\ upc' \in {"readB", "user"} /\ ring' = ring
      /\ UNCHANGED <<led_regular_buffer, button_buffer, counter, cmds, hpc, pkt,
                     held, tx, newest, overtaken, rx, dev, reported, raced>>
  BY DEF ReadA, ReadB, driver, handler, history, ldisc, order
<1>2. ~Saving /\ ~Saving'
  BY <1>1 DEF Saving
<1>3. <<"BIOC_ON">> \in Command /\ <<"BIOC_ON">>[1] # "LED_SET"
  BY CommandType DEF InitCommand
<1>4. LedsComing' /\ ring' \in Seq(Command)
  BY <1>1, <1>2, <1>3, PutOther
<1>5. ButtonsComing' /\ rx' \in Seq(Packet)
  BY <1>1, ButtonsFrame
<1>6. Saved'
  BY <1>1, <1>2 DEF IInv, Saved
<1>7. TypeOK'
  BY <1>1, <1>4, <1>5 DEF IInv, TypeOK
<1> QED BY <1>4, <1>5, <1>6, <1>7 DEF IInv

\* The command that TUX_SET_LED puts becomes the target.
LEMMA SetLedPutOK == IInv /\ SetLedPut => IInv'
<1> SUFFICES ASSUME IInv, SetLedPut PROVE IInv'
  OBVIOUS
<1>1. /\ upc = "put" /\ upc' = "save0" /\ ring' = Append(ring, <<"LED_SET", Display>>)
      /\ newest' = "ring"
      /\ UNCHANGED <<led_regular_buffer, button_buffer, counter, cmds, hpc, pkt,
                     held, tx, rx, dev, reported>>
  BY DEF SetLedPut, ldisc_put, SetsLeds, driver, handler
<1>2. ring \in Seq(Command) /\ Display \in Leds
  BY Clock DEF IInv, TypeOK, Display
<1>3. <<"LED_SET", Display>> \in Command
  BY <1>2 DEF Command
<1>4. ring' \in Seq(Command) /\ Last(ring', "LED_SET", <<"LED_SET", Display>>)
  BY <1>1, <1>2, <1>3, AppendLast, AppendProperties
<1>5. Target' = Display
  BY <1>1 DEF Target, Saving, Display
<1>6. LedsComing'
  BY <1>1, <1>4, <1>5 DEF LedsComing, LastSet
<1>7. ButtonsComing' /\ rx' \in Seq(Packet)
  BY <1>1, ButtonsFrame
<1>8. Saved'
  BY <1>1 DEF Saved, Saving
<1>9. TypeOK'
  BY <1>1, <1>4, <1>7 DEF IInv, TypeOK
<1> QED BY <1>6, <1>7, <1>8, <1>9 DEF IInv

\* When both parts are saved, led_regular_buffer is the target.
LEMMA SetLedSaveOK == IInv /\ (SetLedSave0 \/ SetLedSave1) => IInv'
<1> SUFFICES ASSUME IInv, SetLedSave0 \/ SetLedSave1 PROVE IInv'
  OBVIOUS
<1>0. /\ counter \in Nat /\ led_regular_buffer \in Leds /\ Display \in Leds
      /\ UNCHANGED <<button_buffer, cmds, hpc, pkt, ring, held, tx, newest, overtaken,
                     rx, dev, reported, raced>>
  BY Clock DEF SetLedSave0, SetLedSave1, IInv, TypeOK, Display, handler, history, ldisc,
               order
<1>1. Saving /\ Target = Display
  BY DEF SetLedSave0, SetLedSave1, Saving, Target
<1>2. ButtonsComing' /\ rx' \in Seq(Packet)
  BY <1>0, ButtonsFrame
<1>3. Target' = Target
  <2>1. CASE SetLedSave0
    BY <1>1, <2>1 DEF SetLedSave0, Saving, Target, Display
  <2>2. CASE SetLedSave1
    <3>1. counter' = counter + 1 /\ counter' # 0 /\ counter' - 1 = counter
      BY <1>0, <2>2 DEF SetLedSave1
    <3>2. ~Saving'
      BY <2>2 DEF SetLedSave1, Saving
    <3>3. Target' = Shown(counter')
      BY <3>2 DEF Target
    <3>4. Shown(counter') = Display
      BY <3>1 DEF Shown, Display
    <3> QED BY <1>1, <3>3, <3>4
  <2> QED BY <2>1, <2>2
<1>4. LedsComing'
  BY <1>0, <1>1, <1>3 DEF IInv, LedsComing, LastSet, Reached, ResetPending
<1>5. led_regular_buffer' \in Leds
  BY <1>0 DEF SetLedSave0, SetLedSave1, Leds, driver
<1>6. Saved'
  <2>1. CASE SetLedSave0
    <3>1. upc' = "save1" /\ Display' = Display
      BY <2>1 DEF SetLedSave0, Display
    <3>2. led_regular_buffer'[1] = Display[1]
      BY <1>0, <2>1 DEF SetLedSave0, Leds
    <3> QED BY <3>1, <3>2 DEF Saved, Saving
  <2>2. CASE SetLedSave1
    <3>1. upc' = "user"
      BY <2>2 DEF SetLedSave1
    <3>2. Shown(counter') = Display
      BY <1>1, <1>3, <3>1 DEF Target, Saving
    <3>3. led_regular_buffer[1] = Display[1]
      BY <2>2 DEF SetLedSave1, IInv, Saved
    <3>4. led_regular_buffer' = [led_regular_buffer EXCEPT ![2] = Display[2]]
      BY <2>2 DEF SetLedSave1
    <3>5. led_regular_buffer'[1] = Display[1] /\ led_regular_buffer'[2] = Display[2]
      BY <1>0, <3>3, <3>4 DEF Leds
    <3>6. led_regular_buffer' = Display
      BY <1>0, <1>5, <3>5 DEF Leds
    <3> QED BY <3>1, <3>2, <3>6 DEF Saved, Saving
  <2> QED BY <2>1, <2>2
<1>7. TypeOK'
  <2>1. counter' \in Nat /\ upc' \in {"save1", "user"}
    BY <1>0 DEF SetLedSave0, SetLedSave1
  <2> QED BY <1>0, <1>2, <1>5, <2>1 DEF IInv, TypeOK
<1> QED BY <1>2, <1>4, <1>6, <1>7 DEF IInv

-----------------------------------------------------------------------------
(* Steps of tuxctl_handle_packet. *)

\* An ERROR packet only sets error_flag.
LEMMA HandleErrorOK == IInv /\ HandleError => IInv'
<1> SUFFICES ASSUME IInv, HandleError PROVE IInv'
  OBVIOUS
<1>1. /\ rx # << >> /\ Head(rx)[1] = "ERROR" /\ rx' = Tail(rx)
      /\ UNCHANGED <<led_regular_buffer, button_buffer, counter, upc, cmds, hpc, pkt,
                     ring, held, tx, newest, overtaken, dev, reported, raced>>
  BY DEF HandleError, Handed, ioctl, handler, history, ldisc, order
<1>2. ButtonsComing' /\ rx' \in Seq(Packet)
  BY <1>1, ButtonsFrame
<1>3. LedsComing'
  <2>1. Has(rx, <<"RESET">>) => Has(rx', <<"RESET">>)
    <3>1. Head(rx) # <<"RESET">>
      BY <1>1
    <3> QED BY <1>1, <3>1, HasKept DEF IInv, TypeOK
  <2> QED BY <1>1, <2>1 DEF IInv, LedsComing, LastSet, Reached, ResetPending,
                     Target, Saving, Display
<1>4. Saved'
  BY <1>1 DEF IInv, Saved, Saving, Display
<1>5. TypeOK'
  BY <1>1, <1>2 DEF IInv, TypeOK
<1> QED BY <1>2, <1>3, <1>4, <1>5 DEF IInv

\* While the RESET packet is being handled, the reset stays pending.
LEMMA HandleResetOK == IInv /\ HandleReset => IInv'
<1> SUFFICES ASSUME IInv, HandleReset PROVE IInv'
  OBVIOUS
<1>1. /\ rx # << >> /\ Head(rx)[1] = "RESET" /\ rx' = Tail(rx)
      /\ hpc = "idle" /\ hpc' = "leds" /\ ring' = Append(ring, <<"BIOC_ON">>)
      /\ UNCHANGED <<led_regular_buffer, button_buffer, counter, upc, cmds, pkt,
                     held, tx, newest, overtaken, dev, reported, raced>>
  BY DEF HandleReset, Handed, ldisc_put, SetsLeds, driver, ioctl
<1>2. ButtonsComing' /\ rx' \in Seq(Packet)
  BY <1>1, ButtonsFrame
<1>3. LedsComing'
  BY <1>1 DEF LedsComing, ResetPending
<1>4. Saved'
  BY <1>1 DEF IInv, Saved, Saving, Display
<1>5. ring' \in Seq(Command)
  <2>1. <<"BIOC_ON">> \in Command /\ ring \in Seq(Command)
    BY CommandType DEF InitCommand, IInv, TypeOK
  <2> QED BY <1>1, <2>1, AppendProperties
<1>6. TypeOK'
  BY <1>1, <1>2, <1>5 DEF IInv, TypeOK
<1> QED BY <1>2, <1>3, <1>4, <1>6 DEF IInv

\* The saved LEDs are the target, unless TUX_SET_LED is saving them.
LEMMA HandleResetLedsOK == IInv /\ HandleResetLeds => IInv'
<1> SUFFICES ASSUME IInv, HandleResetLeds PROVE IInv'
  OBVIOUS
<1> DEFINE e == IF led_regular_buffer[1] = Dark[1] THEN <<"ZEROS">>
                ELSE <<"LED_SET", led_regular_buffer>>
<1>1. /\ hpc = "leds" /\ hpc' = "idle" /\ ring' = Append(ring, e)
      /\ raced' = Saving /\ newest' \in {newest, "ring"}
      /\ UNCHANGED <<led_regular_buffer, button_buffer, counter, upc, cmds, pkt, rx,
                     held, tx, dev, reported>>
  BY DEF HandleResetLeds, ldisc_put, driver, ioctl, Saving
<1>2. /\ ring \in Seq(Command) /\ e \in Command /\ counter \in Nat
  BY DEF IInv, TypeOK, Command
<1>3. ring' \in Seq(Command)
  BY <1>1, <1>2, AppendProperties
<1>4. ButtonsComing' /\ rx' \in Seq(Packet)
  BY <1>1, ButtonsFrame
<1>5. LedsComing'
  <2> SUFFICES ASSUME (counter > 0 \/ Saving)', ~raced' PROVE LastSet(Target)'
    BY DEF LedsComing
  <2>1. ~Saving /\ ~Saving' /\ counter > 0 /\ counter' = counter
    BY <1>1 DEF Saving
  <2>2. Target' = Shown(counter) /\ led_regular_buffer = Shown(counter)
    BY <2>1 DEF Target, IInv, Saved
  <2>3. Shown(counter)[1] # Dark[1]
    BY <1>2, <2>1, Clock DEF Shown
  <2>4. e = <<"LED_SET", Shown(counter)>>
    BY <2>2, <2>3
  <2>5. newest' = "ring"
    BY <2>4 DEF HandleResetLeds, ldisc_put, SetsLeds
  <2> HIDE DEF e
  <2>6. Last(ring', "LED_SET", e)
    BY <1>1, <1>2, AppendLast
  <2> QED BY <2>2, <2>4, <2>5, <2>6 DEF LastSet
<1>6. Saved'
  BY <1>1 DEF IInv, Saved, Saving, Display
<1>7. TypeOK'
  BY <1>1, <1>3, <1>4 DEF IInv, TypeOK
<1> QED BY <1>4, <1>5, <1>6, <1>7 DEF IInv

\* The buttons of an event are stored one by one.
LEMMA HandleButtonsOK == IInv /\ (HandleButtons0 \/ HandleButtons1) => IInv'
<1> SUFFICES ASSUME IInv, HandleButtons0 \/ HandleButtons1 PROVE IInv'
  OBVIOUS
<1>0. /\ UNCHANGED <<led_regular_buffer, counter, upc, cmds, ring, held, tx, newest,
                     overtaken, dev, reported, raced>>
      /\ rx \in Seq(Packet) /\ button_buffer \in [1 .. 2 -> Int]
      /\ dev.buttons \in [1 .. 2 -> Int]
  BY DEF HandleButtons0, HandleButtons1, ioctl, history, ldisc, order, IInv, TypeOK,
         Controller
<1>1. CASE HandleButtons0
  <2> DEFINE v == <<"BIOC_EVENT", dev.buttons>>
  <2>1. /\ rx # << >> /\ Head(rx)[1] = "BIOC_EVENT" /\ rx' = Tail(rx)
        /\ hpc = "idle" /\ hpc' = "buttons" /\ pkt' = Head(rx)
        /\ button_buffer' = [button_buffer EXCEPT ![1] = Head(rx)[2][1]]
    BY <1>1 DEF HandleButtons0, Handed
  <2>2. Head(rx) \in Packet /\ rx' \in Seq(Packet)
    BY <1>0, <2>1, TakeHead
  <2>3. PICK bytes \in [1 .. 2 -> Int] : Head(rx) = <<"BIOC_EVENT", bytes>>
    BY <2>1, <2>2 DEF Packet
  <2>4. button_buffer' \in [1 .. 2 -> Int] /\ button_buffer'[1] = bytes[1]
    BY <1>0, <2>1, <2>3
  <2>5. Has(rx, <<"RESET">>) => Has(rx', <<"RESET">>)
    <3>1. Head(rx) # <<"RESET">>
      BY <2>1
    <3> QED BY <1>0, <2>1, <3>1, HasKept
  <2>6. LedsComing'
    BY <1>0, <2>1, <2>5 DEF IInv, LedsComing, LastSet, Reached, ResetPending,
                     Target, Saving, Display
  <2>7. ButtonsComing'
    <3> SUFFICES ASSUME reported'
                 PROVE  \/ Last(rx', "BIOC_EVENT", v)
                        \/ /\ Lacks(rx', "BIOC_EVENT") /\ pkt' = v
                           /\ button_buffer'[1] = dev.buttons[1]
      BY <1>0, <2>1 DEF ButtonsComing
    <3>1. reported /\ hpc # "buttons"
      BY <1>0, <2>1
    <3>2. ~Lacks(rx, "BIOC_EVENT")
      BY <1>0, <2>1, TakeHead
    <3>3. Last(rx, "BIOC_EVENT", v)
      BY <3>1, <3>2 DEF IInv, ButtonsComing
    <3>4. CASE Last(rx', "BIOC_EVENT", v)
      BY <3>4
    <3>5. CASE Head(rx) = v /\ Lacks(rx', "BIOC_EVENT")
      <4>1. bytes = dev.buttons
        BY <2>3, <3>5
      <4> QED BY <2>1, <2>4, <3>5, <4>1
    <3> QED BY <1>0, <2>1, <3>3, <3>4, <3>5, TakeHead
  <2>8. Saved'
    BY <1>0 DEF IInv, Saved, Saving, Display
  <2>9. TypeOK'
    BY <1>0, <2>1, <2>2, <2>4 DEF IInv, TypeOK
  <2> QED BY <2>6, <2>7, <2>8, <2>9 DEF IInv
<1>2. CASE HandleButtons1
  <2>1. /\ hpc = "buttons" /\ hpc' = "idle" /\ rx' = rx
        /\ button_buffer' = [button_buffer EXCEPT ![2] = pkt[2][2]]
    BY <1>2 DEF HandleButtons1
  <2>2. PICK bytes \in [1 .. 2 -> Int] : pkt = <<"BIOC_EVENT", bytes>>
    BY <2>1 DEF IInv, TypeOK, Packet
  <2>3. /\ button_buffer' \in [1 .. 2 -> Int] /\ button_buffer'[2] = bytes[2]
        /\ button_buffer'[1] = button_buffer[1]
    BY <1>0, <2>1, <2>2
  <2>4. LedsComing'
    BY <1>0, <2>1 DEF IInv, LedsComing, LastSet, Reached, ResetPending,
                     Target, Saving, Display
  <2>5. ButtonsComing'
    <3> SUFFICES ASSUME reported', ~Last(rx, "BIOC_EVENT", <<"BIOC_EVENT", dev.buttons>>)
                 PROVE  Lacks(rx', "BIOC_EVENT") /\ button_buffer' = dev.buttons
      BY <1>0, <2>1 DEF ButtonsComing
    <3>1. /\ Lacks(rx, "BIOC_EVENT") /\ pkt = <<"BIOC_EVENT", dev.buttons>>
          /\ button_buffer[1] = dev.buttons[1]
      BY <1>0, <2>1 DEF IInv, ButtonsComing
    <3>2. bytes = dev.buttons
      BY <2>2, <3>1
    <3>3. button_buffer' = dev.buttons
      BY <1>0, <2>3, <3>1, <3>2
    <3> QED BY <2>1, <3>1, <3>3
  <2>6. Saved'
    BY <1>0 DEF IInv, Saved, Saving, Display
  <2>7. TypeOK'
    BY <1>0, <2>1, <2>3 DEF IInv, TypeOK
  <2> QED BY <2>4, <2>5, <2>6, <2>7 DEF IInv
<1> QED BY <1>1, <1>2

-----------------------------------------------------------------------------
(* Steps of the line discipline. *)

\* The last LED_SET put moves from the ring to the copy, with the others.
LEMMA TakeOK == ASSUME IInv, NEW c \in Context, Take(c) PROVE IInv'
<1>1. /\ held' = [held EXCEPT ![c] = ring] /\ ring' = << >>
      /\ newest' = IF newest = "ring" THEN c ELSE newest
      /\ held[c] = << >>
      /\ UNCHANGED <<led_regular_buffer, button_buffer, counter, upc, cmds, hpc, pkt,
                     tx, rx, dev, reported, raced, overtaken>>
  BY DEF Take, driver, ioctl, handler
<1>2. /\ ring \in Seq(Command) /\ held \in [Context -> Seq(Command)]
      /\ newest \in {"ring", "sent"} \cup Context
  BY DEF IInv, TypeOK
<1>3. ring' \in Seq(Command) /\ held' \in [Context -> Seq(Command)]
  BY <1>1, <1>2, EmptySeq
<1>4. Target' = Target /\ (Saving' <=> Saving) /\ (ResetPending' <=> ResetPending)
  BY <1>1 DEF Target, Saving, Display, ResetPending
<1>5. LastSet(Target) => LastSet(Target)'
  <2> DEFINE v == <<"LED_SET", Target>>
  <2>1. CASE newest = "ring"
    <3>1. newest' = c /\ held'[c] = ring
      BY <1>1, <1>2, <2>1
    <3> QED BY <1>4, <2>1, <3>1 DEF LastSet, Context
  <2>2. CASE newest \in Context /\ newest # c
    <3>1. newest' = newest /\ held'[newest] = held[newest]
      BY <1>1, <1>2, <2>2 DEF Context
    <3> QED BY <1>4, <2>2, <3>1 DEF LastSet, Context
  <2>3. CASE newest = c
    <3>1. Len(held[c]) = 0
      BY <1>1
    <3>2. ~Last(held[c], "LED_SET", v)
      BY <3>1 DEF Last
    <3> QED BY <2>3, <3>2 DEF LastSet, Context
  <2>4. CASE newest = "sent"
    BY <1>1, <1>4, <2>4 DEF LastSet, Context
  <2> QED BY <1>2, <2>1, <2>2, <2>3, <2>4
<1>6. LedsComing'
  BY <1>1, <1>4, <1>5 DEF IInv, LedsComing, Reached
<1>7. ButtonsComing' /\ rx' \in Seq(Packet)
  BY <1>1, ButtonsFrame
<1>8. Saved'
  BY <1>1 DEF IInv, Saved, Saving, Display
<1>9. TypeOK'
  BY <1>1, <1>2, <1>3, <1>7 DEF IInv, TypeOK
<1> QED BY <1>6, <1>7, <1>8, <1>9 DEF IInv

\* A copy with the last LED_SET brings it into tx; one without any changes
\* nothing; any other overtakes it or is overtaken.
LEMMA WriteOK == ASSUME IInv, NEW c \in Context, Write(c) PROVE IInv'
<1>1. /\ held' = [held EXCEPT ![c] = << >>] /\ tx' = tx \o held[c]
      /\ newest' = IF newest = c THEN "sent" ELSE newest
      /\ ~overtaken' => /\ ~overtaken
                        /\ newest = "sent" => ~\E n \in DOMAIN held[c] : SetsLeds(held[c][n])
      /\ UNCHANGED <<led_regular_buffer, button_buffer, counter, upc, cmds, hpc, pkt,
                     ring, rx, dev, reported, raced>>
  BY DEF Write, driver, ioctl, handler
<1>2. /\ tx \in Seq(Command) /\ held \in [Context -> Seq(Command)]
      /\ held[c] \in Seq(Command) /\ newest \in {"ring", "sent"} \cup Context
  BY DEF IInv, TypeOK
<1>3. tx' \in Seq(Command) /\ held' \in [Context -> Seq(Command)]
  BY <1>1, <1>2, EmptySeq, ConcatLast
<1>4. Target' = Target /\ (Saving' <=> Saving) /\ (ResetPending' <=> ResetPending)
  BY <1>1 DEF Target, Saving, Display, ResetPending
<1>5. newest = "sent" /\ ~overtaken' => Lacks(held[c], "LED_SET")
  BY <1>1, <1>2, LenProperties DEF Lacks, SetsLeds
<1>6. ASSUME ~overtaken'
      PROVE  LastSet(Target) \/ Reached(Target) => LastSet(Target)' \/ Reached(Target)'
  <2> DEFINE v == <<"LED_SET", Target>>
  <2>1. CASE newest = c
    <3>1. LastSet(Target) => Last(held[c], "LED_SET", v)
      BY <2>1 DEF LastSet, Context
    <3> HIDE DEF v
    <3>2. Last(held[c], "LED_SET", v) => Last(tx', "LED_SET", v)
      BY <1>1, <1>2, ConcatLast
    <3>3. newest' = "sent" /\ ~Reached(Target)
      BY <1>1, <2>1 DEF Reached, Context
    <3> QED BY <1>4, <3>1, <3>2, <3>3 DEF LastSet, v
  <2>2. CASE newest = "sent"
    <3>1. LastSet(Target) => Last(tx, "LED_SET", v)
      BY <2>2 DEF LastSet, Context
    <3> HIDE DEF v
    <3>2. /\ Last(tx, "LED_SET", v) => Last(tx', "LED_SET", v)
          /\ Lacks(tx, "LED_SET") => Lacks(tx', "LED_SET")
      BY <1>1, <1>2, <1>5, <1>6, <2>2, ConcatLast
    <3>3. newest' = "sent"
      BY <1>1, <2>2
    <3> QED BY <1>1, <1>4, <3>1, <3>2, <3>3 DEF LastSet, Reached, v
  <2>3. CASE newest = "ring"
    BY <1>1, <1>4, <2>3 DEF LastSet, Reached, Context
  <2>4. CASE newest \in Context /\ newest # c
    <3>1. newest' = newest /\ held'[newest] = held[newest]
      BY <1>1, <1>2, <2>4
    <3> QED BY <1>4, <2>4, <3>1 DEF LastSet, Reached, Context
  <2> QED BY <1>2, <2>1, <2>2, <2>3, <2>4
<1>7. LedsComing'
  BY <1>1, <1>4, <1>6 DEF IInv, LedsComing
<1>8. ButtonsComing' /\ rx' \in Seq(Packet)
  BY <1>1, ButtonsFrame
<1>9. Saved'
  BY <1>1 DEF IInv, Saved, Saving, Display
<1>10. TypeOK'
  BY <1>1, <1>2, <1>3, <1>8 DEF IInv, TypeOK
<1> QED BY <1>7, <1>8, <1>9, <1>10 DEF IInv

-----------------------------------------------------------------------------
(* Steps of the controller. *)

\* What may be sent by the controller while a reset is pending.
LEMMA RxPut ==
  ASSUME IInv, NEW e \in Packet, rx' = rx \/ rx' = Append(rx, e), hpc' = hpc
  PROVE  ResetPending => ResetPending'
<1>1. rx \in Seq(Packet)
  BY DEF IInv, TypeOK
<1>2. Has(rx, <<"RESET">>) => Has(rx', <<"RESET">>)
  <2> DEFINE v == <<"RESET">>
  <2> HIDE DEF v
  <2>1. Has(rx, v) => Has(rx', v)
    BY <1>1, HasKept
  <2> QED BY <2>1 DEF v
<1> QED BY <1>2 DEF ResetPending

\* A command that sets the LEDs is carried out: if it was the last one, the
\* LEDs show what was wanted.
LEMMA DevCommandOK == IInv /\ DevCommand => IInv'
<1> SUFFICES ASSUME IInv, DevCommand PROVE IInv'
  OBVIOUS
<1> DEFINE c == Head(tx)
<1>1. /\ tx # << >> /\ tx' = Tail(tx)
      /\ dev' = IF dev.dead THEN dev
                ELSE [dev EXCEPT !.bioc = @ \/ c[1] = "BIOC_ON",
                                 !.usr = @ \/ c[1] = "LED_USR",
                                 !.leds = IF c[1] = "LED_SET" THEN c[2] ELSE @,
                                 !.dead = c[1] = "ZEROS" /\ dev.lockup]
      /\ rx' = rx \/ rx' = Append(rx, <<"ERROR">>)
      /\ UNCHANGED <<led_regular_buffer, button_buffer, counter, upc, cmds, hpc, pkt,
                     ring, held, newest, overtaken, reported, raced>>
  BY DEF DevCommand, SetsLeds, driver, ioctl, handler, history, order
<1>2. /\ tx \in Seq(Command) /\ rx \in Seq(Packet)
      /\ dev \in Controller
  BY DEF IInv, TypeOK
<1>3. tx' \in Seq(Command) /\ c \in Command
  BY <1>1, <1>2, TakeHead
<1> HIDE DEF c
<1>4. c[1] = "LED_SET" => c[2] \in Leds
  <2>1. \A e \in InitCommand : e[1] # "LED_SET"
    BY CommandType
  <2> QED BY <1>3, <2>1 DEF Command
<1>5. /\ dev' \in Controller
      /\ dev'.buttons = dev.buttons
      /\ dev.dead => dev'.dead
      /\ ~dev.dead => dev'.leds = IF c[1] = "LED_SET" THEN c[2] ELSE dev.leds
  BY <1>1, <1>2, <1>4 DEF Controller
<1>6. <<"ERROR">> \in Packet /\ <<"ERROR">>[1] # "BIOC_EVENT"
  BY DEF Packet
<1>7. ButtonsComing' /\ rx' \in Seq(Packet)
  BY <1>1, <1>5, <1>6, ButtonsFrame
<1>8. Target' = Target /\ (Saving' <=> Saving)
  BY <1>1 DEF Target, Saving, Display
<1>9. LedsComing'
  <2> SUFFICES ASSUME counter > 0 \/ Saving, ~raced, ~overtaken, ~dev'.dead
               PROVE  ResetPending' \/ LastSet(Target)' \/ Reached(Target)'
    BY <1>1, <1>8 DEF LedsComing
  <2> DEFINE v == <<"LED_SET", Target>>
  <2>0. v[1] = "LED_SET" /\ v[2] = Target
    OBVIOUS
  <2>1. ~dev.dead
    BY <1>5
  <2>2. CASE ResetPending
    BY <1>1, <1>6, <2>2, RxPut
  <2>3. CASE LastSet(Target) /\ newest # "sent"
    BY <1>1, <1>8, <2>3 DEF LastSet
  <2>4. CASE LastSet(Target) /\ newest = "sent"
    <3>1. Last(tx, "LED_SET", v)
      BY <2>4 DEF LastSet, Context
    <3> HIDE DEF v
    <3>2. Last(tx', "LED_SET", v) \/ (c = v /\ Lacks(tx', "LED_SET"))
      BY <1>1, <1>2, <3>1, TakeHead DEF c
    <3> QED BY <1>1, <1>5, <1>8, <2>0, <2>1, <2>4, <3>2 DEF v, LastSet, Reached
  <2>5. CASE Reached(Target)
    <3>1. Lacks(tx', "LED_SET") /\ c[1] # "LED_SET"
      BY <1>1, <1>2, <2>5, TakeHead DEF c, Reached
    <3> QED BY <1>1, <1>5, <1>8, <2>1, <2>5, <3>1 DEF Reached
  <2> QED BY <2>1, <2>2, <2>3, <2>4, <2>5 DEF IInv, LedsComing
<1>10. Saved'
  BY <1>1 DEF IInv, Saved, Saving, Display
<1>11. TypeOK'
  BY <1>1, <1>3, <1>5, <1>7 DEF IInv, TypeOK
<1> QED BY <1>7, <1>9, <1>10, <1>11 DEF IInv

\* A reset is pending from the moment it happens.
LEMMA DevResetOK == IInv /\ DevReset => IInv'
<1> SUFFICES ASSUME IInv, DevReset PROVE IInv'
  OBVIOUS
<1>1. /\ dev' = [dev EXCEPT !.bioc = FALSE, !.usr = dev.usr0, !.leds = Dark,
                            !.dead = FALSE]
      /\ rx' = Append(rx, <<"RESET">>)
      /\ UNCHANGED <<led_regular_buffer, button_buffer, counter, upc, cmds, hpc, pkt,
                     ring, held, tx, newest, overtaken, reported, raced>>
  BY DEF DevReset, driver, ioctl, handler, ldisc, order
<1>2. /\ rx \in Seq(Packet)
      /\ dev \in Controller
  BY DEF IInv, TypeOK
<1>3. /\ dev' \in Controller
      /\ dev'.buttons = dev.buttons
  BY <1>1, <1>2, DarkLeds DEF Controller
<1>4. <<"RESET">> \in Packet /\ <<"RESET">>[1] # "BIOC_EVENT"
  BY DEF Packet
<1>5. ButtonsComing' /\ rx' \in Seq(Packet)
  BY <1>1, <1>3, <1>4, ButtonsFrame
<1>6. Has(rx', <<"RESET">>)
  BY <1>1, <1>2, <1>4, HasNew
<1>7. LedsComing'
  BY <1>6 DEF LedsComing, ResetPending
<1>8. Saved'
  BY <1>1 DEF IInv, Saved, Saving, Display
<1>9. TypeOK'
  BY <1>1, <1>3, <1>5 DEF IInv, TypeOK
<1> QED BY <1>5, <1>7, <1>8, <1>9 DEF IInv

\* A change that is reported is the last event on the way.
LEMMA DevPressOK == ASSUME IInv, NEW h \in 1 .. 2, DevPress(h) PROVE IInv'
<1>1. /\ dev' = [dev EXCEPT !.buttons[h] = 1 - @]
      /\ reported' = (dev.bioc /\ ~dev.dead)
      /\ rx' = IF reported' THEN Append(rx, <<"BIOC_EVENT", dev'.buttons>>) ELSE rx
      /\ UNCHANGED <<led_regular_buffer, button_buffer, counter, upc, cmds, hpc, pkt,
                     ring, held, tx, newest, overtaken, raced>>
  BY DEF DevPress, driver, ioctl, handler, ldisc, order
<1>2. /\ rx \in Seq(Packet)
      /\ dev \in Controller
  BY DEF IInv, TypeOK
<1>3. /\ dev' \in Controller
      /\ dev'.leds = dev.leds /\ dev'.dead = dev.dead
  <2>1. dev' = [dev EXCEPT !.buttons = [dev.buttons EXCEPT ![h] = 1 - @]]
    BY <1>1
  <2>2. [dev.buttons EXCEPT ![h] = 1 - @] \in [1 .. 2 -> Int]
    BY <1>2 DEF Controller
  <2> QED BY <1>2, <2>1, <2>2 DEF Controller
<1>4. PICK e \in Packet : e = <<"BIOC_EVENT", dev'.buttons>>
  BY <1>3 DEF Packet, Controller
<1>5. rx' = rx \/ rx' = Append(rx, e)
  BY <1>1, <1>4
<1>6. reported' => rx' = Append(rx, e)
  BY <1>1, <1>4
<1>7. rx' \in Seq(Packet)
  <2>1. rx \in Seq(Packet) /\ Append(rx, e) \in Seq(Packet)
    BY <1>2, AppendProperties
  <2> QED BY <1>5, <2>1
<1>8. ButtonsComing'
  <2>1. reported' => Last(rx', "BIOC_EVENT", e)
    BY <1>2, <1>6, AppendLast
  <2> QED BY <1>4, <2>1 DEF ButtonsComing
<1>9. LedsComing'
  <2>1. ResetPending => ResetPending'
    BY <1>1, <1>5, RxPut
  <2>2. Target' = Target /\ (Saving' <=> Saving)
    BY <1>1 DEF Target, Saving, Display
  <2> QED BY <1>1, <1>3, <2>1, <2>2 DEF IInv, LedsComing, LastSet, Reached
<1>10. Saved'
  BY <1>1 DEF IInv, Saved, Saving, Display
<1>11. TypeOK'
  BY <1>1, <1>3, <1>7 DEF IInv, TypeOK
<1> QED BY <1>8, <1>9, <1>10, <1>11 DEF IInv

-----------------------------------------------------------------------------
(* The specification. *)

\* Every step keeps the inductive invariant.
LEMMA NextOK == IInv /\ [Next]_vars => IInv'
<1> SUFFICES ASSUME IInv, [Next]_vars PROVE IInv'
  OBVIOUS
<1>1. CASE tuxctl_ioctl
  BY <1>1, CallsOK, InitPutOK, ReadOK, SetLedPutOK, SetLedSaveOK DEF tuxctl_ioctl
<1>2. CASE tuxctl_handle_packet
  BY <1>2, HandleErrorOK, HandleResetOK, HandleResetLedsOK, HandleButtonsOK
     DEF tuxctl_handle_packet
<1>3. CASE DevCommand
  BY <1>3, DevCommandOK
<1>7. CASE tuxctl_ldisc_write_wakeup
  BY <1>7, TakeOK, WriteOK DEF tuxctl_ldisc_write_wakeup
<1>4. CASE DevReset
  BY <1>4, DevResetOK
<1>5. CASE \E h \in 1 .. 2 : DevPress(h)
  BY <1>5, DevPressOK
<1>6. CASE UNCHANGED vars
  <2>1. UNCHANGED <<led_regular_buffer, button_buffer, counter, upc, cmds, hpc, pkt,
                    ring, held, tx, newest, overtaken, rx, dev, reported, raced>>
    BY <1>6 DEF vars, driver, ioctl, handler, history, ldisc, order
  <2> QED BY <2>1 DEF IInv, TypeOK, Saved, LedsComing, ButtonsComing, LastSet,
                      Reached, ResetPending, Target, Saving, Display
<1> QED BY <1>1, <1>2, <1>3, <1>4, <1>5, <1>6, <1>7 DEF Next

\* The inductive invariant holds in every reachable state.
LEMMA Inductive == Spec => []IInv
  BY InitOK, NextOK, PTL DEF Spec

\* Whatever the ioctls, the interrupt handler and the controller do, and
\* however they interleave: once nothing is on the way, the driver's
\* button_buffer is the controller's buttons if the last change was reported.
THEOREM ButtonsFollow == Spec => []ButtonsCurrent
<1>1. IInv => ButtonsCurrent
  <2> SUFFICES ASSUME IInv, Quiet, reported PROVE button_buffer = dev.buttons
    BY DEF ButtonsCurrent
  <2>1. rx = << >> /\ Len(rx) = 0 /\ hpc = "idle"
    BY EmptySeq DEF Quiet
  <2> QED BY <2>1 DEF IInv, ButtonsComing, Last
<1> QED BY <1>1, Inductive, PTL

\* For every time on the clock and any number of resets: once nothing is on
\* the way, the LEDs of a controller in user mode read as the time of the last
\* TUX_SET_LED, unless the last reset was handled between its put and the end
\* of its save, an older LED_SET overtook the last between the unlock and
\* driver->write, or the controller is locked up.
THEOREM LedsRestored == Spec => []LedsRestoredUnlessRaced
<1>1. IInv => LedsRestoredUnlessRaced
  <2> SUFFICES ASSUME IInv, Quiet, counter > 0, ~raced, ~overtaken, ~dev.dead
               PROVE  Reads(dev.leds, counter - 1)
    BY DEF LedsRestoredUnlessRaced
  <2>1. /\ rx = << >> /\ tx = << >> /\ Len(rx) = 0 /\ Len(tx) = 0
        /\ ring = << >> /\ Len(ring) = 0 /\ hpc = "idle" /\ upc = "user"
    BY EmptySeq DEF Quiet
  <2>2. \A c \in Context : held[c] = << >> /\ Len(held[c]) = 0
    BY EmptySeq DEF Quiet, Busy
  <2>3. ~ResetPending /\ ~LastSet(Target)
    BY <2>1, <2>2 DEF ResetPending, Has, LastSet, Last
  <2>4. counter - 1 \in Nat /\ counter # 0
    BY DEF IInv, TypeOK
  <2>5. dev.leds = regular_buf(buf_time(counter - 1))
    BY <2>1, <2>3, <2>4 DEF IInv, LedsComing, Reached, Target, Saving, Shown
  <2> QED BY <2>4, <2>5, Clock
<1> QED BY <1>1, Inductive, PTL

=============================================================================
