--------------------------- MODULE SessionProofs ----------------------------
(***************************************************************************)
(* Proofs about Session and its Input, for every set of signals, any       *)
(* number of them, every player, and every length of the typed text.       *)
(***************************************************************************)
EXTENDS Session, SequenceTheorems, WellFoundedInduction, TLAPS

USE InputAssumption, SessionAssumption

-----------------------------------------------------------------------------
(* The inductive invariant, the input's part. *)

Keys == UNION { UNION { p.keys[i] : i \in 1 .. Len(p.keys) } : p \in Players }

Chars == Keys \cup {"ESC", "[", "~", "CR", "BQ", "BS", "A", "B", "C", "D", "1", "2", "5"}

\* The bytes of keys, with their marks.
Bytes == { x \in [byte : Chars, key : Keys, at : 1 .. 4] :
             x.at <= Len(BytesOf(x.key)) /\ x.byte = BytesOf(x.key)[x.at] }

\* The machine's state before a byte, and after it.
StateBefore(x) == x.at - 1
StateAfter(x) == IF x.at = Len(BytesOf(x.key)) THEN 0 ELSE x.at

\* The state before the bytes in q, or other if there are none.
First(q, other) == IF q = << >> THEN other ELSE StateBefore(q[1])

\* The bytes of a key follow each other, and are followed by the next key.
Chain(q) == \A i \in 1 .. Len(q) : i < Len(q) => StateAfter(q[i]) = StateBefore(q[i + 1])

\* The bytes not yet read, in stdin and then line, are a rest of a key and
\* then whole keys; get_command's state is that of the rest.
Stream ==
  /\ Chain(stdin) /\ Chain(line)
  /\ line # << >> => StateAfter(line[Len(line)]) = 0
  /\ stdin # << >> => StateAfter(stdin[Len(stdin)]) = First(line, 0)
  /\ state = First(stdin, First(line, 0))

InputTypeOK ==
  /\ player \in Players /\ keysDone \in Nat
  /\ line \in Seq(Bytes) /\ stdin \in Seq(Bytes)
  /\ state \in 0 .. 3
  /\ typing \in Seq(Chars) /\ Len(typing) <= MaxTyped
  /\ meant \in [text : {typing}, cmd : {cmd}]

InputOK == InputTypeOK /\ Stream

-----------------------------------------------------------------------------
(* The process's part. *)

stack0 == << >>
stack1 == <<"cancel_status_thread">>
stack2 == <<"clear_mode_X", "cancel_status_thread">>
stack3 == <<"shutdown_input", "clear_mode_X", "cancel_status_thread">>

\* fn has been acquired and not pushed, or popped and not executed.
InHand == at \in {"push", "malloc", "link", "exec"}

ProcessTypeOK ==
  /\ fn \in CleanupFns \cup {"none"}
  /\ disp \in [Signals -> {"default", "catch"}] /\ blocked \subseteq Signals
  /\ leave \in {"no", "return", "panic"} \cup Signals
  /\ vga \in {"text", "modeX", "blank"} /\ mapped \in BOOLEAN
  /\ term \in {"cooked", "raw"} /\ others \subseteq {"status", "timer"}
  /\ ended \in {"no", "done", "killed"} /\ unguarded \subseteq CleanupFns
  /\ stack \in {stack0, stack1, stack2, stack3}

\* The stack at each place of the main thread.
Places ==
  /\ at \in {"start", "world", "thread", "end"} => stack = stack0
  /\ at = "modex" => stack = stack1
  /\ at = "input" => stack = stack2
  /\ at \in {"loop", "act", "quit1", "quit2"} => stack = stack3
  /\ InHand => \/ fn = "cancel_status_thread" /\ stack = stack0
               \/ fn = "clear_mode_X" /\ stack = stack1
               \/ fn = "shutdown_input" /\ stack = stack2

\* Whether the cleanup is still to come.
VgaToClean == stack \in {stack2, stack3} \/ (InHand /\ fn = "clear_mode_X")
TermToClean == stack = stack3 \/ (InHand /\ fn = "shutdown_input")

\* What is not as it was will be cleaned up, and clear_mode_X finds its
\* memory mapped, unless there was an untimely event.
Guarded ==
  /\ vga # "text" => VgaToClean \/ "clear_mode_X" \in unguarded
  /\ term # "cooked" => TermToClean \/ "shutdown_input" \in unguarded
  /\ VgaToClean => mapped \/ "clear_mode_X" \in unguarded \/ at = "quit2"
  /\ at = "quit2" => vga = "text"
  /\ ended = "done" => at = "end" \/ (at = "quit2" /\ term = "cooked")

ProcessOK == ProcessTypeOK /\ Places /\ Guarded

IInv == InputOK /\ ProcessOK
-----------------------------------------------------------------------------
(* Steps of the process. *)

\* The stacks are different.
LEMMA Stacks == /\ stack0 # stack1 /\ stack0 # stack2 /\ stack0 # stack3 /\ stack1 # stack2 /\ stack1 # stack3 /\ stack2 # stack3
                /\ <<"cancel_status_thread">> \o stack0 = stack1
                /\ <<"clear_mode_X">> \o stack1 = stack2
                /\ <<"shutdown_input">> \o stack2 = stack3
                /\ Head(stack1) = "cancel_status_thread" /\ Tail(stack1) = stack0
                /\ Head(stack2) = "clear_mode_X" /\ Tail(stack2) = stack1
                /\ Head(stack3) = "shutdown_input" /\ Tail(stack3) = stack2
<1> DEFINE c == "cancel_status_thread"
           m == "clear_mode_X"
           i == "shutdown_input"
           F == {c, m, i}
<1>2. stack0 # stack1 /\ stack0 # stack2 /\ stack0 # stack3
      /\ stack1 # stack2 /\ stack1 # stack3 /\ stack2 # stack3
  <2>1. stack1[1] = c /\ stack2[1] = m /\ stack3[1] = i
    BY DEF stack1, stack2, stack3
  <2>2. stack0 # stack1
    BY DEF stack0, stack1
  <2>3. stack0 # stack2
    BY DEF stack0, stack2
  <2>4. stack0 # stack3
    BY DEF stack0, stack3
  <2> QED BY <2>1, <2>2, <2>3, <2>4
<1> USE DEF stack0, stack1, stack2, stack3
<1>3. <<c>> \o stack0 = stack1
  <2>1. <<c>> \in Seq(F)
    OBVIOUS
  <2> QED BY <2>1, ConcatEmptySeq
<1>4. <<m>> \o stack1 = stack2
  <2>1. <<m>> \in Seq(F) /\ stack1 \in Seq(F) /\ stack2 \in Seq(F)
    OBVIOUS
  <2>2. Len(<<m>> \o stack1) = 2 /\ Len(stack2) = 2
        /\ (<<m>> \o stack1)[1] = m /\ (<<m>> \o stack1)[2] = c
    BY <2>1, ConcatProperties
  <2>3. <<m>> \o stack1 \in Seq(F)
    BY <2>1, ConcatProperties
  <2>4. \A k \in 1 .. 2 : (<<m>> \o stack1)[k] = stack2[k]
    BY <2>2
  <2> QED BY <2>1, <2>2, <2>3, <2>4, SeqEqual
<1>5. <<i>> \o stack2 = stack3
  <2>1. <<i>> \in Seq(F) /\ stack2 \in Seq(F) /\ stack3 \in Seq(F)
    OBVIOUS
  <2>2. Len(<<i>> \o stack2) = 3 /\ Len(stack3) = 3 /\ (<<i>> \o stack2)[1] = i
        /\ (<<i>> \o stack2)[2] = m /\ (<<i>> \o stack2)[3] = c
    BY <2>1, ConcatProperties
  <2>3. <<i>> \o stack2 \in Seq(F)
    BY <2>1, ConcatProperties
  <2>4. \A k \in 1 .. 3 : (<<i>> \o stack2)[k] = stack3[k]
    BY <2>2
  <2> QED BY <2>1, <2>2, <2>3, <2>4, SeqEqual
<1>6. Head(stack1) = "cancel_status_thread" /\ Tail(stack1) = stack0
  OBVIOUS
<1>7. Head(stack2) = "clear_mode_X" /\ Tail(stack2) = stack1
  OBVIOUS
<1>8. Head(stack3) = "shutdown_input" /\ Tail(stack3) = stack2
  OBVIOUS
<1> QED BY <1>2, <1>3, <1>4, <1>5, <1>6, <1>7, <1>8 DEF stack0

\* The names of the cleanup functions.
LEMMA Functions3 ==
  /\ CleanupFns = {"cancel_status_thread", "clear_mode_X", "shutdown_input"}
  /\ After["cancel_status_thread"] = "modex"
  /\ After["clear_mode_X"] = "input"
  /\ After["shutdown_input"] = "loop"
  BY DEF CleanupFns, After

\* The initial states.
LEMMA ProcessInit == Init => ProcessOK
  BY Stacks DEF Init, ProcessOK, ProcessTypeOK, Places, Guarded, InHand,
                VgaToClean, TermToClean, stack0

\* Starting, acquiring and pushing.
LEMMA AcquireOK ==
  /\ ProcessOK
  /\ \/ Start \/ BuildWorld \/ CreateStatusThread \/ set_mode_X \/ init_input \/ Fails
     \/ PushMalloc \/ PushMalloced \/ PushAbort
  => ProcessOK'
<1> SUFFICES ASSUME ProcessOK,
                    \/ Start \/ BuildWorld \/ CreateStatusThread \/ set_mode_X
                    \/ init_input \/ Fails \/ PushMalloc \/ PushMalloced \/ PushAbort
             PROVE  ProcessOK'
  OBVIOUS
<1> USE Stacks, Functions3 DEF ProcessOK, Goto, Leave, ThenPush, world, signalling, InHand,
        VgaToClean, TermToClean
<1>1. ProcessTypeOK'
  BY DEF ProcessTypeOK, Start, BuildWorld, CreateStatusThread, set_mode_X, init_input, Fails,
         PushMalloc, PushMalloced, PushAbort, Places
<1>2. Places'
  BY DEF Places, ProcessTypeOK, Start, BuildWorld, CreateStatusThread, set_mode_X, init_input, Fails,
         PushMalloc, PushMalloced, PushAbort
<1>3. Guarded'
  BY DEF Guarded, Places, ProcessTypeOK, Start, BuildWorld, CreateStatusThread, set_mode_X,
         init_input, Fails, PushMalloc, PushMalloced, PushAbort
<1> QED BY <1>1, <1>2, <1>3

\* What was in hand is on the stack.
LEMMA LinkOK == ProcessOK /\ PushLink => ProcessOK'
<1> SUFFICES ASSUME ProcessOK, PushLink PROVE ProcessOK'
  OBVIOUS
<1> USE Stacks, Functions3
<1>1. /\ at = "link" /\ at' = After[fn] /\ stack' = <<fn>> \o stack /\ fn' = "none"
      /\ others' = IF After[fn] = "loop" THEN others \cup {"timer"} ELSE others
      /\ UNCHANGED <<leave, vga, mapped, term, disp, blocked, unguarded, ended>>
  BY DEF PushLink, Goto, signalling
<1>2. \/ fn = "cancel_status_thread" /\ stack = stack0 /\ stack' = stack1 /\ at' = "modex"
      \/ fn = "clear_mode_X" /\ stack = stack1 /\ stack' = stack2 /\ at' = "input"
      \/ fn = "shutdown_input" /\ stack = stack2 /\ stack' = stack3 /\ at' = "loop"
  BY <1>1 DEF ProcessOK, Places, InHand
<1>3. ProcessTypeOK'
  BY <1>1, <1>2 DEF ProcessOK, ProcessTypeOK
<1>4. Places'
  BY <1>2 DEF Places, InHand
<1>5. Guarded'
  BY <1>1, <1>2 DEF ProcessOK, Guarded, InHand, VgaToClean, TermToClean
<1> QED BY <1>3, <1>4, <1>5 DEF ProcessOK

\* What was on the stack is in hand.
LEMMA UnlinkOK == ProcessOK /\ PopUnlink => ProcessOK'
<1> SUFFICES ASSUME ProcessOK, PopUnlink PROVE ProcessOK'
  OBVIOUS
<1> USE Stacks, Functions3
<1>1. /\ at = "pop" /\ ended = "no"
      /\ UNCHANGED <<leave, vga, mapped, term, others, disp, blocked, unguarded, ended>>
  BY DEF PopUnlink, world, signalling
<1>2. \/ stack = stack0 /\ stack' = stack0 /\ at' = "end" /\ fn' = fn
      \/ stack = stack1 /\ stack' = stack0 /\ at' = "exec" /\ fn' = "cancel_status_thread"
      \/ stack = stack2 /\ stack' = stack1 /\ at' = "exec" /\ fn' = "clear_mode_X"
      \/ stack = stack3 /\ stack' = stack2 /\ at' = "exec" /\ fn' = "shutdown_input"
  <2>1. stack0 = << >>
    BY DEF stack0
  <2> QED BY <2>1 DEF PopUnlink, ProcessOK, ProcessTypeOK
<1>3. ProcessTypeOK'
  BY <1>1, <1>2 DEF ProcessOK, ProcessTypeOK
<1>4. Places'
  BY <1>2 DEF Places, InHand
<1>5. Guarded'
  BY <1>1, <1>2 DEF ProcessOK, Guarded, InHand, VgaToClean, TermToClean
<1> QED BY <1>3, <1>4, <1>5 DEF ProcessOK

\* Executing a cleanup function, and freeing its structure.
LEMMA ExecuteOK ==
  /\ ProcessOK
  /\ \/ shutdown_input \/ cancel_status_thread \/ clear_mode_X
     \/ PopFree \/ PopFreed \/ End
  => ProcessOK'
<1> SUFFICES ASSUME ProcessOK,
                    \/ shutdown_input \/ cancel_status_thread \/ clear_mode_X
                    \/ PopFree \/ PopFreed \/ End
             PROVE  ProcessOK'
  OBVIOUS
<1> USE Stacks, Functions3 DEF ProcessOK, Goto, world, signalling, InHand, shutdown_input,
        cancel_status_thread, clear_mode_X, PopFree, PopFreed, End
<1>1. ProcessTypeOK'
  BY DEF ProcessTypeOK
<1>2. Places'
  BY DEF Places, ProcessTypeOK
<1>3. Guarded'
  BY DEF Guarded, Places, ProcessTypeOK, VgaToClean, TermToClean
<1> QED BY <1>1, <1>2, <1>3

\* The game loop, and its emergency exit.
LEMMA LoopOK ==
  ProcessOK /\ (Tick \/ Act \/ TimeFails \/ TimeFails1 \/ TimeFails2) => ProcessOK'
<1> SUFFICES ASSUME ProcessOK, Tick \/ Act \/ TimeFails \/ TimeFails1 \/ TimeFails2
             PROVE  ProcessOK'
  OBVIOUS
<1> USE Stacks, Functions3
<1>1. CASE Tick \/ Act
  <2>1. /\ at \in {"loop", "act"} /\ at' \in {"loop", "act", "pop"} /\ ended = "no"
        /\ leave' \in {leave, "return"}
        /\ UNCHANGED <<stack, fn, vga, mapped, term, others, disp, blocked, unguarded, ended>>
    BY <1>1 DEF Tick, Act, Goto, Leave, handle_typing, ChangeRoom, world, signalling
  <2> QED BY <2>1 DEF ProcessOK, ProcessTypeOK, Places, Guarded, InHand, VgaToClean, TermToClean
<1>2. CASE TimeFails \/ TimeFails1 \/ TimeFails2
  BY <1>2 DEF TimeFails, TimeFails1, TimeFails2, Goto, world, signalling,
       ProcessOK, ProcessTypeOK, Places, Guarded, InHand, VgaToClean, TermToClean
<1> QED BY <1>1, <1>2

\* A signal, wherever it finds the main thread.
LEMMA SignalOK ==
  ASSUME ProcessOK, NEW s \in Signals, ended = "no", catch_signal(s) \/ DefaultAction(s),
         UNCHANGED <<mapped, term, others>>,
         \/ vga' = vga
         \/ /\ vga' = "blank" /\ at = "exec" /\ fn = "clear_mode_X" /\ ~mapped
  PROVE  ProcessOK'
<1> USE Stacks, Functions3
<1>1. CASE catch_signal(s)
  <2>1. /\ at' = "pop" /\ fn' = "none" /\ leave' = s
        /\ disp' = [disp EXCEPT ![s] = "default"] /\ blocked' = blocked \cup {s}
        /\ unguarded' = unguarded \cup Gap
        /\ UNCHANGED <<stack, ended>>
    BY <1>1 DEF catch_signal, Leave
  <2>2. Gap \subseteq CleanupFns /\ (InHand => Gap = {fn})
        /\ (at = "quit2" => Gap = {"clear_mode_X"})
    BY DEF Gap, InHand, ProcessOK, Places
  <2>3. ProcessTypeOK'
    BY <2>1, <2>2 DEF ProcessOK, ProcessTypeOK
  <2>4. Places'
    BY <2>1 DEF Places, InHand
  <2>5. Guarded'
    BY <2>1, <2>2 DEF ProcessOK, ProcessTypeOK, Places, Guarded, InHand, VgaToClean, TermToClean
  <2> QED BY <2>3, <2>4, <2>5 DEF ProcessOK
<1>2. CASE DefaultAction(s)
  BY <1>2 DEF DefaultAction, ProcessOK, ProcessTypeOK, Places, Guarded, InHand,
              VgaToClean, TermToClean
<1> QED BY <1>1, <1>2

\* Every step keeps the process's part.
LEMMA ProcessNext == ProcessOK /\ [Next]_vars => ProcessOK'
<1> SUFFICES ASSUME ProcessOK, [Next]_vars PROVE ProcessOK'
  OBVIOUS
<1>1. CASE \E s \in Signals : Signal(s)
  BY <1>1, SignalOK DEF Signal, world
<1>2. CASE ClearFaults
  BY <1>2, SignalOK DEF ClearFaults
<1>3. CASE Player \/ UNCHANGED vars
  <2>1. UNCHANGED process
    BY <1>3 DEF Player, vars
  <2> QED BY <2>1 DEF process, ProcessOK, ProcessTypeOK, Places, Guarded, InHand,
                      VgaToClean, TermToClean
<1> QED BY <1>1, <1>2, <1>3, AcquireOK, LinkOK, UnlinkOK, ExecuteOK, LoopOK
        DEF Next, Main

-----------------------------------------------------------------------------
(* Induction, and what the recursive functions of Input compute. *)

\* Every set of natural numbers has a least one.
LEMMA LeastNumber ==
  ASSUME NEW T, T \subseteq Nat, T # {} PROVE \E k \in T : \A j \in T : k <= j
<1> DEFINE R == OpToRel(<, Nat)
<1>1. IsWellFoundedOn(R, Nat)
  BY NatLessThanWellFounded
<1>2. R = {ss \in Nat \X Nat : ss[1] < ss[2]}
  BY DEF OpToRel
<1> HIDE DEF R
<1>3. PICK k \in T : \A j \in T : ~(<<j, k>> \in R)
  BY <1>1, WFMin
<1>4. \A j \in T : ~(j < k)
  BY <1>2, <1>3
<1> QED BY <1>4

\* Induction up to n, for membership in a set.
LEMMA InductionUpTo ==
  ASSUME NEW n \in Nat, NEW S, 0 \in S,
         \A k \in 0 .. n : k < n /\ k \in S => k + 1 \in S
  PROVE  \A k \in 0 .. n : k \in S
<1> DEFINE T == { k \in 0 .. n : k \notin S }
<1> SUFFICES ASSUME T # {} PROVE FALSE
  OBVIOUS
<1>1. PICK k \in T : \A j \in T : k <= j
  <2>1. T \subseteq Nat
    OBVIOUS
  <2> HIDE DEF T
  <2> QED BY <2>1, LeastNumber
<1>2. k # 0 /\ k - 1 \in 0 .. n /\ k - 1 < n /\ (k - 1) + 1 = k
  BY <1>1
<1>3. k - 1 \in S
  <2>1. k - 1 \notin T
    BY <1>1, <1>2
  <2> QED BY <1>2, <2>1
<1> QED BY <1>2, <1>3

\* What ReadAll and KeysRead compute: f and g are ReadByte and ReadKey, byte
\* after byte.
Reading(f, g, n, r, m, bytes) ==
  /\ f = [i \in 0 .. n |-> IF i = 0 THEN r ELSE ReadByte(f[i - 1], bytes[i])]
  /\ g = [i \in 0 .. n |-> IF i = 0 THEN m ELSE ReadKey(g[i - 1], bytes[i])]

\* Such functions exist for every number of bytes: one more byte extends them.
LEMMA ReadingExists ==
  ASSUME NEW n \in Nat, NEW r, NEW m, NEW bytes
  PROVE  \E f, g : Reading(f, g, n, r, m, bytes)
<1> DEFINE S == { k \in 0 .. n : \E f, g : Reading(f, g, k, r, m, bytes) }
<1>1. 0 \in S
  <2> DEFINE f == [i \in 0 .. 0 |-> r]
             g == [i \in 0 .. 0 |-> m]
  <2>1. \A i \in 0 .. 0 : i = 0
    OBVIOUS
  <2>2. Reading(f, g, 0, r, m, bytes)
    BY <2>1 DEF Reading
  <2>3. 0 \in 0 .. n
    OBVIOUS
  <2> HIDE DEF f, g
  <2> QED BY <2>2, <2>3
<1>2. ASSUME NEW k \in 0 .. n, k < n, k \in S PROVE k + 1 \in S
  <2>1. PICK f, g : Reading(f, g, k, r, m, bytes)
    BY <1>2
  <2> DEFINE ff == [i \in 0 .. k + 1 |-> IF i = k + 1 THEN ReadByte(f[k], bytes[k + 1]) ELSE f[i]]
             gg == [i \in 0 .. k + 1 |-> IF i = k + 1 THEN ReadKey(g[k], bytes[k + 1]) ELSE g[i]]
  <2>2. \A i \in 0 .. k : ff[i] = f[i] /\ gg[i] = g[i]
    OBVIOUS
  <2>3. ff[k + 1] = ReadByte(f[k], bytes[k + 1]) /\ gg[k + 1] = ReadKey(g[k], bytes[k + 1])
    OBVIOUS
  <2>4. ff = [i \in 0 .. k + 1 |-> ff[i]] /\ gg = [i \in 0 .. k + 1 |-> gg[i]]
    OBVIOUS
  <2> HIDE DEF ff, gg
  <2>5. ASSUME NEW i \in 0 .. k + 1
        PROVE  /\ ff[i] = IF i = 0 THEN r ELSE ReadByte(ff[i - 1], bytes[i])
               /\ gg[i] = IF i = 0 THEN m ELSE ReadKey(gg[i - 1], bytes[i])
    <3>1. CASE i = k + 1
      <4>1. i # 0 /\ i - 1 = k /\ k \in 0 .. k
        BY <3>1
      <4> QED BY <2>2, <2>3, <3>1, <4>1
    <3>2. CASE i \in 0 .. k
      <4>1. ff[i] = f[i] /\ gg[i] = g[i]
        BY <2>2, <3>2
      <4>2. /\ f[i] = IF i = 0 THEN r ELSE ReadByte(f[i - 1], bytes[i])
            /\ g[i] = IF i = 0 THEN m ELSE ReadKey(g[i - 1], bytes[i])
        BY <2>1, <3>2 DEF Reading
      <4>3. i # 0 => i - 1 \in 0 .. k
        BY <3>2
      <4>4. i # 0 => ff[i - 1] = f[i - 1] /\ gg[i - 1] = g[i - 1]
        BY <2>2, <4>3
      <4> QED BY <4>1, <4>2, <4>4
    <3> QED BY <3>1, <3>2
  <2>6. Reading(ff, gg, k + 1, r, m, bytes)
    BY <2>4, <2>5 DEF Reading
  <2>7. k + 1 \in 0 .. n
    BY <1>2
  <2> QED BY <2>6, <2>7
<1>3. n \in S
  <2> HIDE DEF S
  <2>1. \A k \in 0 .. n : k < n /\ k \in S => k + 1 \in S
    BY <1>2
  <2>2. n \in 0 .. n
    OBVIOUS
  <2> QED BY <1>1, <2>1, <2>2, InductionUpTo
<1> QED BY <1>3

\* ReadAll is ReadByte, and KeysRead is ReadKey, byte after byte.
LEMMA ReadSteps ==
  ASSUME NEW r, NEW m, NEW bytes, Len(bytes) \in Nat
  PROVE  \E f, g : /\ f[0] = r /\ g[0] = m
                   /\ \A i \in 1 .. Len(bytes) : /\ f[i] = ReadByte(f[i - 1], bytes[i])
                                                 /\ g[i] = ReadKey(g[i - 1], bytes[i])
                   /\ ReadAll(r, bytes) = f[Len(bytes)]
                   /\ KeysRead(m, bytes) = g[Len(bytes)]
<1> DEFINE n == Len(bytes)
           IsF(f) == f = [i \in 0 .. n |-> IF i = 0 THEN r ELSE ReadByte(f[i - 1], bytes[i])]
           IsG(g) == g = [i \in 0 .. n |-> IF i = 0 THEN m ELSE ReadKey(g[i - 1], bytes[i])]
           f == CHOOSE f : IsF(f)
           g == CHOOSE g : IsG(g)
<1>1. (\E h : IsF(h)) /\ (\E h : IsG(h))
  <2>1. PICK f1, g1 : Reading(f1, g1, n, r, m, bytes)
    <3> HIDE DEF n
    <3> QED BY ReadingExists DEF n
  <2>2. IsF(f1) /\ IsG(g1)
    BY <2>1 DEF Reading
  <2> HIDE DEF IsF, IsG
  <2> QED BY <2>2
<1>2. ReadAll(r, bytes) = f[n] /\ KeysRead(m, bytes) = g[n]
  BY DEF ReadAll, KeysRead
<1>3. IsF(f) /\ IsG(g)
  <2> HIDE DEF IsF, IsG
  <2> QED BY <1>1
<1> HIDE DEF f, g
<1>4. f[0] = r /\ g[0] = m
  BY <1>3
<1>5. \A i \in 1 .. n : /\ f[i] = ReadByte(f[i - 1], bytes[i])
                        /\ g[i] = ReadKey(g[i - 1], bytes[i])
  <2> SUFFICES ASSUME NEW i \in 1 .. n
               PROVE  /\ f[i] = ReadByte(f[i - 1], bytes[i])
                      /\ g[i] = ReadKey(g[i - 1], bytes[i])
    OBVIOUS
  <2>1. i \in 0 .. n /\ i # 0
    OBVIOUS
  <2>2. f[i] = ReadByte(f[i - 1], bytes[i])
    BY <1>3, <2>1
  <2>3. g[i] = ReadKey(g[i - 1], bytes[i])
    BY <1>3, <2>1
  <2> QED BY <2>2, <2>3
<1> QED BY <1>2, <1>4, <1>5

-----------------------------------------------------------------------------
(* One byte, read by get_command's machine and as part of its key. *)

Commands == {"NONE", "TYPED", "QUIT", "UP", "DOWN", "LEFT", "RIGHT", "MOVE_LEFT",
             "ENTER", "MOVE_RIGHT"}

\* The machine and the reader of keys agree.
Agree(r, m) ==
  /\ r \in [state : 0 .. 3, typing : Seq(Chars), pushed : Commands, unread : Seq(Bytes)]
  /\ Len(r.typing) <= MaxTyped
  /\ m = [text |-> r.typing, cmd |-> r.pushed]

\* A key is one of the special ones or types a character.
LEMMA KeyKinds ==
  ASSUME NEW key \in Keys
  PROVE  key \in DOMAIN Special \/ (valid_typing(key) /\ key # "BS")
<1>1. PICK p \in Players : key \in UNION { p.keys[i] : i \in 1 .. Len(p.keys) }
  BY DEF Keys
<1>2. PICK i \in 1 .. Len(p.keys) : key \in p.keys[i]
  BY <1>1
<1> QED BY <1>2, PlayersAssumption

\* The bytes of the special keys.
LEMMA SpecialBytes ==
  /\ DOMAIN Special = {"UP", "DOWN", "RIGHT", "LEFT", "INSERT", "HOME", "PGUP", "ENTER",
                       "BACKSPACE", "QUIT"}
  /\ BytesOf("UP") = <<"ESC", "[", "A">> /\ BytesOf("DOWN") = <<"ESC", "[", "B">>
  /\ BytesOf("RIGHT") = <<"ESC", "[", "C">> /\ BytesOf("LEFT") = <<"ESC", "[", "D">>
  /\ BytesOf("INSERT") = <<"ESC", "[", "2", "~">> /\ BytesOf("HOME") = <<"ESC", "[", "1", "~">>
  /\ BytesOf("PGUP") = <<"ESC", "[", "5", "~">>
  /\ BytesOf("ENTER") = <<"CR">> /\ BytesOf("BACKSPACE") = <<"BS">> /\ BytesOf("QUIT") = <<"BQ">>
  BY DEF Special, BytesOf

\* The commands of keys.
LEMMA KeyCommands ==
  /\ DOMAIN KeyCommand = {"UP", "DOWN", "RIGHT", "LEFT", "INSERT", "HOME", "PGUP", "ENTER", "QUIT"}
  /\ KeyCommand["UP"] = "UP" /\ KeyCommand["DOWN"] = "DOWN"
  /\ KeyCommand["RIGHT"] = "RIGHT" /\ KeyCommand["LEFT"] = "LEFT"
  /\ KeyCommand["INSERT"] = "MOVE_LEFT" /\ KeyCommand["HOME"] = "ENTER"
  /\ KeyCommand["PGUP"] = "MOVE_RIGHT" /\ KeyCommand["ENTER"] = "TYPED"
  /\ KeyCommand["QUIT"] = "QUIT"
  BY DEF KeyCommand

\* Updating the fields that a byte can change.
LEMMA AgreeUpdate ==
  ASSUME NEW r, NEW m, Agree(r, m), NEW st \in 0 .. 3, NEW c \in Commands,
         NEW text \in Seq(Chars), Len(text) <= MaxTyped,
         NEW q, q = [state |-> st, typing |-> text, pushed |-> c, unread |-> r.unread]
  PROVE  Agree(q, [text |-> text, cmd |-> c])
<1>1. r.unread \in Seq(Bytes)
  BY DEF Agree
<1>2. q \in [state : 0 .. 3, typing : Seq(Chars), pushed : Commands, unread : Seq(Bytes)]
  BY <1>1
<1>3. q.typing = text /\ q.pushed = c
  OBVIOUS
<1> QED BY <1>2, <1>3 DEF Agree

\* Typing a character, or deleting one.
LEMMA Typing ==
  ASSUME NEW text \in Seq(Chars), Len(text) <= MaxTyped, NEW c \in Chars
  PROVE  /\ typed_a_char(text, c) \in Seq(Chars) /\ Len(typed_a_char(text, c)) <= MaxTyped
         /\ c # "BS" => typed_a_char(text, c) = IF Len(text) = MaxTyped THEN text
                                                ELSE text \o <<c>>
         /\ c = "BS" => typed_a_char(text, c) = SubSeq(text, 1, Len(text) - 1)
<1>1. Len(text) \in Nat /\ \A i \in 1 .. Len(text) : text[i] \in Chars
  BY LenProperties, ElementOfSeq
<1>2. CASE c = "BS"
  <2>1. CASE text = << >>
    <3>1. Len(text) = 0
      BY <2>1
    <3>2. SubSeq(text, 1, Len(text) - 1) = << >>
      BY <3>1, SubSeqEmpty
    <3> QED BY <1>2, <2>1, <3>2 DEF typed_a_char
  <2>2. CASE text # << >>
    <3>1. Len(text) # 0
      BY <2>2, EmptySeq
    <3>2. \A i \in 1 .. Len(text) - 1 : text[i] \in Chars
      BY <1>1
    <3>3. Len(text) - 1 \in Int
      BY <1>1
    <3>4. /\ SubSeq(text, 1, Len(text) - 1) \in Seq(Chars)
          /\ Len(SubSeq(text, 1, Len(text) - 1)) = IF 1 <= Len(text) - 1 THEN (Len(text) - 1) - 1 + 1 ELSE 0
      BY <3>2, <3>3, SubSeqProperties
    <3>5. typed_a_char(text, c) = SubSeq(text, 1, Len(text) - 1)
      BY <1>2, <2>2 DEF typed_a_char, Front
    <3> HIDE DEF typed_a_char
    <3>6. Len(SubSeq(text, 1, Len(text) - 1)) <= MaxTyped
      BY <1>1, <3>4
    <3> QED BY <1>2, <3>4, <3>5, <3>6
  <2> QED BY <2>1, <2>2
<1>3. CASE c # "BS"
  <2>1. CASE Len(text) < MaxTyped
    <3>1. typed_a_char(text, c) = Append(text, c) /\ Len(text) # MaxTyped
      BY <1>1, <1>3, <2>1 DEF typed_a_char
    <3>2. Append(text, c) \in Seq(Chars) /\ Len(Append(text, c)) = Len(text) + 1
      BY AppendProperties
    <3>3. Append(text, c) = text \o <<c>>
      BY AppendIsConcat
    <3> QED BY <1>1, <1>3, <2>1, <3>1, <3>2, <3>3
  <2>2. CASE ~(Len(text) < MaxTyped)
    <3>1. typed_a_char(text, c) = text /\ Len(text) = MaxTyped
      BY <1>1, <1>3, <2>2 DEF typed_a_char
    <3> QED BY <1>3, <3>1
  <2> QED BY <2>1, <2>2
<1> QED BY <1>2, <1>3

\* What the machine and the reader of keys make of the byte x.
Effect(r, m, x, st, text, c) ==
  /\ ReadByte(r, x) = [state |-> st, typing |-> text, pushed |-> c, unread |-> r.unread]
  /\ ReadKey(m, x) = [text |-> text, cmd |-> c]
  /\ StateAfter(x) = st
  /\ c = "QUIT" => st = 0

\* A key that types a character or deletes one.
LEMMA CharEffect ==
  ASSUME NEW r, NEW m, Agree(r, m), NEW x \in Bytes, r.pushed # "QUIT",
         r.state = StateBefore(x), x.key \notin DOMAIN KeyCommand
  PROVE  Effect(r, m, x, 0, typed_a_char(r.typing, x.byte), r.pushed)
<1> DEFINE c == x.byte
           text == typed_a_char(r.typing, c)
<1>1. /\ x.key \in Keys /\ x.at \in 1 .. 4 /\ c \in Chars
      /\ x.at <= Len(BytesOf(x.key)) /\ c = BytesOf(x.key)[x.at]
  BY DEF Bytes
<1>2. /\ BytesOf(x.key) = <<c>> /\ x.at = 1 /\ valid_typing(c)
      /\ (c = "BS" <=> x.key = "BACKSPACE") /\ (c # "BS" => x.key = c)
  <2>1. CASE x.key = "BACKSPACE"
    <3>1. BytesOf(x.key) = <<"BS">>
      BY <2>1, SpecialBytes
    <3>2. x.at = 1
      BY <1>1, <3>1
    <3> QED BY <1>1, <2>1, <3>1, <3>2 DEF valid_typing
  <2>2. CASE x.key # "BACKSPACE"
    <3>1. x.key \notin DOMAIN Special
      BY <2>2, SpecialBytes, KeyCommands
    <3>2. valid_typing(x.key) /\ x.key # "BS"
      BY <1>1, <3>1, KeyKinds
    <3>3. BytesOf(x.key) = <<x.key>>
      BY <3>1 DEF BytesOf
    <3>4. x.at = 1
      BY <1>1, <3>3
    <3> QED BY <1>1, <2>2, <3>2, <3>3, <3>4
  <2> QED BY <2>1, <2>2
<1>3. Len(BytesOf(x.key)) = 1 /\ r.state = 0
  BY <1>2 DEF StateBefore
<1>4. StateAfter(x) = 0
  BY <1>2, <1>3 DEF StateAfter
<1>5. /\ r \in [state : 0 .. 3, typing : Seq(Chars), pushed : Commands, unread : Seq(Bytes)]
      /\ Len(r.typing) <= MaxTyped /\ r.typing \in Seq(Chars)
      /\ m = [text |-> r.typing, cmd |-> r.pushed]
  BY DEF Agree
<1>6. ReadByte(r, x) = [r EXCEPT !.state = 0, !.typing = text]
  <2>1. c \notin {"ESC", "[", "~", "CR", "BQ"}
    BY <1>2 DEF valid_typing
  <2>2. ReadByte(r, x) = PlainByte(r, c)
    BY <1>3, <2>1 DEF ReadByte
  <2> QED BY <1>2, <2>2 DEF PlainByte
<1> HIDE DEF text
<1>7. ReadByte(r, x) = [state |-> 0, typing |-> text, pushed |-> r.pushed, unread |-> r.unread]
  BY <1>5, <1>6
<1>8. ReadKey(m, x) = [text |-> text, cmd |-> r.pushed]
  <2>1. x.at = Decisive(x.key) /\ m.cmd # "QUIT"
    BY <1>2, <1>3, <1>5 DEF Decisive
  <2>2. CASE c = "BS"
    <3>1. text = SubSeq(r.typing, 1, Len(r.typing) - 1)
      BY <1>1, <1>5, <2>2, Typing DEF text
    <3>2. ReadKey(m, x) = [m EXCEPT !.text = SubSeq(@, 1, Len(@) - 1)]
      BY <1>2, <2>1, <2>2 DEF ReadKey
    <3> QED BY <1>5, <3>1, <3>2
  <2>3. CASE c # "BS"
    <3>1. text = IF Len(r.typing) = MaxTyped THEN r.typing ELSE r.typing \o <<c>>
      BY <1>1, <1>5, <2>3, Typing DEF text
    <3>2. ReadKey(m, x) = [m EXCEPT !.text = IF Len(@) = MaxTyped THEN @ ELSE @ \o <<c>>]
      BY <1>2, <2>1, <2>3 DEF ReadKey
    <3> QED BY <1>5, <3>1, <3>2
  <2> QED BY <2>2, <2>3
<1> QED BY <1>4, <1>7, <1>8 DEF Effect, text

\* ENTER and the backquote.
LEMMA PlainEffect ==
  ASSUME NEW r, NEW m, Agree(r, m), NEW x \in Bytes, r.pushed # "QUIT",
         r.state = StateBefore(x), x.key \in {"ENTER", "QUIT"}
  PROVE  Effect(r, m, x, 0, r.typing, KeyCommand[x.key])
<1>1. /\ x.at \in 1 .. 4 /\ x.at <= Len(BytesOf(x.key)) /\ x.byte = BytesOf(x.key)[x.at]
  BY DEF Bytes
<1>2. \/ x.key = "ENTER" /\ BytesOf(x.key) = <<"CR">>
      \/ x.key = "QUIT" /\ BytesOf(x.key) = <<"BQ">>
  BY SpecialBytes
<1>3. Len(BytesOf(x.key)) = 1 /\ x.at = 1
  BY <1>1, <1>2
<1>4. /\ r.state = 0 /\ StateAfter(x) = 0 /\ Decisive(x.key) = 1
      /\ \/ x.key = "ENTER" /\ x.byte = "CR"
         \/ x.key = "QUIT" /\ x.byte = "BQ"
  BY <1>1, <1>2, <1>3 DEF StateBefore, StateAfter, Decisive
<1>5. /\ r \in [state : 0 .. 3, typing : Seq(Chars), pushed : Commands, unread : Seq(Bytes)]
      /\ m = [text |-> r.typing, cmd |-> r.pushed]
  BY DEF Agree
<1>6. ReadByte(r, x) = [state |-> 0, typing |-> r.typing, pushed |-> KeyCommand[x.key],
                        unread |-> r.unread]
  <2>1. CASE x.key = "ENTER"
    <3>1. ReadByte(r, x) = PlainByte(r, "CR")
      BY <1>4, <2>1 DEF ReadByte
    <3>2. PlainByte(r, "CR") = [r EXCEPT !.state = 0, !.pushed = "TYPED"]
      BY <1>5 DEF PlainByte, valid_typing
    <3> QED BY <1>5, <2>1, <3>1, <3>2, KeyCommands
  <2>2. CASE x.key = "QUIT"
    <3>1. ReadByte(r, x) = [r EXCEPT !.pushed = "QUIT"]
      BY <1>4, <2>2 DEF ReadByte
    <3> QED BY <1>4, <1>5, <2>2, <3>1, KeyCommands
  <2> QED BY <2>1, <2>2
<1>7. ReadKey(m, x) = [text |-> r.typing, cmd |-> KeyCommand[x.key]]
  BY <1>3, <1>4, <1>5, KeyCommands DEF ReadKey
<1> QED BY <1>4, <1>6, <1>7 DEF Effect

\* The keys that send an escape sequence: their third byte decides.
LEMMA EscapeEffect ==
  ASSUME NEW r, NEW m, Agree(r, m), NEW x \in Bytes, r.pushed # "QUIT",
         r.state = StateBefore(x),
         x.key \in {"UP", "DOWN", "RIGHT", "LEFT", "INSERT", "HOME", "PGUP"}
  PROVE  Effect(r, m, x, StateAfter(x), r.typing,
                IF x.at = 3 THEN KeyCommand[x.key] ELSE r.pushed)
<1> DEFINE key == x.key
           c == x.byte
           n == Len(BytesOf(key))
<1>1. x.at \in 1 .. 4 /\ x.at <= n /\ c = BytesOf(key)[x.at]
  BY DEF Bytes
<1>2. /\ r \in [state : 0 .. 3, typing : Seq(Chars), pushed : Commands, unread : Seq(Bytes)]
      /\ m = [text |-> r.typing, cmd |-> r.pushed] /\ m.cmd # "QUIT"
  BY DEF Agree
<1>3. PICK e \in {"A", "B", "C", "D", "1", "2", "5"} :
         \/ /\ e \in {"A", "B", "C", "D"} /\ BytesOf(key) = <<"ESC", "[", e>>
            /\ Arrow[e] = KeyCommand[key]
         \/ /\ e \in {"1", "2", "5"} /\ BytesOf(key) = <<"ESC", "[", e, "~">>
            /\ Paging(e) = KeyCommand[key]
  <2>1. key \in {"UP", "DOWN", "RIGHT", "LEFT"} =>
          \E e \in {"A", "B", "C", "D"} : /\ BytesOf(key) = <<"ESC", "[", e>>
                                          /\ Arrow[e] = KeyCommand[key]
    BY SpecialBytes, KeyCommands DEF Arrow
  <2>2. key \in {"INSERT", "HOME", "PGUP"} =>
          \E e \in {"1", "2", "5"} : /\ BytesOf(key) = <<"ESC", "[", e, "~">>
                                     /\ Paging(e) = KeyCommand[key]
    BY SpecialBytes, KeyCommands DEF Paging
  <2> QED BY <2>1, <2>2
<1>9. n = 3 \/ n = 4
  BY <1>3
<1>10. (n = 4) <=> (e \in {"1", "2", "5"})
  BY <1>3
<1>12. BytesOf(key)[1] = "ESC" /\ BytesOf(key)[2] = "[" /\ BytesOf(key)[3] = e
  BY <1>3
<1>13. n = 4 => BytesOf(key)[4] = "~"
  BY <1>3
<1>11. KeyCommand[key] # "QUIT" /\ key \in DOMAIN KeyCommand
  BY KeyCommands
<1>4. r.state = x.at - 1 /\ Decisive(key) = 3
  <2>1. r.state = x.at - 1
    BY DEF StateBefore
  <2>2. n # 1
    BY <1>9
  <2>3. Decisive(key) = 3
    BY <2>2 DEF Decisive
  <2> QED BY <2>1, <2>3
<1>5. CASE x.at = 1
  <2>1. c = "ESC" /\ StateAfter(x) = 1 /\ r.state = 0
    BY <1>1, <1>4, <1>5, <1>9, <1>12 DEF StateAfter
  <2>2. ReadByte(r, x) = [r EXCEPT !.state = 1]
    BY <2>1 DEF ReadByte
  <2>3. ReadKey(m, x) = m
    BY <1>4, <1>5 DEF ReadKey
  <2> QED BY <1>2, <1>5, <2>1, <2>2, <2>3 DEF Effect
<1>6. CASE x.at = 2
  <2>1. c = "[" /\ StateAfter(x) = 2 /\ r.state = 1
    BY <1>1, <1>4, <1>6, <1>9, <1>12 DEF StateAfter
  <2>2. ReadByte(r, x) = [r EXCEPT !.state = 2]
    BY <2>1 DEF ReadByte
  <2>3. ReadKey(m, x) = m
    BY <1>4, <1>6 DEF ReadKey
  <2> QED BY <1>2, <1>6, <2>1, <2>2, <2>3 DEF Effect
<1>7. CASE x.at = 3
  <2>1. r.state = 2 /\ c = e /\ StateAfter(x) = (IF n = 3 THEN 0 ELSE 3)
    BY <1>1, <1>4, <1>7, <1>9, <1>12 DEF StateAfter
  <2>2. ReadKey(m, x) = [text |-> r.typing, cmd |-> KeyCommand[key]]
    <3>1. ReadKey(m, x) = [m EXCEPT !.cmd = KeyCommand[key]]
      BY <1>2, <1>4, <1>7, <1>11 DEF ReadKey
    <3> QED BY <1>2, <3>1
  <2>3. CASE e \in {"A", "B", "C", "D"}
    <3>1. n = 3 /\ Arrow[e] = KeyCommand[key] /\ e \in DOMAIN Arrow
      BY <1>3, <1>9, <1>10, <2>3 DEF Arrow
    <3>2. ReadByte(r, x) = [r EXCEPT !.state = 0, !.pushed = KeyCommand[key]]
      BY <2>1, <2>3, <3>1 DEF ReadByte
    <3> QED BY <1>2, <1>7, <1>11, <2>1, <2>2, <3>1, <3>2 DEF Effect
  <2>4. CASE e \in {"1", "2", "5"}
    <3>1. n = 4 /\ Paging(e) = KeyCommand[key] /\ e \notin DOMAIN Arrow
      BY <1>3, <1>10, <2>4 DEF Arrow
    <3>2. ReadByte(r, x) = [r EXCEPT !.state = 3, !.pushed = KeyCommand[key]]
      BY <2>1, <2>4, <3>1 DEF ReadByte
    <3>3. StateAfter(x) = 3
      BY <2>1, <3>1
    <3> QED BY <1>2, <1>7, <1>11, <2>2, <3>2, <3>3 DEF Effect
  <2> QED BY <2>3, <2>4
<1>8. CASE x.at = 4
  <2>1. r.state = 3 /\ c = "~" /\ n = 4 /\ StateAfter(x) = 0
    BY <1>1, <1>4, <1>8, <1>9, <1>13 DEF StateAfter
  <2>2. ReadByte(r, x) = [r EXCEPT !.state = 0]
    <3>1. ReadByte(r, x) = PlainByte(r, "~")
      BY <2>1 DEF ReadByte
    <3>2. PlainByte(r, "~") = [r EXCEPT !.state = 0]
      BY <1>2 DEF PlainByte, valid_typing
    <3> QED BY <3>1, <3>2
  <2>3. ReadKey(m, x) = m
    BY <1>4, <1>8 DEF ReadKey
  <2> QED BY <1>2, <1>8, <2>1, <2>2, <2>3 DEF Effect
<1> QED BY <1>1, <1>5, <1>6, <1>7, <1>8

\* Any byte: the machine and the reader of keys still agree, and the
\* machine's state is the one after that byte.
LEMMA ByteStep ==
  ASSUME NEW r, NEW m, Agree(r, m), NEW x \in Bytes, r.pushed # "QUIT",
         r.state = StateBefore(x)
  PROVE  /\ Agree(ReadByte(r, x), ReadKey(m, x))
         /\ ReadByte(r, x).state = StateAfter(x) /\ ReadByte(r, x).unread = r.unread
         /\ ReadByte(r, x).pushed = "QUIT" => StateAfter(x) = 0
<1>1. /\ x.key \in Keys /\ x.byte \in Chars /\ x.at \in 1 .. 4
      /\ r.typing \in Seq(Chars) /\ Len(r.typing) <= MaxTyped /\ r.pushed \in Commands
  BY DEF Bytes, Agree
<1>2. PICK st \in 0 .. 3, text \in Seq(Chars), c \in Commands :
         Len(text) <= MaxTyped /\ Effect(r, m, x, st, text, c)
  <2>1. CASE x.key \notin DOMAIN KeyCommand
    <3> DEFINE text == typed_a_char(r.typing, x.byte)
    <3>1. Effect(r, m, x, 0, text, r.pushed)
      BY <2>1, CharEffect
    <3>2. text \in Seq(Chars) /\ Len(text) <= MaxTyped
      BY <1>1, Typing
    <3>3. 0 \in 0 .. 3
      OBVIOUS
    <3> HIDE DEF text
    <3> QED BY <1>1, <3>1, <3>2, <3>3
  <2>2. CASE x.key \in {"ENTER", "QUIT"}
    <3>1. KeyCommand[x.key] \in Commands /\ 0 \in 0 .. 3
      BY <2>2, KeyCommands DEF Commands
    <3>2. Effect(r, m, x, 0, r.typing, KeyCommand[x.key])
      BY <2>2, PlainEffect
    <3> QED BY <1>1, <3>1, <3>2
  <2>3. CASE x.key \in {"UP", "DOWN", "RIGHT", "LEFT", "INSERT", "HOME", "PGUP"}
    <3> DEFINE c == IF x.at = 3 THEN KeyCommand[x.key] ELSE r.pushed
    <3>1. c \in Commands
      BY <1>1, <2>3, KeyCommands DEF Commands
    <3>2. Effect(r, m, x, StateAfter(x), r.typing, c)
      BY <2>3, EscapeEffect
    <3>3. StateAfter(x) \in 0 .. 3
      <4>1. PICK n \in {3, 4} : n = Len(BytesOf(x.key))
        BY <2>3, SpecialBytes
      <4>2. x.at <= n
        BY <4>1 DEF Bytes
      <4>3. StateAfter(x) = IF x.at = n THEN 0 ELSE x.at
        BY <4>1 DEF StateAfter
      <4> QED BY <1>1, <4>2, <4>3
    <3> HIDE DEF c
    <3> QED BY <1>1, <3>1, <3>2, <3>3
  <2> QED BY <2>1, <2>2, <2>3, KeyCommands
<1> DEFINE q == ReadByte(r, x)
<1>3. /\ q = [state |-> st, typing |-> text, pushed |-> c, unread |-> r.unread]
      /\ ReadKey(m, x) = [text |-> text, cmd |-> c]
      /\ StateAfter(x) = st /\ (c = "QUIT" => st = 0)
  BY <1>2 DEF Effect
<1> HIDE DEF q
<1>4. Agree(q, ReadKey(m, x))
  BY <1>2, <1>3, AgreeUpdate
<1>5. q.state = st /\ q.unread = r.unread /\ q.pushed = c
  BY <1>3
<1> QED BY <1>3, <1>4, <1>5 DEF q

-----------------------------------------------------------------------------
(* get_command. *)

\* Where the machine is after i bytes of stdin: it expects the next one, or
\* it has seen a backquote at k and leaves the bytes behind it unread.
Read(r, m, i) ==
  /\ Agree(r, m)
  /\ r.pushed # "QUIT" =>
       /\ r.unread = << >>
       /\ r.state = IF i < Len(stdin) THEN StateBefore(stdin[i + 1]) ELSE First(line, 0)
  /\ r.pushed = "QUIT" =>
       /\ r.state = 0
       /\ \E k \in 1 .. i : /\ StateAfter(stdin[k]) = 0
                            /\ Len(r.unread) = i - k
                            /\ \A j \in 1 .. i - k : r.unread[j] = stdin[k + j]

\* One byte more.
LEMMA ReadOne ==
  ASSUME InputOK, NEW r, NEW m, NEW i \in 0 .. Len(stdin), i < Len(stdin), Read(r, m, i)
  PROVE  Read(ReadByte(r, stdin[i + 1]), ReadKey(m, stdin[i + 1]), i + 1)
<1> DEFINE x == stdin[i + 1]
           rr == ReadByte(r, x)
           mm == ReadKey(m, x)
<1>1. /\ stdin \in Seq(Bytes) /\ Len(stdin) \in Nat /\ i + 1 \in 1 .. Len(stdin)
      /\ x \in Bytes
  <2>1. stdin \in Seq(Bytes) /\ Len(stdin) \in Nat
    BY LenProperties DEF InputOK, InputTypeOK
  <2>2. i + 1 \in 1 .. Len(stdin)
    BY <2>1
  <2> QED BY <2>1, <2>2, ElementOfSeq
<1>2. Agree(r, m)
  BY DEF Read
<1>3. CASE r.pushed # "QUIT"
  <2>1. r.state = StateBefore(x) /\ r.unread = << >>
    BY <1>3 DEF Read
  <2> HIDE DEF x
  <2>2. /\ Agree(rr, mm) /\ rr.state = StateAfter(x) /\ rr.unread = << >>
        /\ rr.pushed = "QUIT" => StateAfter(x) = 0
    BY <1>1, <1>2, <1>3, <2>1, ByteStep
  <2> HIDE DEF rr, mm
  <2>3. StateAfter(x) = IF i + 1 < Len(stdin) THEN StateBefore(stdin[i + 1 + 1]) ELSE First(line, 0)
    <3>1. CASE i + 1 < Len(stdin)
      BY <1>1, <3>1 DEF x, InputOK, Stream, Chain
    <3>2. CASE ~(i + 1 < Len(stdin))
      <4>1. i + 1 = Len(stdin) /\ stdin # << >>
        BY <1>1, <3>2
      <4> QED BY <3>2, <4>1 DEF x, InputOK, Stream
    <3> QED BY <3>1, <3>2
  <2>4. ASSUME rr.pushed = "QUIT"
        PROVE  \E k \in 1 .. i + 1 : /\ StateAfter(stdin[k]) = 0
                                     /\ Len(rr.unread) = (i + 1) - k
                                     /\ \A j \in 1 .. (i + 1) - k : rr.unread[j] = stdin[k + j]
    <3>1. /\ i + 1 \in 1 .. i + 1 /\ (i + 1) - (i + 1) = 0
          /\ 1 .. (i + 1) - (i + 1) = {}
      BY <1>1
    <3>2. Len(rr.unread) = (i + 1) - (i + 1)
      BY <2>2, <3>1
    <3>3. StateAfter(stdin[i + 1]) = 0
      BY <2>2, <2>4 DEF x
    <3> WITNESS i + 1 \in 1 .. i + 1
    <3> QED BY <3>1, <3>2, <3>3
  <2>5. Read(rr, mm, i + 1)
    BY <2>2, <2>3, <2>4 DEF Read
  <2> QED BY <2>5 DEF rr, mm, x
<1>4. CASE r.pushed = "QUIT"
  <2>1. /\ r \in [state : 0 .. 3, typing : Seq(Chars), pushed : Commands, unread : Seq(Bytes)]
        /\ Len(r.typing) <= MaxTyped /\ m = [text |-> r.typing, cmd |-> "QUIT"]
        /\ r.unread \in Seq(Bytes)
    BY <1>2, <1>4 DEF Agree
  <2>2. rr = [r EXCEPT !.unread = Append(@, x)] /\ mm = m
    BY <1>4, <2>1 DEF ReadByte, ReadKey
  <2> HIDE DEF x, rr, mm
  <2>3. /\ Append(r.unread, x) \in Seq(Bytes) /\ Len(Append(r.unread, x)) = Len(r.unread) + 1
        /\ \A j \in 1 .. Len(r.unread) : Append(r.unread, x)[j] = r.unread[j]
        /\ Append(r.unread, x)[Len(r.unread) + 1] = x
    BY <1>1, <2>1, AppendProperties
  <2>4. /\ Agree(rr, mm) /\ rr.pushed = "QUIT" /\ rr.state = r.state
        /\ rr.unread = Append(r.unread, x)
    BY <1>4, <2>1, <2>2, <2>3 DEF Agree
  <2>5. PICK k \in 1 .. i : /\ StateAfter(stdin[k]) = 0
                            /\ Len(r.unread) = i - k
                            /\ \A j \in 1 .. i - k : r.unread[j] = stdin[k + j]
    BY <1>4 DEF Read
  <2>6. /\ k \in 1 .. i + 1 /\ Len(rr.unread) = (i + 1) - k
        /\ \A j \in 1 .. (i + 1) - k : rr.unread[j] = stdin[k + j]
    <3>1. k \in 1 .. i + 1 /\ Len(rr.unread) = (i + 1) - k
      BY <2>3, <2>4, <2>5
    <3>2. ASSUME NEW j \in 1 .. (i + 1) - k PROVE rr.unread[j] = stdin[k + j]
      <4>1. CASE j \in 1 .. i - k
        BY <2>3, <2>4, <2>5, <4>1
      <4>2. CASE j = (i + 1) - k
        <5>1. k + j = i + 1 /\ j = Len(r.unread) + 1
          BY <2>5, <4>2
        <5> QED BY <2>3, <2>4, <5>1 DEF x
      <4>3. j \in 1 .. i - k \/ j = (i + 1) - k
        BY <2>5
      <4> QED BY <4>1, <4>2, <4>3
    <3> QED BY <3>1, <3>2
  <2>7. r.state = 0
    BY <1>4 DEF Read
  <2>8. Read(rr, mm, i + 1)
    BY <2>4, <2>5, <2>6, <2>7 DEF Read
  <2> QED BY <2>8 DEF rr, mm, x
<1> QED BY <1>3, <1>4

\* All bytes.
LEMMA ReadStdin ==
  ASSUME InputOK
  PROVE  Read(ReadAll(Entry, stdin), KeysRead([meant EXCEPT !.cmd = "NONE"], stdin), Len(stdin))
<1> DEFINE n == Len(stdin)
           m0 == [meant EXCEPT !.cmd = "NONE"]
<1>1. /\ stdin \in Seq(Bytes) /\ n \in Nat /\ state \in 0 .. 3
      /\ typing \in Seq(Chars) /\ Len(typing) <= MaxTyped
      /\ meant \in [text : {typing}, cmd : {cmd}]
  BY LenProperties DEF InputOK, InputTypeOK
<1>2. m0 = [text |-> typing, cmd |-> "NONE"]
  BY <1>1
<1>3. Read(Entry, m0, 0)
  <2>1. << >> \in Seq(Bytes)
    BY EmptySeq
  <2>2. Entry \in [state : 0 .. 3, typing : Seq(Chars), pushed : Commands, unread : Seq(Bytes)]
    BY <1>1, <2>1 DEF Entry, Commands
  <2>3. /\ Entry.typing = typing /\ Entry.pushed = "NONE" /\ Entry.state = state
        /\ Entry.unread = << >>
    BY DEF Entry
  <2>4. Agree(Entry, m0)
    BY <1>1, <1>2, <2>2, <2>3 DEF Agree
  <2>5. state = IF 0 < n THEN StateBefore(stdin[0 + 1]) ELSE First(line, 0)
    <3>1. 0 < n <=> stdin # << >>
      BY <1>1, EmptySeq
    <3> QED BY <3>1 DEF InputOK, Stream, First
  <2> QED BY <2>3, <2>4, <2>5 DEF Read
<1> HIDE DEF m0
<1>4. PICK f, g : /\ f[0] = Entry /\ g[0] = m0
                  /\ \A i \in 1 .. n : /\ f[i] = ReadByte(f[i - 1], stdin[i])
                                       /\ g[i] = ReadKey(g[i - 1], stdin[i])
                  /\ ReadAll(Entry, stdin) = f[n] /\ KeysRead(m0, stdin) = g[n]
  <2>1. Len(stdin) \in Nat
    BY <1>1
  <2> HIDE DEF n
  <2> QED BY <2>1, ReadSteps DEF n
<1> DEFINE S == { i \in 0 .. n : Read(f[i], g[i], i) }
<1>5. 0 \in S
  BY <1>1, <1>3, <1>4
<1>6. ASSUME NEW i \in 0 .. n, i < n, i \in S PROVE i + 1 \in S
  <2>1. i + 1 \in 1 .. n /\ (i + 1) - 1 = i /\ i + 1 \in 0 .. n
    BY <1>1, <1>6
  <2>2. f[i + 1] = ReadByte(f[i], stdin[i + 1]) /\ g[i + 1] = ReadKey(g[i], stdin[i + 1])
    BY <1>4, <2>1
  <2>3. Read(f[i], g[i], i)
    BY <1>6
  <2>4. Read(f[i + 1], g[i + 1], i + 1)
    BY <1>6, <2>2, <2>3, ReadOne
  <2> QED BY <2>1, <2>4
<1>7. n \in S
  <2> HIDE DEF S
  <2>1. \A i \in 0 .. n : i < n /\ i \in S => i + 1 \in S
    BY <1>6
  <2>2. n \in 0 .. n
    BY <1>1
  <2> HIDE DEF n
  <2> QED BY <1>1, <1>5, <2>1, <2>2, InductionUpTo
<1> QED BY <1>4, <1>7 DEF m0

\* A call of get_command.
LEMMA GetCommandOK == InputOK /\ get_command => InputOK'
<1> SUFFICES ASSUME InputOK, get_command PROVE InputOK'
  OBVIOUS
<1> DEFINE n == Len(stdin)
           r == ReadAll(Entry, stdin)
           m == KeysRead([meant EXCEPT !.cmd = "NONE"], stdin)
<1>1. Read(r, m, n)
  BY ReadStdin
<1>2. /\ state' = r.state /\ typing' = r.typing /\ stdin' = r.unread
      /\ cmd' = IF r.pushed = "QUIT" THEN "QUIT" ELSE get_tux_command(r.pushed)
      /\ meant' = IF m.cmd = "QUIT" THEN m ELSE [m EXCEPT !.cmd = get_tux_command(@)]
      /\ UNCHANGED <<player, keysDone, line>>
  BY DEF get_command
<1> HIDE DEF r, m
<1>3. /\ stdin \in Seq(Bytes) /\ n \in Nat /\ line \in Seq(Bytes)
  BY LenProperties DEF InputOK, InputTypeOK
<1>4. /\ r \in [state : 0 .. 3, typing : Seq(Chars), pushed : Commands, unread : Seq(Bytes)]
      /\ Len(r.typing) <= MaxTyped /\ m = [text |-> r.typing, cmd |-> r.pushed]
  BY <1>1 DEF Read, Agree
<1>5. InputTypeOK'
  <2>1. meant' = [text |-> typing', cmd |-> cmd']
    BY <1>2, <1>4
  <2>2. meant' \in [text : {typing'}, cmd : {cmd'}]
    BY <2>1
  <2> QED BY <1>2, <1>4, <2>2 DEF InputOK, InputTypeOK
<1>6. CASE r.pushed # "QUIT"
  <2>1. r.unread = << >> /\ r.state = First(line, 0)
    BY <1>1, <1>3, <1>6 DEF Read
  <2>2. stdin' = << >> /\ Len(stdin') = 0
    BY <1>2, <2>1
  <2>3. Chain(stdin')
    BY <2>2 DEF Chain
  <2>4. Stream'
    BY <1>2, <2>1, <2>2, <2>3 DEF InputOK, Stream, Chain, First
  <2> QED BY <1>5, <2>4 DEF InputOK
<1>7. CASE r.pushed = "QUIT"
  <2>1. PICK k \in 1 .. n : /\ StateAfter(stdin[k]) = 0
                            /\ Len(r.unread) = n - k
                            /\ \A j \in 1 .. n - k : r.unread[j] = stdin[k + j]
    BY <1>1, <1>7 DEF Read
  <2>2. r.state = 0
    BY <1>1, <1>7 DEF Read
  <2>3. PICK u \in Seq(Bytes) : u = r.unread
    BY <1>4
  <2>4. Len(u) = n - k /\ \A j \in 1 .. n - k : u[j] = stdin[k + j]
    BY <2>1, <2>3
  <2>5. stdin' = u /\ state' = 0 /\ line' = line
    BY <1>2, <2>2, <2>3
  <2>6. Chain(u)
    <3> SUFFICES ASSUME NEW j \in 1 .. Len(u), j < Len(u)
                 PROVE  StateAfter(u[j]) = StateBefore(u[j + 1])
      BY DEF Chain
    <3>1. /\ j \in 1 .. n - k /\ j + 1 \in 1 .. n - k
          /\ k + j \in 1 .. n /\ k + j < n /\ k + (j + 1) = (k + j) + 1
      BY <1>3, <2>4
    <3>2. u[j] = stdin[k + j] /\ u[j + 1] = stdin[(k + j) + 1]
      BY <2>4, <3>1
    <3> QED BY <3>1, <3>2 DEF InputOK, Stream, Chain
  <2>7. u # << >> => StateAfter(u[Len(u)]) = First(line, 0)
    <3> SUFFICES ASSUME u # << >> PROVE StateAfter(u[Len(u)]) = First(line, 0)
      OBVIOUS
    <3>1. Len(u) # 0 /\ Len(u) \in Nat
      BY EmptySeq
    <3>2. n - k \in 1 .. n - k /\ k + (n - k) = n /\ stdin # << >>
      BY <1>3, <2>4, <3>1
    <3>3. u[Len(u)] = stdin[n]
      BY <2>4, <3>2
    <3> QED BY <3>2, <3>3 DEF InputOK, Stream
  <2>8. First(u, First(line, 0)) = 0
    <3>1. CASE u = << >>
      <4>1. Len(u) = 0
        BY <3>1
      <4>2. k = n /\ stdin # << >>
        BY <1>3, <2>4, <4>1
      <4> QED BY <2>1, <3>1, <4>2 DEF First, InputOK, Stream
    <3>2. CASE u # << >>
      <4>1. Len(u) # 0 /\ Len(u) \in Nat
        BY <3>2, EmptySeq
      <4>2. 1 \in 1 .. n - k /\ k < n /\ k \in 1 .. n
        BY <1>3, <2>4, <4>1
      <4>3. u[1] = stdin[k + 1]
        BY <2>4, <4>2
      <4>4. StateAfter(stdin[k]) = StateBefore(stdin[k + 1])
        BY <4>2 DEF InputOK, Stream, Chain
      <4> QED BY <2>1, <3>2, <4>3, <4>4 DEF First
    <3> QED BY <3>1, <3>2
  <2>9. Stream'
    BY <2>5, <2>6, <2>7, <2>8 DEF InputOK, Stream
  <2> QED BY <1>5, <2>9 DEF InputOK
<1> QED BY <1>6, <1>7

\* The text is discarded.
LEMMA ResetOK == InputOK /\ reset_typed_command => InputOK'
<1> SUFFICES ASSUME InputOK, reset_typed_command PROVE InputOK'
  OBVIOUS
<1>1. << >> \in Seq(Chars) /\ Len(<< >>) = 0
  BY EmptySeq
<1>2. meant' \in [text : {typing'}, cmd : {cmd'}]
  BY DEF InputOK, InputTypeOK, reset_typed_command
<1> QED BY <1>1, <1>2 DEF InputOK, InputTypeOK, Stream, reset_typed_command

\* A key is pressed.
LEMMA PressOK == InputOK /\ Press => InputOK'
<1> SUFFICES ASSUME InputOK, Press PROVE InputOK'
  OBVIOUS
<1>1. PICK key \in player.keys[keysDone + 1] :
        line' = [i \in 1 .. Len(BytesOf(key)) |->
                   [byte |-> BytesOf(key)[i], key |-> key, at |-> i]]
  BY DEF Press
<1> DEFINE b == BytesOf(key)
<1>2. /\ line = << >> /\ keysDone < Len(player.keys) /\ keysDone' = keysDone + 1
      /\ UNCHANGED <<player, stdin, state, typing, cmd, meant>>
      /\ player \in Players /\ keysDone \in Nat
  BY DEF Press, InputOK, InputTypeOK
<1>3. key \in Keys
  <2>1. Len(player.keys) \in Nat
    BY <1>2, PlayersAssumption
  <2>2. keysDone + 1 \in 1 .. Len(player.keys)
    BY <1>2, <2>1
  <2> QED BY <1>2, <2>2 DEF Keys
<1>4. PICK n \in 1 .. 4 : n = Len(b) /\ \A i \in 1 .. n : b[i] \in Chars
  <2>1. CASE key \in DOMAIN Special
    <3>1. CASE key \in {"ENTER", "BACKSPACE", "QUIT"}
      BY <3>1, SpecialBytes DEF Chars
    <3>2. CASE key \in {"UP", "DOWN", "RIGHT", "LEFT"}
      <4>1. \E e \in {"A", "B", "C", "D"} : b = <<"ESC", "[", e>>
        BY <3>2, SpecialBytes
      <4>2. Len(b) = 3 /\ b[1] \in Chars /\ b[2] \in Chars /\ b[3] \in Chars
        BY <4>1 DEF Chars
      <4>3. \A i \in 1 .. 3 : b[i] \in Chars
        BY <4>2
      <4> QED BY <4>2, <4>3
    <3>3. CASE key \in {"INSERT", "HOME", "PGUP"}
      <4>1. \E e \in {"1", "2", "5"} : b = <<"ESC", "[", e, "~">>
        BY <3>3, SpecialBytes
      <4>2. Len(b) = 4 /\ b[1] \in Chars /\ b[2] \in Chars /\ b[3] \in Chars /\ b[4] \in Chars
        BY <4>1 DEF Chars
      <4>3. \A i \in 1 .. 4 : b[i] \in Chars
        BY <4>2
      <4> QED BY <4>2, <4>3
    <3> QED BY <2>1, <3>1, <3>2, <3>3, SpecialBytes
  <2>2. CASE key \notin DOMAIN Special
    <3>1. b = <<key>>
      BY <2>2 DEF BytesOf
    <3> QED BY <1>3, <3>1 DEF Chars
  <2> QED BY <2>1, <2>2
<1>5. \A i \in 1 .. n : /\ line'[i] = [byte |-> b[i], key |-> key, at |-> i]
                        /\ line'[i] \in Bytes
                        /\ StateBefore(line'[i]) = i - 1
                        /\ StateAfter(line'[i]) = IF i = n THEN 0 ELSE i
  <2> SUFFICES ASSUME NEW i \in 1 .. n
               PROVE  /\ line'[i] = [byte |-> b[i], key |-> key, at |-> i]
                      /\ line'[i] \in Bytes
                      /\ StateBefore(line'[i]) = i - 1
                      /\ StateAfter(line'[i]) = IF i = n THEN 0 ELSE i
    OBVIOUS
  <2> DEFINE x == [byte |-> b[i], key |-> key, at |-> i]
  <2>1. line'[i] = x
    BY <1>1, <1>4
  <2>2. x.byte = b[i] /\ x.key = key /\ x.at = i
    OBVIOUS
  <2>3. x \in [byte : Chars, key : Keys, at : 1 .. 4]
    BY <1>3, <1>4
  <2> HIDE DEF x
  <2>4. x \in Bytes
    BY <1>4, <2>2, <2>3 DEF Bytes
  <2>5. StateBefore(x) = i - 1 /\ StateAfter(x) = IF i = n THEN 0 ELSE i
    BY <1>4, <2>2 DEF StateBefore, StateAfter
  <2> QED BY <2>1, <2>4, <2>5 DEF x
<1>6. line' \in Seq(Bytes) /\ Len(line') = n /\ line' # << >>
  <2>1. line' \in [1 .. n -> Bytes]
    BY <1>1, <1>4, <1>5
  <2>2. line' \in Seq(Bytes)
    BY <2>1, SeqDef
  <2>3. Len(line') = n
    BY <2>1, <2>2, LenProperties
  <2> QED BY <2>2, <2>3, EmptySeq
<1>7. Chain(line') /\ StateAfter(line'[Len(line')]) = 0 /\ First(line', 0) = 0
  <2>1. Chain(line')
    <3> SUFFICES ASSUME NEW i \in 1 .. n, i < n
                 PROVE  StateAfter(line'[i]) = StateBefore(line'[i + 1])
      BY <1>6 DEF Chain
    <3>1. i + 1 \in 1 .. n /\ (i + 1) - 1 = i /\ i # n
      OBVIOUS
    <3>2. StateAfter(line'[i]) = i
      BY <1>5, <3>1
    <3>3. StateBefore(line'[i + 1]) = i
      BY <1>5, <3>1
    <3> QED BY <3>2, <3>3
  <2>2. n \in 1 .. n /\ 1 \in 1 .. n
    OBVIOUS
  <2> QED BY <1>5, <1>6, <2>1, <2>2 DEF First
<1>8. Stream'
  BY <1>2, <1>6, <1>7 DEF InputOK, Stream, First
<1>9. InputTypeOK'
  BY <1>2, <1>6 DEF InputOK, InputTypeOK
<1> QED BY <1>8, <1>9 DEF InputOK

\* A byte moves from the end of the line to the end of stdin.
LEMMA DeliverOK == InputOK /\ Deliver => InputOK'
<1> SUFFICES ASSUME InputOK, Deliver PROVE InputOK'
  OBVIOUS
<1> DEFINE x == Head(line)
           t == Tail(line)
           q == Append(stdin, x)
<1>1. /\ line # << >> /\ stdin' = q /\ line' = t
      /\ UNCHANGED <<player, keysDone, state, typing, cmd, meant>>
      /\ line \in Seq(Bytes) /\ stdin \in Seq(Bytes)
  BY DEF Deliver, InputOK, InputTypeOK
<1>2. /\ Chain(stdin) /\ Chain(line) /\ StateAfter(line[Len(line)]) = 0
      /\ stdin # << >> => StateAfter(stdin[Len(stdin)]) = StateBefore(line[1])
      /\ state = First(stdin, StateBefore(line[1]))
  BY <1>1 DEF InputOK, Stream, First
<1>3. /\ x \in Bytes /\ x = line[1] /\ t \in Seq(Bytes)
      /\ Len(t) = Len(line) - 1 /\ \A i \in 1 .. Len(t) : t[i] = line[i + 1]
  BY <1>1, HeadTailProperties
<1>4. Len(stdin) \in Nat /\ Len(line) \in Nat /\ Len(line) # 0
  BY <1>1, LenProperties, EmptySeq
<1> HIDE DEF x, t
<1>5. /\ q \in Seq(Bytes) /\ Len(q) = Len(stdin) + 1 /\ q[Len(stdin) + 1] = x /\ q # << >>
      /\ \A i \in 1 .. Len(stdin) : q[i] = stdin[i]
  BY <1>1, <1>3, AppendProperties
<1> HIDE DEF q
<1>6. Chain(q)
  <2> SUFFICES ASSUME NEW i \in 1 .. Len(q), i < Len(q)
               PROVE  StateAfter(q[i]) = StateBefore(q[i + 1])
    BY DEF Chain
  <2>1. i \in 1 .. Len(stdin)
    BY <1>4, <1>5
  <2>2. CASE i = Len(stdin)
    <3>1. stdin # << >>
      BY <2>1, <2>2
    <3> QED BY <1>2, <1>3, <1>5, <2>1, <2>2, <3>1
  <2>3. CASE i # Len(stdin)
    <3>1. i + 1 \in 1 .. Len(stdin) /\ i < Len(stdin)
      BY <1>4, <2>1, <2>3
    <3>2. q[i] = stdin[i] /\ q[i + 1] = stdin[i + 1]
      BY <1>5, <2>1, <3>1
    <3> QED BY <1>2, <2>1, <3>1, <3>2 DEF Chain
  <2> QED BY <2>2, <2>3
<1>7. Chain(t)
  <2> SUFFICES ASSUME NEW i \in 1 .. Len(t), i < Len(t)
               PROVE  StateAfter(t[i]) = StateBefore(t[i + 1])
    BY DEF Chain
  <2>1. /\ i + 1 \in 1 .. Len(t) /\ i + 1 \in 1 .. Len(line) /\ i + 1 < Len(line)
    BY <1>3, <1>4
  <2>2. t[i] = line[i + 1] /\ t[i + 1] = line[(i + 1) + 1]
    BY <1>3, <2>1
  <2> QED BY <1>2, <2>1, <2>2 DEF Chain
<1>8. t # << >> => StateAfter(t[Len(t)]) = 0
  <2> SUFFICES ASSUME t # << >> PROVE StateAfter(t[Len(t)]) = 0
    OBVIOUS
  <2>1. Len(t) # 0 /\ Len(t) \in Nat
    BY <1>3, EmptySeq
  <2>2. Len(t) \in 1 .. Len(t) /\ Len(t) + 1 = Len(line)
    BY <1>3, <1>4, <2>1
  <2>3. t[Len(t)] = line[Len(line)]
    BY <1>3, <2>2
  <2> QED BY <1>2, <2>3
<1>9. StateAfter(q[Len(q)]) = First(t, 0)
  <2>1. q[Len(q)] = line[1]
    BY <1>3, <1>5
  <2>2. CASE t = << >>
    <3>1. Len(t) = 0
      BY <2>2
    <3>2. Len(line) = 1
      BY <1>3, <1>4, <3>1
    <3> QED BY <1>2, <2>1, <2>2, <3>2 DEF First
  <2>3. CASE t # << >>
    <3>1. Len(t) # 0 /\ Len(t) \in Nat
      BY <1>3, <2>3, EmptySeq
    <3>2. 1 \in 1 .. Len(t) /\ 1 \in 1 .. Len(line) /\ 1 < Len(line)
      BY <1>3, <1>4, <3>1
    <3>3. t[1] = line[1 + 1]
      BY <1>3, <3>2
    <3>4. StateAfter(line[1]) = StateBefore(line[1 + 1])
      BY <1>2, <3>2 DEF Chain
    <3> QED BY <2>1, <2>3, <3>3, <3>4 DEF First
  <2> QED BY <2>2, <2>3
<1>10. state = StateBefore(q[1])
  <2>1. CASE stdin = << >>
    <3>1. Len(stdin) = 0
      BY <2>1
    <3>2. q[1] = line[1]
      BY <1>3, <1>5, <3>1
    <3> QED BY <1>2, <2>1, <3>2 DEF First
  <2>2. CASE stdin # << >>
    <3>1. Len(stdin) # 0
      BY <1>1, <2>2, EmptySeq
    <3>2. 1 \in 1 .. Len(stdin)
      BY <1>4, <3>1
    <3>3. q[1] = stdin[1]
      BY <1>5, <3>2
    <3> QED BY <1>2, <2>2, <3>3 DEF First
  <2> QED BY <2>1, <2>2
<1>11. First(q, First(t, 0)) = StateBefore(q[1])
  BY <1>5 DEF First
<1>12. Stream'
  BY <1>1, <1>6, <1>7, <1>8, <1>9, <1>10, <1>11 DEF Stream
<1>13. InputTypeOK'
  BY <1>1, <1>3, <1>5 DEF InputOK, InputTypeOK
<1> QED BY <1>12, <1>13 DEF InputOK

\* Every step keeps the input's part.
LEMMA InputNext == InputOK /\ [Next]_vars => InputOK'
<1> SUFFICES ASSUME InputOK, [Next]_vars PROVE InputOK'
  OBVIOUS
<1>1. ASSUME UNCHANGED <<player, keysDone, line, stdin, state, typing, cmd, meant>>
      PROVE  InputOK'
  BY <1>1 DEF InputOK, InputTypeOK, Stream
<1>2. CASE UNCHANGED input
  BY <1>1, <1>2 DEF input
<1>3. CASE Tick
  BY <1>3, GetCommandOK DEF Tick
<1>4. CASE Act
  <2>1. reset_typed_command \/ UNCHANGED input
    BY <1>4 DEF Act, handle_typing, ChangeRoom, KeepText
  <2> QED BY <1>2, <2>1, ResetOK
<1>5. CASE Player
  <2>1. CASE PushButtons
    BY <1>1, <2>1 DEF PushButtons
  <2> QED BY <1>5, <2>1, PressOK, DeliverOK DEF Player
<1>6. \/ UNCHANGED input \/ Tick \/ Act \/ Player
  <2>1. CASE \E s \in Signals : Signal(s)
    BY <2>1 DEF Signal, catch_signal, DefaultAction
  <2>2. CASE UNCHANGED vars
    BY <2>2 DEF vars
  <2>3. CASE Main
    BY <2>3 DEF Main, Start, BuildWorld, CreateStatusThread, set_mode_X, init_input, Fails,
         ThenPush, PushMalloc, PushMalloced, PushAbort, PushLink, PopUnlink, shutdown_input,
         cancel_status_thread, clear_mode_X, ClearFaults, catch_signal, DefaultAction, PopFree,
         PopFreed, End, TimeFails, TimeFails1, TimeFails2
  <2> QED BY <2>1, <2>2, <2>3 DEF Next
<1> QED BY <1>2, <1>3, <1>4, <1>5, <1>6

\* The initial states.
LEMMA InputInitOK == Init => InputOK
<1> SUFFICES ASSUME Init PROVE InputOK
  OBVIOUS
<1>1. << >> \in Seq(Bytes) /\ << >> \in Seq(Chars) /\ Len(<< >>) = 0
  BY EmptySeq
<1>2. /\ player \in Players /\ keysDone = 0 /\ line = << >> /\ stdin = << >> /\ state = 0
      /\ typing = << >> /\ meant = [text |-> << >>, cmd |-> "NONE"] /\ cmd = "NONE"
  BY DEF Init, InputInit
<1>3. InputTypeOK
  BY <1>1, <1>2 DEF InputTypeOK
<1>4. Stream
  BY <1>1, <1>2 DEF Stream, Chain, First
<1> QED BY <1>3, <1>4 DEF InputOK

\* The inductive invariant holds in every reachable state.
LEMMA Inductive == Spec => []IInv
<1>1. Init => IInv
  BY InputInitOK, ProcessInit DEF IInv
<1>2. IInv /\ [Next]_vars => IInv'
  BY InputNext, ProcessNext DEF IInv
<1> QED BY <1>1, <1>2, PTL DEF Spec

-----------------------------------------------------------------------------
(* The properties. *)

\* For every player, every text length and every way in which the bytes of
\* the keys are spread over the calls of get_command: the text and the
\* command are what the keys meant.
THEOREM InputReadAsMeant == Spec => []ReadAsMeant
<1>1. IInv => ReadAsMeant
  BY DEF IInv, InputOK, InputTypeOK, ReadAsMeant
<1> QED BY <1>1, Inductive, PTL

\* However the process comes to end, by any number of signals at any step, a
\* failure, the quit key or the end of the game, the screen and the terminal
\* are as they were, unless an event fell into one of the gaps.
THEOREM ProcessRestores == Spec => []RestoredUnlessRaced
<1>1. IInv => RestoredUnlessRaced
  <2> SUFFICES ASSUME IInv PROVE RestoredUnlessRaced
    OBVIOUS
  <2>1. TypeOK
    <3>1. IsSuffix(stack, stack3)
      <4> USE DEF IsSuffix, IsPrefix, Reverse, stack3
      <4>1. CASE stack = stack0
        BY <4>1 DEF stack0
      <4>2. CASE stack = stack1
        BY <4>2 DEF stack1
      <4>3. CASE stack = stack2
        BY <4>3 DEF stack2
      <4>4. CASE stack = stack3
        BY <4>4
      <4> QED BY <4>1, <4>2, <4>3, <4>4 DEF IInv, ProcessOK, ProcessTypeOK
    <3> QED BY <3>1 DEF IInv, InputOK, InputTypeOK, ProcessOK, ProcessTypeOK, TypeOK, stack3
  <2>2. ASSUME at = "end" \/ ended = "done"
        PROVE  /\ vga = "text" \/ "clear_mode_X" \in unguarded
               /\ term = "cooked" \/ "shutdown_input" \in unguarded
    <3>1. CASE at = "end"
      BY <3>1, Stacks DEF IInv, ProcessOK, Places, Guarded, VgaToClean, TermToClean, InHand
    <3>2. CASE at # "end"
      BY <2>2, <3>2 DEF IInv, ProcessOK, Guarded
    <3> QED BY <3>1, <3>2
  <2> QED BY <2>1, <2>2 DEF RestoredUnlessRaced
<1> QED BY <1>1, Inductive, PTL

-----------------------------------------------------------------------------
(* The verbs. *)

FirstLetter == <<"b", "c", "d", "d", "d", "f", "f", "g", "g", "g", "i", "i", "s", "u", "w">>

\* The entries of cmd_list: their number, their first letters, and what the
\* entries with the same first letter differ in.
LEMMA Spelling ==
  /\ DOMAIN cmd_list = 1 .. 15
  /\ \A k \in 1 .. 15 : cmd_list[k][2] \in 1 .. 5 /\ cmd_list[k][1][1] = FirstLetter[k]
  /\ Len(cmd_list[3][1]) = 2 /\ cmd_list[4][2] = 3
  /\ cmd_list[3][1][2] = "o" /\ cmd_list[5][1][2] = "r" /\ cmd_list[5][2] = 2
  /\ cmd_list[4][1][3] = "i" /\ cmd_list[5][1][3] = "o"
  /\ cmd_list[6][1][2] = "i" /\ cmd_list[7][1][2] = "l" /\ cmd_list[6][2] = 3
  /\ cmd_list[8][1][2] = "e" /\ cmd_list[9][1][2] = "o" /\ cmd_list[9][2] = 2
  /\ cmd_list[10][1][2] = "r" /\ cmd_list[8][3] = cmd_list[10][3]
  /\ cmd_list[11][1][3] = "s" /\ cmd_list[12][1][3] = "v" /\ cmd_list[11][2] = 3
<1>1. DOMAIN cmd_list = 1 .. 15
  BY DEF cmd_list
<1>2. ASSUME NEW k \in 1 .. 15
      PROVE  cmd_list[k][2] \in 1 .. 5 /\ cmd_list[k][1][1] = FirstLetter[k]
  BY DEF cmd_list, FirstLetter
<1>3. /\ Len(cmd_list[3][1]) = 2 /\ cmd_list[4][2] = 3
      /\ cmd_list[3][1][2] = "o" /\ cmd_list[5][1][2] = "r" /\ cmd_list[5][2] = 2
      /\ cmd_list[4][1][3] = "i" /\ cmd_list[5][1][3] = "o"
  BY DEF cmd_list
<1>4. /\ cmd_list[6][1][2] = "i" /\ cmd_list[7][1][2] = "l" /\ cmd_list[6][2] = 3
      /\ cmd_list[8][1][2] = "e" /\ cmd_list[9][1][2] = "o" /\ cmd_list[9][2] = 2
      /\ cmd_list[10][1][2] = "r" /\ cmd_list[8][3] = cmd_list[10][3]
      /\ cmd_list[11][1][3] = "s" /\ cmd_list[12][1][3] = "v" /\ cmd_list[11][2] = 3
  BY DEF cmd_list
<1> QED BY <1>1, <1>2, <1>3, <1>4

\* Two entries that differ in a letter that was typed do not both match.
LEMMA LettersDiffer ==
  ASSUME NEW verb, DOMAIN verb = 1 .. Len(verb), NEW p \in 1 .. Len(verb), NEW i, NEW j,
         cmd_list[i][1][p] # cmd_list[j][1][p]
  PROVE  ~(Matches(i, verb) /\ Matches(j, verb))
<1> HIDE DEF Lower
<1> QED BY DEF Matches

\* Entries that match the same typed verb mean the same command.
LEMMA OneCommand ==
  ASSUME NEW verb, Len(verb) \in Nat, DOMAIN verb = 1 .. Len(verb),
         NEW i \in 1 .. 15, NEW j \in 1 .. 15, Matches(i, verb), Matches(j, verb)
  PROVE  cmd_list[i][3] = cmd_list[j][3]
<1> DEFINE Both(k, l) == Matches(k, verb) /\ Matches(l, verb)
           len == Len(verb)
<1>1. \A k : Matches(k, verb) => cmd_list[k][2] <= len /\ len <= Len(cmd_list[k][1])
  BY DEF Matches
<1>2. FirstLetter[i] = FirstLetter[j]
  <2>1. 1 \in 1 .. len
    <3>1. cmd_list[i][2] \in 1 .. 5 /\ cmd_list[i][2] <= len
      BY <1>1, Spelling
    <3>2. len \in Nat
      OBVIOUS
    <3> HIDE DEF len
    <3> QED BY <3>1, <3>2
  <2>2. cmd_list[i][1][1] = cmd_list[j][1][1]
    BY <2>1, LettersDiffer
  <2> QED BY <2>2, Spelling
<1>3. ~Both(3, 4)
  <2>1. Both(3, 4) => len <= Len(cmd_list[3][1]) /\ cmd_list[4][2] <= len
    BY <1>1
  <2>2. Both(3, 4) => len <= 2 /\ 3 <= len
    BY <2>1, Spelling
  <2>3. len \in Nat
    OBVIOUS
  <2> HIDE DEF len, Both
  <2> QED BY <2>2, <2>3
<1>4. ~Both(3, 5)
  <2>1. Both(3, 5) => 2 \in 1 .. len
    BY <1>1, Spelling
  <2> QED BY <2>1, LettersDiffer, Spelling
<1>5. ~Both(4, 5)
  <2>1. Both(4, 5) => 3 \in 1 .. len
    BY <1>1, Spelling
  <2> QED BY <2>1, LettersDiffer, Spelling
<1>6. ~Both(6, 7)
  <2>1. Both(6, 7) => 2 \in 1 .. len
    BY <1>1, Spelling
  <2> QED BY <2>1, LettersDiffer, Spelling
<1>7. ~Both(8, 9)
  <2>1. Both(8, 9) => 2 \in 1 .. len
    BY <1>1, Spelling
  <2> QED BY <2>1, LettersDiffer, Spelling
<1>8. ~Both(9, 10)
  <2>1. Both(9, 10) => 2 \in 1 .. len
    BY <1>1, Spelling
  <2> QED BY <2>1, LettersDiffer, Spelling
<1>9. ~Both(11, 12)
  <2>1. Both(11, 12) => 3 \in 1 .. len
    BY <1>1, Spelling
  <2> QED BY <2>1, LettersDiffer, Spelling
<1>10. \/ i = j
       \/ i \in {3, 4, 5} /\ j \in {3, 4, 5}
       \/ i \in {6, 7} /\ j \in {6, 7}
       \/ i \in {8, 9, 10} /\ j \in {8, 9, 10}
       \/ i \in {11, 12} /\ j \in {11, 12}
  <2> DEFINE Of(letter) == { k \in 1 .. 15 : FirstLetter[k] = letter }
  <2>1. Of("b") = {1}
    BY DEF FirstLetter
  <2>2. Of("c") = {2}
    BY DEF FirstLetter
  <2>3. Of("d") = {3, 4, 5}
    BY DEF FirstLetter
  <2>4. Of("f") = {6, 7}
    BY DEF FirstLetter
  <2>5. Of("g") = {8, 9, 10}
    BY DEF FirstLetter
  <2>6. Of("i") = {11, 12}
    BY DEF FirstLetter
  <2>7. Of("s") = {13}
    BY DEF FirstLetter
  <2>8. Of("u") = {14}
    BY DEF FirstLetter
  <2>9. Of("w") = {15}
    BY DEF FirstLetter
  <2>10. PICK l \in {"b", "c", "d", "f", "g", "i", "s", "u", "w"} : l = FirstLetter[i]
    BY DEF FirstLetter
  <2>11. i \in Of(l) /\ j \in Of(l)
    BY <1>2, <2>10
  <2> HIDE DEF Of
  <2>12. CASE l = "b"
    BY <2>1, <2>11, <2>12
  <2>13. CASE l = "c"
    BY <2>2, <2>11, <2>13
  <2>14. CASE l = "d"
    <3>1. Of(l) = {3, 4, 5}
      BY <2>3, <2>14
    <3>2. i \in {3, 4, 5} /\ j \in {3, 4, 5}
      BY <2>11, <3>1
    <3> QED BY <3>2
  <2>15. CASE l = "f"
    BY <2>4, <2>11, <2>15
  <2>16. CASE l = "g"
    <3>1. Of(l) = {8, 9, 10}
      BY <2>5, <2>16
    <3>2. i \in {8, 9, 10} /\ j \in {8, 9, 10}
      BY <2>11, <3>1
    <3> QED BY <3>2
  <2>17. CASE l = "i"
    BY <2>6, <2>11, <2>17
  <2>18. CASE l = "s"
    BY <2>7, <2>11, <2>18
  <2>19. CASE l = "u"
    BY <2>8, <2>11, <2>19
  <2>20. CASE l = "w"
    BY <2>9, <2>11, <2>20
  <2> QED BY <2>10, <2>12, <2>13, <2>14, <2>15, <2>16, <2>17, <2>18, <2>19, <2>20
<1>11. i = j \/ (i = 8 /\ j = 10) \/ (i = 10 /\ j = 8)
  BY <1>3, <1>4, <1>5, <1>6, <1>7, <1>8, <1>9, <1>10
<1> QED BY <1>11, Spelling

\* The full name of an entry matches it.
LEMMA FullName ==
  ASSUME NEW i \in 1 .. 15 PROVE Matches(i, cmd_list[i][1])
<1> DEFINE Letters == {"a", "b", "c", "d", "e", "f", "g", "h", "i", "k", "l", "n", "o", "p", "r",
                       "s", "t", "u", "v", "w", "x", "y"}
           word == cmd_list[i][1]
<1>1. word \in Seq(Letters) /\ cmd_list[i][2] <= Len(word)
  <2> USE DEF cmd_list
  <2>1. CASE i = 1
    BY <2>1
  <2>2. CASE i = 2
    BY <2>2
  <2>3. CASE i = 3
    BY <2>3
  <2>4. CASE i = 4
    BY <2>4
  <2>5. CASE i = 5
    BY <2>5
  <2>6. CASE i = 6
    BY <2>6
  <2>7. CASE i = 7
    BY <2>7
  <2>8. CASE i = 8
    BY <2>8
  <2>9. CASE i = 9
    BY <2>9
  <2>10. CASE i = 10
    BY <2>10
  <2>11. CASE i = 11
    BY <2>11
  <2>12. CASE i = 12
    BY <2>12
  <2>13. CASE i = 13
    BY <2>13
  <2>14. CASE i = 14
    BY <2>14
  <2>15. CASE i = 15
    BY <2>15
  <2> QED BY <2>1, <2>2, <2>3, <2>4, <2>5, <2>6, <2>7, <2>8, <2>9, <2>10, <2>11, <2>12, <2>13, <2>14, <2>15
<1>2. Len(word) <= Len(word)
  BY <1>1
<1>3. ASSUME NEW k \in DOMAIN word PROVE Lower(word[k]) = word[k]
  <2>1. word[k] \in Letters
    BY <1>1
  <2> HIDE DEF word
  <2> QED BY <2>1 DEF Lower
<1> HIDE DEF Letters
<1> QED BY <1>1, <1>2, <1>3 DEF Matches

\* The least element of a set of numbers belongs to it.
LEMMA MinIn ==
  ASSUME NEW T, T \subseteq Nat, T # {} PROVE Min(T) \in T
<1>1. PICK k \in T : \A j \in T : k <= j
  BY LeastNumber
<1> QED BY <1>1 DEF Min

\* The typed verb is a sequence, as any part of the text is.
LEMMA VerbIsSequence ==
  ASSUME NEW S, NEW text \in Seq(S)
  PROVE  VerbOf(text) \in Seq(S)
<1> DEFINE letters == { i \in DOMAIN text : text[i] # " " }
           first == IF letters = {} THEN Len(text) + 1 ELSE Min(letters)
           spaces == { i \in first .. Len(text) : text[i] = " " }
           last == IF spaces = {} THEN Len(text) ELSE Min(spaces) - 1
<1>1. Len(text) \in Nat /\ DOMAIN text = 1 .. Len(text) /\ \A i \in 1 .. Len(text) : text[i] \in S
  OBVIOUS
<1>2. letters \subseteq 1 .. Len(text)
  BY <1>1
<1> HIDE DEF letters
<1>3. first \in Nat /\ 1 <= first
  <2>1. CASE letters = {}
    BY <1>1, <2>1
  <2>2. CASE letters # {}
    <3>1. letters \subseteq Nat
      BY <1>1, <1>2
    <3>2. Min(letters) \in letters
      BY <2>2, <3>1, MinIn
    <3>3. Min(letters) \in 1 .. Len(text) /\ first = Min(letters)
      BY <1>2, <2>2, <3>2
    <3> QED BY <1>1, <3>3
  <2> QED BY <2>1, <2>2
<1> HIDE DEF first
<1>4. spaces \subseteq Nat /\ spaces \subseteq 1 .. Len(text)
  <2>1. \A i \in spaces : i \in first .. Len(text)
    OBVIOUS
  <2> HIDE DEF spaces
  <2> QED BY <1>1, <1>3, <2>1
<1> HIDE DEF spaces
<1>5. last \in Int /\ last <= Len(text)
  <2>1. CASE spaces = {}
    BY <1>1, <2>1
  <2>2. CASE spaces # {}
    <3>1. Min(spaces) \in 1 .. Len(text)
      BY <1>4, <2>2, MinIn
    <3> QED BY <1>1, <2>2, <3>1
  <2> QED BY <2>1, <2>2
<1> HIDE DEF last
<1>6. \A i \in first .. last : text[i] \in S
  BY <1>1, <1>3, <1>5
<1>7. SubSeq(text, first, last) \in Seq(S)
  BY <1>3, <1>5, <1>6, SubSeqProperties
<1>8. VerbOf(text) = SubSeq(text, first, last)
  BY DEF VerbOf, first, last, letters, spaces
<1> QED BY <1>7, <1>8

\* Whatever was typed, every entry that it matches, and the one whose full
\* name it is, means the command that the game carries out: the verbs do not
\* hide one another.
THEOREM VerbsUnambiguous == Spec => []NoShadowing
<1>1. IInv => NoShadowing
  <2> SUFFICES ASSUME InputTypeOK, NEW i \in 1 .. 15,
                      Matches(i, VerbOf(typing)) \/ VerbOf(typing) = cmd_list[i][1]
               PROVE  CommandOf(VerbOf(typing)) = cmd_list[i][3]
    BY Spelling DEF NoShadowing, IInv, InputOK
  <2> DEFINE verb == VerbOf(typing)
  <2>1. verb \in Seq(Chars)
    BY VerbIsSequence DEF InputTypeOK
  <2>2. Len(verb) \in Nat /\ DOMAIN verb = 1 .. Len(verb)
    BY <2>1
  <2> HIDE DEF verb
  <2>3. Matches(i, verb)
    BY FullName DEF verb
  <2>4. Matching(verb) \subseteq 1 .. 15 /\ i \in Matching(verb)
    BY <2>3, Spelling DEF Matching
  <2>5. PICK j \in 1 .. 15 : j = Min(Matching(verb)) /\ j \in Matching(verb)
    BY <2>4, MinIn
  <2>6. Matches(j, verb)
    BY <2>5 DEF Matching
  <2>7. cmd_list[j][3] = cmd_list[i][3]
    BY <2>2, <2>3, <2>6, OneCommand
  <2>8. CommandOf(verb) = cmd_list[j][3]
    BY <2>4, <2>5 DEF CommandOf
  <2> QED BY <2>7, <2>8 DEF verb
<1> QED BY <1>1, Inductive, PTL

=============================================================================
