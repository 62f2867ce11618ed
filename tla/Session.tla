------------------------------ MODULE Session -------------------------------
(***************************************************************************)
(* The adventure's process from start to end: main and the game loop of    *)
(* mp2/adventure.c, the stack of cleanup functions of mp2/assert.c, and    *)
(* the signals that may arrive at any step.  What the process holds and    *)
(* must give back are the VGA (set_mode_X, clear_mode_X), the terminal     *)
(* (init_input, shutdown_input) and the status thread.                     *)
(*                                                                         *)
(* A handler never returns to what it interrupted: catch_signal ends the   *)
(* process.  So the main thread has one place, at, and a handler replaces  *)
(* it; what remains of the interrupted call is the heap lock it may hold.  *)
(***************************************************************************)
EXTENDS Input, FiniteSetsExt

CONSTANT Signals   \* SIGINT, SIGQUIT, SIGSEGV, SIGBUS

ASSUME SessionAssumption == "SIGSEGV" \in Signals

VARIABLES
  at,        \* the main thread's place
  stack,     \* cleanup_stack, the top first
  fn,        \* the function being pushed or popped (c->fn)
  disp,      \* each signal's disposition, "default" or "catch"
  blocked,   \* signals whose handler has been entered
  leave,     \* why the process is leaving: "no", "return", "panic", a signal
  vga,       \* "text", "modeX", or "blank"
  mapped,    \* whether video memory is mapped
  term,      \* "cooked" or "raw"
  others,    \* the threads beside main
  heapHeld,  \* a signal interrupted malloc or free, which hold a lock
  signals,   \* number of signals sent, for the bound player.signals
  ended,     \* "no", "done", or "killed": without running the cleanups
  unguarded  \* history: functions whose cleanup an untimely event prevented

process == <<at, stack, fn, disp, blocked, leave, vga, mapped, term, others,
             heapHeld, signals, ended, unguarded>>
vars == <<input, process>>

\* What only the start and the end of the process change.
world == <<vga, mapped, term, others>>
signalling == <<disp, blocked, heapHeld, signals, unguarded>>

Goto(from, to) == ended = "no" /\ at = from /\ at' = to

\* The cleanups start: PANIC and ABORT, the pops at the end of main, or a
\* signal.  Each pops until the stack is empty and then ends the process.
Leave(why) == leave' = why /\ at' = "pop"

-----------------------------------------------------------------------------
(* main, up to the game loop *)

Start ==
  /\ Goto("start", "world")
  /\ disp' = [s \in Signals |-> "catch"]
  /\ UNCHANGED <<input, stack, fn, blocked, leave, world, heapHeld, signals,
                 ended, unguarded>>

\* The initialisations at "world" (build_world, init_game, sanity_check),
\* "thread", "modex" and "input"; one that fails changes nothing that has to
\* be given back.
Fails ==
  /\ ended = "no" /\ player.faults
  /\ at \in {"world", "thread", "modex", "input"}
  /\ Leave("panic")
  /\ UNCHANGED <<input, stack, fn, world, signalling, ended>>

BuildWorld ==
  /\ Goto("world", "thread")
  /\ UNCHANGED <<input, stack, fn, leave, world, signalling, ended>>

\* What was acquired is pushed next.
ThenPush(f) == fn' = f /\ UNCHANGED <<input, stack, leave, signalling, ended>>

CreateStatusThread ==
  /\ Goto("thread", "push")
  /\ others' = others \cup {"status"}
  /\ ThenPush("cancel_status_thread")
  /\ UNCHANGED <<vga, mapped, term>>

set_mode_X ==
  /\ Goto("modex", "push")
  /\ vga' = "modeX" /\ mapped' = TRUE
  /\ ThenPush("clear_mode_X")
  /\ UNCHANGED <<term, others>>

\* That init_input makes stdin non-blocking is taken back by nobody, and is
\* not part of term.
init_input ==
  /\ Goto("input", "push")
  /\ term' = "raw"
  /\ ThenPush("shutdown_input")
  /\ UNCHANGED <<vga, mapped, others>>

-----------------------------------------------------------------------------
(* The cleanup stack *)

\* push_cleanup: malloc ...
PushMalloc ==
  /\ Goto("push", "malloc") /\ ~heapHeld
  /\ UNCHANGED <<input, stack, fn, leave, world, signalling, ended>>

\* ... which may fail: ABORT, with fn not on the stack ...
PushAbort ==
  /\ ended = "no" /\ at = "malloc" /\ player.faults
  /\ Leave("panic")
  /\ unguarded' = unguarded \cup {fn}
  /\ UNCHANGED <<input, stack, fn, world, disp, blocked, heapHeld, signals, ended>>

PushMalloced ==
  /\ Goto("malloc", "link")
  /\ UNCHANGED <<input, stack, fn, leave, world, signalling, ended>>

After == [cancel_status_thread |-> "modex", clear_mode_X |-> "input",
          shutdown_input |-> "loop"]

\* ... and the new element is linked in.  game_loop starts with the clock.
PushLink ==
  /\ Goto("link", After[fn])
  /\ stack' = <<fn>> \o stack
  /\ others' = IF After[fn] = "loop" THEN others \cup {"timer"} ELSE others
  /\ fn' = "none"
  /\ UNCHANGED <<input, leave, vga, mapped, term, signalling, ended>>

\* do_cleanups' test and pop_cleanup: the top is taken off the stack ...
PopUnlink ==
  /\ ended = "no" /\ at = "pop"
  /\ IF stack = << >> THEN at' = "end" /\ UNCHANGED <<stack, fn>>
     ELSE at' = "exec" /\ fn' = Head(stack) /\ stack' = Tail(stack)
  /\ UNCHANGED <<input, leave, world, signalling, ended>>

\* ... executed ...
shutdown_input ==
  /\ Goto("exec", "free") /\ fn = "shutdown_input"
  /\ term' = "cooked"
  /\ UNCHANGED <<input, stack, fn, leave, vga, mapped, others, signalling, ended>>

cancel_status_thread ==
  /\ Goto("exec", "free") /\ fn = "cancel_status_thread"
  /\ others' = others \ {"status"}
  /\ UNCHANGED <<input, stack, fn, leave, vga, mapped, term, signalling, ended>>

clear_mode_X ==
  /\ Goto("exec", "free") /\ fn = "clear_mode_X" /\ mapped
  /\ vga' = "text" /\ mapped' = FALSE
  /\ UNCHANGED <<input, stack, fn, leave, term, others, signalling, ended>>

\* ... and its structure is freed.
PopFree ==
  /\ Goto("free", "heap") /\ ~heapHeld
  /\ UNCHANGED <<input, stack, fn, leave, world, signalling, ended>>

\* Mutant for RestoredUnlessRaced: the handler pops only the top element.
PopFreed_once ==
  /\ Goto("heap", IF leave \in Signals THEN "end" ELSE "pop")
  /\ fn' = "none"
  /\ UNCHANGED <<input, stack, leave, world, signalling, ended>>

PopFreed ==
  /\ Goto("heap", "pop")
  /\ fn' = "none"
  /\ UNCHANGED <<input, stack, leave, world, signalling, ended>>

\* The end: a message and return or exit, or catch_signal's kill.  The
\* signal is blocked in this thread; it takes its default action in another
\* thread or when the handler returns.
End ==
  /\ ended = "no" /\ at = "end"
  /\ IF leave \in Signals /\ disp[leave] = "catch"
     THEN at' = "pop" /\ UNCHANGED ended
     ELSE ended' = "done" /\ UNCHANGED at
  /\ UNCHANGED <<input, stack, fn, leave, world, signalling>>

-----------------------------------------------------------------------------
(* Signals *)

\* A signal finds the main thread between acquiring and pushing, or between
\* unlinking and executing: nobody will execute fn.  Between the two calls of
\* the emergency exit, clear_mode_X will be executed a second time.
Gap ==
  IF at \in {"push", "malloc", "link", "exec"} THEN {fn}
  ELSE IF at = "quit2" THEN {"clear_mode_X"} ELSE {}

\* Mutant for EndsUnlessHeapHeld: without SA_ONESHOT.
catch_signal_again(s) ==
  /\ disp[s] = "catch" /\ s \notin blocked
  /\ blocked' = blocked \cup {s}
  /\ heapHeld' = (heapHeld \/ at \in {"malloc", "heap"})
  /\ unguarded' = unguarded \cup Gap
  /\ fn' = "none"
  /\ Leave(s)
  /\ UNCHANGED <<input, disp, stack, ended>>

\* The handler is entered: the signal is blocked and, with SA_ONESHOT, back
\* to its default behaviour.
catch_signal(s) ==
  /\ disp[s] = "catch" /\ s \notin blocked
  /\ disp' = [disp EXCEPT ![s] = "default"]
  /\ blocked' = blocked \cup {s}
  /\ heapHeld' = (heapHeld \/ at \in {"malloc", "heap"})
  /\ unguarded' = unguarded \cup Gap
  /\ fn' = "none"
  /\ Leave(s)
  /\ UNCHANGED <<input, stack, ended>>

\* A signal with its default behaviour ends the process at once: before the
\* handlers are installed, or a repetition, taken by another thread.
DefaultAction(s) ==
  /\ disp[s] = "default" /\ (s \in blocked => others # {})
  /\ ended' = "killed"
  /\ UNCHANGED <<input, at, stack, fn, disp, blocked, leave, heapHeld, unguarded>>

Signal(s) ==
  /\ ended = "no" /\ signals < player.signals
  /\ signals' = signals + 1
  /\ catch_signal(s) \/ DefaultAction(s)
  /\ UNCHANGED world

\* clear_mode_X after its memory was unmapped: it blanks the screen and
\* faults before it can unblank it.
ClearFaults ==
  /\ ended = "no" /\ at = "exec" /\ fn = "clear_mode_X" /\ ~mapped
  /\ vga' = "blank"
  /\ catch_signal("SIGSEGV") \/ DefaultAction("SIGSEGV")
  /\ UNCHANGED <<mapped, term, others, signals>>

-----------------------------------------------------------------------------
(* The game loop *)

Tick ==
  /\ Goto("loop", "act")
  /\ get_command
  /\ UNCHANGED <<stack, fn, leave, world, signalling, ended>>

\* gettimeofday fails: clear_mode_X, shutdown_input and exit (3), without
\* the cleanups.
TimeFails ==
  /\ Goto("loop", "quit1") /\ player.faults
  /\ UNCHANGED <<input, stack, fn, leave, world, signalling, ended>>

TimeFails1 ==
  /\ Goto("quit1", "quit2")
  /\ vga' = "text" /\ mapped' = FALSE
  /\ UNCHANGED <<input, stack, fn, leave, term, others, signalling, ended>>

TimeFails2 ==
  /\ ended = "no" /\ at = "quit2"
  /\ term' = "cooked"
  /\ ended' = "done"
  /\ UNCHANGED <<input, at, stack, fn, leave, vga, mapped, others, signalling>>

\* cmd_list: the verbs, how many of their letters must be typed, and the
\* commands.
cmd_list ==
  << <<<<"b", "u", "y">>, 3, "BUY">>,
     <<<<"c", "h", "a", "r", "g", "e">>, 2, "CHARGE">>,
     <<<<"d", "o">>, 2, "DO">>,
     <<<<"d", "r", "i", "n", "k">>, 3, "DRINK">>,
     <<<<"d", "r", "o", "p">>, 2, "DROP">>,
     <<<<"f", "i", "x">>, 3, "FIX">>,
     <<<<"f", "l", "a", "s", "h">>, 5, "FLASH">>,
     <<<<"g", "e", "t">>, 1, "GET">>,
     <<<<"g", "o">>, 2, "GO">>,
     <<<<"g", "r", "a", "b">>, 2, "GET">>,
     <<<<"i", "n", "s", "t", "a", "l", "l">>, 3, "INSTALL">>,
     <<<<"i", "n", "v", "e", "n", "t", "o", "r", "y">>, 1, "INVENTORY">>,
     <<<<"s", "i", "g", "h">>, 4, "SIGH">>,
     <<<<"u", "s", "e">>, 3, "USE">>,
     <<<<"w", "e", "a", "r">>, 4, "WEAR">> >>

\* The typed text without leading spaces, up to the next space.
VerbOf(text) ==
  LET letters == { i \in DOMAIN text : text[i] # " " }
      first == IF letters = {} THEN Len(text) + 1 ELSE Min(letters)
      spaces == { i \in first .. Len(text) : text[i] = " " }
  IN  SubSeq(text, first, IF spaces = {} THEN Len(text) ELSE Min(spaces) - 1)

Lower(c) == IF c = "A" THEN "a" ELSE c

\* Mutant for NoShadowing: one letter less is enough.
Matches_short(i, verb) ==
  /\ cmd_list[i][2] <= Len(verb) + 1
  /\ Len(verb) <= Len(cmd_list[i][1])
  /\ \A k \in DOMAIN verb : Lower(verb[k]) = cmd_list[i][1][k]

\* An entry that the typed verb is long enough for, and a prefix of.
Matches(i, verb) ==
  /\ cmd_list[i][2] <= Len(verb)
  /\ Len(verb) <= Len(cmd_list[i][1])
  /\ \A k \in DOMAIN verb : Lower(verb[k]) = cmd_list[i][1][k]

Matching(verb) == { i \in DOMAIN cmd_list : Matches(i, verb) }

\* The first one is executed.
CommandOf(verb) ==
  IF Matching(verb) = {} THEN "none" ELSE cmd_list[Min(Matching(verb))][3]

KeepText == UNCHANGED input

\* Which text stays: an empty or unrecognised command, and one whose result
\* is TC_ALLOW_EDIT, leave it; any other discards it, at once or when the
\* loop enters the new room.
handle_typing ==
  LET tc == CommandOf(VerbOf(typing))
  IN  /\ cmd = "TYPED"
      /\ \/ KeepText /\ at' = "loop" /\ UNCHANGED leave
         \/ tc # "none" /\ reset_typed_command /\ at' = "loop" /\ UNCHANGED leave
         \/ tc = "DO" /\ KeepText /\ Leave("return")     \* GAME_WON

\* The moves: the loop discards the text if the room changed.
ChangeRoom ==
  /\ cmd \in {"MOVE_LEFT", "ENTER", "MOVE_RIGHT"}
  /\ reset_typed_command \/ KeepText
  /\ at' = "loop" /\ UNCHANGED leave

Act ==
  /\ ended = "no" /\ at = "act"
  /\ \/ handle_typing
     \/ ChangeRoom
     \/ cmd = "QUIT" /\ KeepText /\ Leave("return")
     \/ cmd \in {"NONE", "UP", "DOWN", "LEFT", "RIGHT"} /\ KeepText
          /\ at' = "loop" /\ UNCHANGED leave
  /\ UNCHANGED <<stack, fn, world, signalling, ended>>

-----------------------------------------------------------------------------
Init ==
  /\ InputInit
  /\ at = "start" /\ stack = << >> /\ fn = "none"
  /\ disp = [s \in Signals |-> "default"] /\ blocked = {}
  /\ leave = "no"
  /\ vga = "text" /\ mapped = FALSE /\ term = "cooked" /\ others = {}
  /\ heapHeld = FALSE /\ signals = 0 /\ ended = "no" /\ unguarded = {}

\* The main thread.
Main ==
  \/ Start \/ BuildWorld \/ CreateStatusThread \/ set_mode_X \/ init_input \/ Fails
  \/ PushMalloc \/ PushMalloced \/ PushAbort \/ PushLink
  \/ PopUnlink \/ shutdown_input \/ cancel_status_thread \/ clear_mode_X
  \/ ClearFaults \/ PopFree \/ PopFreed \/ End
  \/ Tick \/ Act \/ TimeFails \/ TimeFails1 \/ TimeFails2

\* The player, while the game reads the terminal.
Player ==
  /\ ended = "no" /\ at \in {"loop", "act"}
  /\ Press \/ Deliver \/ PushButtons
  /\ UNCHANGED process

Next == Main \/ Player \/ (\E s \in Signals : Signal(s))

Spec == Init /\ [][Next]_vars

\* The main thread keeps running, and the terminal delivers what was typed.
FairSpec == Spec /\ WF_vars(Main) /\ WF_vars(Deliver /\ Player)

-----------------------------------------------------------------------------
(* Properties. *)

CleanupFns == DOMAIN After

\* Every variable has its type; a cleanup function is on the stack at most
\* once, and the stack is in the order of main.
TypeOK ==
  /\ state \in 0 .. 3 /\ Len(typing) <= MaxTyped
  /\ fn \in CleanupFns \cup {"none"}
  /\ disp \in [Signals -> {"default", "catch"}] /\ blocked \subseteq Signals
  /\ leave \in {"no", "return", "panic"} \cup Signals
  /\ vga \in {"text", "modeX", "blank"} /\ mapped \in BOOLEAN
  /\ term \in {"cooked", "raw"} /\ others \subseteq {"status", "timer"}
  /\ ended \in {"no", "done", "killed"} /\ unguarded \subseteq CleanupFns
  /\ IsSuffix(stack, <<"shutdown_input", "clear_mode_X", "cancel_status_thread">>)

\* When the process prints its last message and when it ends, the screen is
\* in text mode and the terminal as it was, however it came to end: by
\* return, PANIC, ABORT, a failing clock or one or more signals, at any step.
\* The exceptions: an event in the gap between acquiring and pushing or
\* between unlinking and executing, and a signal sent again while its handler
\* runs, which kills the process through another thread.  (Checked together
\* with the types.)
RestoredUnlessRaced ==
  /\ TypeOK
  /\ at = "end" \/ ended = "done" =>
       /\ vga = "text" \/ "clear_mode_X" \in unguarded
       /\ term = "cooked" \/ "shutdown_input" \in unguarded

\* A signal, a failure or the quit key leads to the end of the process,
\* unless a signal interrupted malloc or free: then the handler's own free
\* waits for ever for the lock of the heap.
Leaving ==
  \/ leave # "no" \/ cmd = "QUIT"
  \/ \E i \in DOMAIN line : line[i].byte = "BQ"
  \/ \E i \in DOMAIN stdin : stdin[i].byte = "BQ"
EndsUnlessHeapHeld == Leaving ~> ended # "no" \/ heapHeld

\* No verb hides another (what sanity_check leaves unchecked): if several
\* entries of the list match what was typed, they mean the same command, and
\* the full name of a verb always means its own.
NoShadowing ==
  at = "act" /\ cmd = "TYPED" =>
    LET verb == VerbOf(typing)
    IN  \A i \in DOMAIN cmd_list :
          Matches(i, verb) \/ verb = cmd_list[i][1]
            => CommandOf(verb) = cmd_list[i][3]
=============================================================================
