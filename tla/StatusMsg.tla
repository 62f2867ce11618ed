----------------------------- MODULE StatusMsg ------------------------------
(***************************************************************************)
(* The status message of the adventure game, mp2/adventure.c: the main     *)
(* thread posts messages with show_status and draws them in game_loop, and *)
(* the helper thread status_thread deletes a message 1.5 seconds after it  *)
(* appeared.  They share status_msg under the mutex msg_lock and the       *)
(* condition variable msg_cv.                                              *)
(*                                                                         *)
(* The k-th message posted is the number k, the empty message is 0.  Time  *)
(* is discrete: Dur ticks are the 1.5 seconds.  Instead of absolute times  *)
(* the model keeps the age of the message (up to Dur) and the time left    *)
(* until the helper's deadline (down to 0).                                *)
(***************************************************************************)
EXTENDS Integers

CONSTANTS
  Dur,          \* ticks a message is to be shown
  MaxMsg,       \* bound: messages posted
  MaxSpurious   \* bound: spurious wakeups of the helper thread

ASSUME StatusAssumption == /\ Dur \in Nat \ {0}
                           /\ MaxMsg \in Nat /\ MaxSpurious \in Nat

VARIABLES
  msg_lock,    \* "free", "main" or "status"
  status_msg,
  mpc,         \* next step of the main thread
  spc,         \* next step of status_thread
  left,        \* time until ts, the helper's deadline
  age,         \* time since status_msg was posted
  posted,      \* number of messages posted
  drawn,       \* the message in the status bar on the screen
  late,        \* the last signal came after the helper's wait had timed out
  spurious     \* spurious wakeups so far

mainVars == <<mpc, posted, drawn>>
timeVars == <<left, age>>
vars == <<msg_lock, status_msg, spc, mainVars, timeVars, late, spurious>>

-----------------------------------------------------------------------------
(* The main thread. *)

MainLock(from, to) ==
  /\ mpc = from
  /\ msg_lock = "free"
  /\ msg_lock' = "main"
  /\ mpc' = to
  /\ UNCHANGED <<status_msg, spc, posted, drawn, timeVars, late, spurious>>

MainUnlock(from, to) ==
  /\ mpc = from
  /\ msg_lock' = "free"
  /\ mpc' = to
  /\ UNCHANGED <<status_msg, spc, posted, timeVars, late, spurious>>

\* game_loop draws the status bar under the lock ...
DrawLock == MainLock("draw", "drawing")

DrawUnlock == MainUnlock("drawing", "getcmd") /\ drawn' = status_msg

\* ... and holds it while it reads a command.
CommandLock == MainLock("getcmd", "incmd")

CommandUnlock == MainUnlock("incmd", "act") /\ UNCHANGED drawn

\* A command that shows nothing, one that calls show_status, and quit.
MainGoto(from, to) ==
  /\ mpc = from
  /\ mpc' = to
  /\ UNCHANGED <<msg_lock, status_msg, spc, posted, drawn, timeVars, late,
                 spurious>>

\* Mutant for ClearOnlyOld: a command discards the message.
CommandQuiet_clears ==
  /\ mpc = "act"
  /\ mpc' = "draw"
  /\ status_msg' = 0
  /\ UNCHANGED <<msg_lock, spc, posted, drawn, timeVars, late, spurious>>

CommandQuiet == MainGoto("act", "draw")

CommandPosts == posted < MaxMsg /\ MainGoto("act", "post")

CommandQuits == MainGoto("act", "quit")

\* show_status: copy the message, signal, unlock.
PostLock == MainLock("post", "copy")

PostCopy ==
  /\ mpc = "copy"
  /\ posted' = posted + 1
  /\ status_msg' = posted + 1
  /\ age' = 0
  /\ mpc' = "signal"
  /\ UNCHANGED <<msg_lock, spc, drawn, left, late, spurious>>

\* Mutant for NoLostWakeup: the signal is forgotten.
PostSignal_none ==
  /\ mpc = "signal"
  /\ late' = (spc = "timedOut")
  /\ mpc' = "release"
  /\ UNCHANGED <<msg_lock, status_msg, spc, posted, drawn, timeVars, spurious>>

\* pthread_cond_signal wakes the helper if it waits, and is lost otherwise.
PostSignal ==
  /\ mpc = "signal"
  /\ spc' = CASE spc = "wait"  -> "woken"
              [] spc = "timed" -> "rewoken"
              [] OTHER         -> spc
  /\ late' = (spc = "timedOut")
  /\ mpc' = "release"
  /\ UNCHANGED <<msg_lock, status_msg, posted, drawn, timeVars, spurious>>

PostUnlock == MainUnlock("release", "draw") /\ UNCHANGED drawn

game_loop ==
  \/ DrawLock \/ DrawUnlock \/ CommandLock \/ CommandUnlock
  \/ CommandQuiet \/ CommandPosts \/ CommandQuits
  \/ PostLock \/ PostCopy \/ PostSignal \/ PostUnlock

-----------------------------------------------------------------------------
(* The helper thread. *)

HelperLock(from, to) ==
  /\ spc = from
  /\ msg_lock = "free"
  /\ msg_lock' = "status"
  /\ spc' = to
  /\ UNCHANGED <<status_msg, mainVars, timeVars, late, spurious>>

\* The first lock of the loop, and the reacquisition inside a wait.
StartLock == HelperLock("lock", "test")
WaitRelock == HelperLock("woken", "test")
TimedRelock == HelperLock("rewoken", "arm")

\* Mutant for EventuallyCleared: after a timeout the clock is restarted too.
TimedOutRelock_again == HelperLock("timedOut", "arm")

TimedOutRelock == HelperLock("timedOut", "clear")

\* while ('\0' == status_msg[0]) pthread_cond_wait (yields the lock)
TestMsg ==
  /\ spc = "test"
  /\ IF status_msg = 0
     THEN spc' = "wait" /\ msg_lock' = "free"
     ELSE spc' = "arm" /\ UNCHANGED msg_lock
  /\ UNCHANGED <<status_msg, mainVars, timeVars, late, spurious>>

\* Mutant for TypeOK: the second is carried twice.
ArmTimer_late ==
  /\ spc = "arm"
  /\ left' = Dur + 1
  /\ spc' = "sleep"
  /\ UNCHANGED <<msg_lock, status_msg, mainVars, age, late, spurious>>

\* ts = now + 1.5 seconds
ArmTimer ==
  /\ spc = "arm"
  /\ left' = Dur
  /\ spc' = "sleep"
  /\ UNCHANGED <<msg_lock, status_msg, mainVars, age, late, spurious>>

\* pthread_cond_timedwait yields the lock.
TimedWait ==
  /\ spc = "sleep"
  /\ msg_lock' = "free"
  /\ spc' = "timed"
  /\ UNCHANGED <<status_msg, mainVars, timeVars, late, spurious>>

\* ETIMEDOUT: decided here, before the lock is reacquired.
TimeOut ==
  /\ spc = "timed" /\ left = 0
  /\ spc' = "timedOut"
  /\ UNCHANGED <<msg_lock, status_msg, mainVars, timeVars, late, spurious>>

\* Either wait may return without a signal.
SpuriousWakeup ==
  /\ spc \in {"wait", "timed"}
  /\ spurious < MaxSpurious
  /\ spurious' = spurious + 1
  /\ spc' = IF spc = "wait" THEN "woken" ELSE "rewoken"
  /\ UNCHANGED <<msg_lock, status_msg, mainVars, timeVars, late>>

\* Delete the message and release the lock.
ClearMsg ==
  /\ spc = "clear"
  /\ status_msg' = 0
  /\ msg_lock' = "free"
  /\ spc' = "lock"
  /\ UNCHANGED <<mainVars, timeVars, late, spurious>>

\* After quit, cancel_status_thread ends the helper in one of its waits; the
\* wait reacquires the lock first, and nobody releases it again.
Cancelled ==
  /\ mpc = "quit"
  /\ spc \in {"wait", "timed"}
  /\ msg_lock = "free"
  /\ msg_lock' = "status"
  /\ spc' = "cancelled"
  /\ UNCHANGED <<status_msg, mainVars, timeVars, late, spurious>>

status_thread ==
  \/ StartLock \/ TestMsg \/ WaitRelock
  \/ ArmTimer \/ TimedWait \/ TimeOut \/ TimedRelock \/ TimedOutRelock
  \/ ClearMsg \/ Cancelled

\* Time passes, at any moment.
Tick ==
  /\ age < Dur \/ left > 0
  /\ age' = IF age < Dur THEN age + 1 ELSE age
  /\ left' = IF left > 0 THEN left - 1 ELSE left
  /\ UNCHANGED <<msg_lock, status_msg, spc, mainVars, late, spurious>>

\* Both threads have ended.
Ended == mpc = "quit" /\ spc = "cancelled" /\ UNCHANGED vars

Init ==
  /\ msg_lock = "free" /\ status_msg = 0
  /\ mpc = "draw" /\ spc = "lock"
  /\ left = 0 /\ age = 0
  /\ posted = 0 /\ drawn = 0
  /\ late = FALSE /\ spurious = 0

Next == game_loop \/ status_thread \/ SpuriousWakeup \/ Tick \/ Ended

Spec == Init /\ [][Next]_vars

\* Time passes and both threads run.  The main thread frees msg_lock for the
\* rest of every tick, so the helper gets it sooner or later (SF).
FairSpec ==
  /\ Spec
  /\ WF_vars(Tick)
  /\ WF_vars(game_loop)
  /\ WF_vars(TestMsg \/ ArmTimer \/ TimedWait \/ TimeOut \/ ClearMsg)
  /\ SF_vars(StartLock \/ WaitRelock \/ TimedRelock \/ TimedOutRelock)

-----------------------------------------------------------------------------
(* Properties. *)

MainLabel == {"draw", "drawing", "getcmd", "incmd", "act", "quit",
              "post", "copy", "signal", "release"}
HelperLabel == {"lock", "test", "wait", "woken", "arm", "sleep", "timed",
                "rewoken", "timedOut", "clear", "cancelled"}

\* Every variable has its type.
TypeOK ==
  /\ msg_lock \in {"free", "main", "status"}
  /\ status_msg \in 0 .. posted /\ drawn \in 0 .. posted
  /\ mpc \in MainLabel /\ spc \in HelperLabel
  /\ left \in 0 .. Dur /\ age \in 0 .. Dur
  /\ posted \in Nat /\ late \in BOOLEAN /\ spurious \in Nat

\* msg_lock is held by the thread that is in a critical section, and only
\* by it: show_status, drawing and clearing never overlap.
LockInv ==
  /\ mpc \in {"drawing", "incmd", "copy", "signal", "release"}
       <=> msg_lock = "main"
  /\ spc \in {"test", "arm", "sleep", "clear", "cancelled"}
       <=> msg_lock = "status"

\* No lost wakeup: the helper waits for a message only while there is none,
\* or while show_status is about to signal the one it has just copied.
NoLostWakeup == spc = "wait" => status_msg = 0 \/ mpc = "signal"

\* The helper's deadline is never earlier than 1.5 seconds after the message
\* in place was posted, except while show_status is about to signal; and a
\* wait that timed out did so for that message, unless the signal was late.
Deadline ==
  mpc # "signal" =>
    /\ spc \in {"timed", "sleep"} => age + left >= Dur
    /\ spc \in {"timedOut", "clear"} /\ ~late => age = Dur

\* The inductive invariant.
IInv ==
  /\ TypeOK
  /\ LockInv
  /\ NoLostWakeup
  /\ Deadline
  /\ spc \in {"arm", "sleep", "timed", "rewoken", "timedOut", "clear"}
       => status_msg # 0

\* The helper deletes a message only after 1.5 seconds, or when the message
\* was signalled between the timeout of its wait and its getting the lock.
ClearOnlyOld == [][status_msg # 0 /\ status_msg' = 0 => age = Dur \/ late]_vars

\* "Shows the message for 1.5 seconds before deleting it.  If a new message
\* has appeared in the meantime, restarts the clock and tries again."
ShownLongEnough == [][status_msg # 0 /\ status_msg' = 0 => age = Dur]_vars

\* Every message is eventually deleted, unless the player quits.
EventuallyCleared == status_msg # 0 ~> (status_msg = 0 \/ mpc = "quit")
=============================================================================
