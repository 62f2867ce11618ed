---------------------------- MODULE MissileGame -----------------------------
(***************************************************************************)
(* Missile Command, mp1: the missile list of mp1.S with the RTC tasklet    *)
(* that walks it and the ioctls that change it, and the process of         *)
(* missile-command.c with its SIGUSR1 handler.                             *)
(*                                                                         *)
(* The kernel build (mp1.diff) on one processor: an ioctl runs with        *)
(* interrupts off, except inside mp1_malloc, mp1_free and mp1_copy_*,      *)
(* which enable them.  Those calls are the windows where the tasklet can   *)
(* run; while it runs the process does not.  A signal is delivered as soon *)
(* as the process is back in user mode.                                    *)
(*                                                                         *)
(* Geometry is MissileFlight's subject: here a missile is some ticks away  *)
(* from its destination, an enemy's destination is a base, and which       *)
(* enemies an explosion reaches is open.  Drawing is left out, and so is   *)
(* the removal of missiles that left the screen (MissileFlight: never).    *)
(***************************************************************************)
EXTENDS Integers, FiniteSets

CONSTANTS
  Cells,       \* addresses mp1_malloc can return
  Null,
  Explosion,   \* ticks an explosion lasts (50 in the source)
  AimedAt,     \* bound: bases the enemies aim at
  MaxFlight,   \* bound: ticks of a flight
  MaxEnemies,  \* bound: enemy missiles launched
  MaxShots     \* bound: missiles fired

ASSUME GameAssumption == /\ Null \notin Cells /\ IsFiniteSet(Cells)
                         /\ Explosion \in Nat \ {0, 1}
                         /\ AimedAt \subseteq 0 .. 2
                         /\ {MaxFlight, MaxEnemies, MaxShots} \subseteq Nat

Bases == 0 .. 2

VARIABLES
  mp1_missile_list, next,  \* the list: its head and the NEXT fields
  missile,     \* the other fields of each cell
  alloc,       \* the cells that are allocated
  base_alive, mp1_score,
  pie,         \* RTC interrupts are on
  edx, edi,    \* the tasklet: current missile and the one before it
  running,     \* whether the tasklet runs
  pc, back,    \* next step of the process, and where a call returns to
  cell,        \* the process: the cell it adds or frees
  esi,         \* ENDGAME: the missile after it
  status_word, \* GETSTATUS: the word being copied
  sigusr1,     \* SIGUSR1 is pending
  score, bases_left,       \* what the process knows
  missed,      \* its last GETSTATUS did not return 0
  quit,        \* the player hit the ` key
  enemies, shots, arrived, \* enemies launched, shots, enemies at their base
  bad          \* freed memory was used

list == <<mp1_missile_list, next>>
heap == <<missile, alloc, bad>>
game == <<base_alive, mp1_score, arrived>>
tasklet == <<edx, edi, running>>
process == <<pc, back, cell, esi, status_word, quit, pie>>
user == <<score, bases_left, missed>>
counts == <<enemies, shots>>
vars == <<list, heap, game, tasklet, process, sigusr1, user, counts>>

-----------------------------------------------------------------------------
(* The list. *)

Fresh(kind, b, k) == [c |-> kind, exploded |-> 0, togo |-> k, over |-> FALSE, base |-> b]

\* What a freed cell holds: nothing reads it, except where bad is set.
Scrap == Fresh("*", 0, 0)

\* The k-th cell from the head.
Nth == LET f[k \in 0 .. Cardinality(Cells)] ==
             IF k = 0 THEN mp1_missile_list
             ELSE IF f[k - 1] = Null THEN Null ELSE next[f[k - 1]]
       IN  f

Listed == { Nth[k] : k \in 0 .. Cardinality(Cells) } \ {Null}

Enemy(m) == m.c = "e"

\* Mutant for EnemiesAccounted: exploded enemies are destroyed again.
Targets_all == { i \in Listed : Enemy(missile[i]) }

\* Enemies an explosion can still destroy.
Targets == { i \in Listed : Enemy(missile[i]) /\ missile[i].exploded = 0 }

-----------------------------------------------------------------------------
(* The tasklet: update_missiles, one missile of the list after the other. *)

\* The signal handler is inside GETSTATUS.
Handling == {"statusMalloc", "statusCopy", "statusFree", "statusFailed"}

\* Points in the process where interrupts are on.
Window == {"loop", "inject", "addCopy", "unlinked", "freed", "ended"} \cup Handling

TaskletStart ==
  /\ ~running /\ pie /\ pc \in Window
  /\ mp1_missile_list # Null
  /\ IF mp1_missile_list \in alloc
     THEN /\ running' = TRUE
          /\ edx' = mp1_missile_list
          /\ UNCHANGED bad
     ELSE /\ bad' = TRUE
          /\ UNCHANGED <<running, edx>>
  /\ edi' = Null
  /\ UNCHANGED <<list, missile, alloc, game, process, sigusr1, user, counts>>

\* end_of_loop, with edx = m: go on to the next missile or stop.
Advance(m, nxt) ==
  LET n == IF m = Null THEN Null ELSE nxt[m]
  IN  /\ edx' = n
      /\ edi' = IF n = Null THEN Null ELSE m
      /\ running' = (n # Null)

\* Mutant for SafeWhilePlaying: edi is left at the missile removed.
Remove_staleEdi ==
  LET after == next[edx]
      nxt == IF edx = mp1_missile_list
             THEN [next EXCEPT ![edx] = Null]
             ELSE [next EXCEPT ![edi] = after, ![edx] = Null]
  IN  /\ next' = nxt
      /\ mp1_missile_list' = IF edx = mp1_missile_list THEN after
                                                       ELSE mp1_missile_list
      /\ alloc' = alloc \ {edx}
      /\ bad' = (bad \/ edx \notin alloc \/ edi \notin alloc \cup {Null})
      /\ edx' = after /\ edi' = edx /\ running' = (after # Null)

\* missile_remove and mp1_missile_remove: unlink edx and free it.  The walk
\* goes on behind the missile that followed it.
Remove ==
  LET after == next[edx]
      nxt == IF edx = mp1_missile_list
             THEN [next EXCEPT ![edx] = Null]
             ELSE [next EXCEPT ![edi] = after, ![edx] = Null]
  IN  /\ next' = nxt
      /\ mp1_missile_list' = IF edx = mp1_missile_list THEN after
                                                       ELSE mp1_missile_list
      /\ alloc' = alloc \ {edx}
      /\ bad' = (bad \/ edx \notin alloc \/ edi \notin alloc \cup {Null})
      /\ Advance(after, nxt)

\* Mutant for StatusCurrent: the loss of a base is not notified.
Explode_quiet(m, hit, low) ==
  LET kills == Enemy(m) /\ m.over /\ base_alive[m.base]
      left == m.exploded - 1
  IN  /\ hit \subseteq Targets \ {edx} /\ low \subseteq hit
      /\ Enemy(m) => hit = {}
      /\ missile' = [i \in Cells |->
           CASE i = edx   -> IF left = 0 THEN Scrap
                                         ELSE [m EXCEPT !.exploded = left]
             [] i \in hit -> [missile[i] EXCEPT !.exploded = Explosion,
                                                !.over = i \in low]
             [] OTHER     -> missile[i]]
      /\ mp1_score' = mp1_score + Cardinality(hit)
      /\ base_alive' = IF kills THEN [base_alive EXCEPT ![m.base] = FALSE]
                                ELSE base_alive
      /\ sigusr1' = (sigusr1 \/ hit # {})
      /\ IF left = 0 THEN Remove
                     ELSE Advance(edx, next) /\ UNCHANGED <<list, alloc, bad>>

\* missile_explode and explode_base for the exploding missile m at edx: the
\* enemies in hit are in reach, and those in low of them are above a base.
\* The user is notified if anything changed.
Explode(m, hit, low) ==
  LET kills == Enemy(m) /\ m.over /\ base_alive[m.base]
      left == m.exploded - 1
  IN  /\ hit \subseteq Targets \ {edx} /\ low \subseteq hit
      /\ Enemy(m) => hit = {}
      /\ missile' = [i \in Cells |->
           CASE i = edx   -> IF left = 0 THEN Scrap
                                         ELSE [m EXCEPT !.exploded = left]
             [] i \in hit -> [missile[i] EXCEPT !.exploded = Explosion,
                                                !.over = i \in low]
             [] OTHER     -> missile[i]]
      /\ mp1_score' = mp1_score + Cardinality(hit)
      /\ base_alive' = IF kills THEN [base_alive EXCEPT ![m.base] = FALSE]
                                ELSE base_alive
      /\ sigusr1' = (sigusr1 \/ kills \/ hit # {})
      /\ IF left = 0 THEN Remove
                     ELSE Advance(edx, next) /\ UNCHANGED <<list, alloc, bad>>

\* Mutant for BurnOut: exploding again starts the countdown again.
VisitExploded_again(hit, low) ==
  /\ running /\ missile[edx].exploded > 0
  /\ Explode([missile[edx] EXCEPT !.exploded = Explosion], hit, low)
  /\ UNCHANGED <<arrived, process, user, counts>>

\* A missile that has exploded: it does so again, then counts down.
VisitExploded(hit, low) ==
  /\ running /\ missile[edx].exploded > 0
  /\ Explode(missile[edx], hit, low)
  /\ UNCHANGED <<arrived, process, user, counts>>

\* A missile at its destination explodes.
VisitArrived(hit, low) ==
  /\ running /\ missile[edx].exploded = 0 /\ missile[edx].togo = 0
  /\ Explode([missile[edx] EXCEPT !.exploded = Explosion, !.over = TRUE], hit, low)
  /\ arrived' = IF Enemy(missile[edx]) THEN arrived + 1 ELSE arrived
  /\ UNCHANGED <<process, user, counts>>

VisitMoving ==
  /\ running /\ missile[edx].exploded = 0 /\ missile[edx].togo > 0
  /\ missile' = [missile EXCEPT ![edx].togo = @ - 1]
  /\ Advance(edx, next)
  /\ UNCHANGED <<list, alloc, bad, game, process, sigusr1, user, counts>>

mp1_rtc_tasklet ==
  \/ TaskletStart
  \/ \E hit \in SUBSET Targets : \E low \in SUBSET hit :
       VisitExploded(hit, low) \/ VisitArrived(hit, low)
  \/ VisitMoving

-----------------------------------------------------------------------------
(* The process. *)

\* A step of the process from p to q: not while the tasklet runs, and not in
\* user mode while a signal is pending.
UserMode == {"loop", "inject", "ended"}

Step(p, q) ==
  /\ ~running /\ pc = p
  /\ p \in UserMode => ~sigusr1
  /\ pc' = q

\* make_missile and ADDMISSILE up to the copy: mp1_malloc returns c.
AddCall(c, m) ==
  /\ c \notin alloc
  /\ alloc' = alloc \cup {c}
  /\ missile' = [missile EXCEPT ![c] = m]
  /\ cell' = c
  /\ UNCHANGED <<list, bad, game, tasklet, esi, status_word, quit, pie,
                 sigusr1, user>>

\* The main loop: the player fires,
Fire(c, k) ==
  /\ Step("loop", "addCopy") /\ back' = "inject"
  /\ bases_left # 0 /\ shots < MaxShots
  /\ shots' = shots + 1
  /\ AddCall(c, Fresh("*", 0, k))
  /\ UNCHANGED enemies

\* or does something else that leaves the missiles alone;
OtherCommand ==
  /\ Step("loop", "inject")
  /\ bases_left # 0
  /\ UNCHANGED <<list, heap, game, tasklet, back, cell, esi, status_word, quit,
                 pie, sigusr1, user, counts>>

\* then an enemy may be launched.
InjectEnemy(c, b, k) ==
  /\ Step("inject", "addCopy") /\ back' = "loop"
  /\ enemies < MaxEnemies
  /\ AddCall(c, Fresh("e", b, k))
  /\ UNCHANGED counts

InjectNone ==
  /\ Step("inject", "loop")
  /\ UNCHANGED <<list, heap, game, tasklet, back, cell, esi, status_word, quit,
                 pie, sigusr1, user, counts>>

\* Mutant for ListSound: the NEXT field of the new missile is not set.
AddLink_noNext ==
  /\ Step("addCopy", back)
  /\ mp1_missile_list' = cell
  /\ cell' = Null
  /\ enemies' = IF Enemy(missile[cell]) THEN enemies + 1 ELSE enemies
  /\ UNCHANGED <<next, heap, game, tasklet, back, esi, status_word, quit, pie,
                 sigusr1, user, shots>>

\* ADDMISSILE after the copy: the new missile becomes the head,
AddLink ==
  /\ Step("addCopy", back)
  /\ next' = [next EXCEPT ![cell] = mp1_missile_list]
  /\ mp1_missile_list' = cell
  /\ cell' = Null
  /\ enemies' = IF Enemy(missile[cell]) THEN enemies + 1 ELSE enemies
  /\ UNCHANGED <<heap, game, tasklet, back, esi, status_word, quit, pie,
                 sigusr1, user, shots>>

\* or is freed if the copy failed.
AddFails ==
  /\ Step("addCopy", back)
  /\ alloc' = alloc \ {cell}
  /\ missile' = [missile EXCEPT ![cell] = Scrap]
  /\ cell' = Null
  /\ UNCHANGED <<list, bad, game, tasklet, back, esi, status_word,
                 quit, pie, sigusr1, user, counts>>

-----------------------------------------------------------------------------
(* sigusr1_handler and GETSTATUS. *)

HandlerEnter ==
  /\ ~running /\ sigusr1 /\ pc \in UserMode
  /\ sigusr1' = FALSE
  /\ pc' = "statusMalloc" /\ back' = pc
  /\ UNCHANGED <<list, heap, game, tasklet, cell, esi, status_word, quit, pie,
                 user, counts>>

Bit(b) == IF b THEN 1 ELSE 0

StatusWord ==
  (4 * Bit(base_alive[0]) + 2 * Bit(base_alive[1]) + Bit(base_alive[2])) * 2^17
    + mp1_score

StatusRead ==
  /\ Step("statusMalloc", "statusCopy")
  /\ status_word' = StatusWord
  /\ UNCHANGED <<list, heap, game, tasklet, back, cell, esi, quit, pie, sigusr1,
                 user, counts>>

\* The copy succeeds or fails; in both cases mp1_free comes next.
StatusCopied(done) ==
  /\ Step("statusCopy", IF done THEN "statusFree" ELSE "statusFailed")
  /\ UNCHANGED <<list, heap, game, tasklet, back, cell, esi, status_word, quit, pie,
                 sigusr1, user, counts>>

BitOf(word, n) == (word \div 2^n) % 2

\* What the handler takes from the word: the score, and how many bases.
ScoreOf(word) == word % 2^16
BasesOf(word) == BitOf(word, 16) + BitOf(word, 17) + BitOf(word, 18)

\* GETSTATUS returns to the handler.  After a copy that succeeded, eax is set
\* to 0 before the call of mp1_free, which has no result: what kfree left in
\* eax is returned, and anything but 0 makes the handler ignore the word.
StatusReturned(zero) ==
  /\ Step("statusFree", back)
  /\ IF zero THEN /\ score' = ScoreOf(status_word)
                  /\ bases_left' = BasesOf(status_word)
             ELSE UNCHANGED <<score, bases_left>>
  /\ missed' = ~zero
  /\ status_word' = 0
  /\ UNCHANGED <<list, heap, game, tasklet, back, cell, esi, quit, pie, sigusr1,
                 counts>>

\* After a copy that failed the result is -1.
StatusFailed ==
  /\ Step("statusFailed", back)
  /\ missed' = TRUE
  /\ status_word' = 0
  /\ UNCHANGED <<list, heap, game, tasklet, back, cell, esi, quit, pie, sigusr1,
                 score, bases_left, counts>>

-----------------------------------------------------------------------------
(* The end of the game. *)

\* The loop ends: no bases are left, or the player quits.
LeaveLoop(key) ==
  /\ Step("loop", "endLoop")
  /\ key \/ bases_left = 0
  /\ quit' = (bases_left # 0)
  /\ cell' = mp1_missile_list
  /\ UNCHANGED <<list, heap, game, tasklet, back, esi, status_word, pie, sigusr1,
                 user, counts>>

\* ENDGAME: for every missile, head_case of mp1_missile_remove.  NEXT is
\* cleared, mp1_free opens its window, and only then the head moves on.
EndUnlink ==
  /\ Step("endLoop", "unlinked")
  /\ cell # Null
  /\ esi' = next[cell]
  /\ next' = [next EXCEPT ![cell] = Null]
  /\ UNCHANGED <<mp1_missile_list, heap, game, tasklet, back, cell, status_word,
                 quit, pie, sigusr1, user, counts>>

EndFree ==
  /\ Step("unlinked", "freed")
  /\ alloc' = alloc \ {cell}
  /\ missile' = [missile EXCEPT ![cell] = Scrap]
  /\ bad' = (bad \/ cell \notin alloc)
  /\ UNCHANGED <<list, game, tasklet, back, cell, esi, status_word,
                 quit, pie, sigusr1, user, counts>>

EndHead ==
  /\ Step("freed", "endLoop")
  /\ mp1_missile_list' = esi
  /\ cell' = esi /\ esi' = Null
  /\ UNCHANGED <<next, heap, game, tasklet, back, status_word, quit, pie, sigusr1,
                 user, counts>>

EndDone ==
  /\ Step("endLoop", "ended")
  /\ cell = Null
  /\ UNCHANGED <<list, heap, game, tasklet, back, cell, esi, status_word, quit,
                 pie, sigusr1, user, counts>>

\* RTC_PIE_OFF and the game-over screen.
PieOff ==
  /\ Step("ended", "over")
  /\ pie' = FALSE
  /\ UNCHANGED <<list, heap, game, tasklet, back, cell, esi, status_word, quit,
                 sigusr1, user, counts>>

Over == pc = "over" /\ UNCHANGED vars

-----------------------------------------------------------------------------
main ==
  \/ \E c \in Cells, k \in 0 .. MaxFlight :
       Fire(c, k) \/ \E b \in AimedAt : InjectEnemy(c, b, k)
  \/ OtherCommand \/ InjectNone
  \/ AddLink \/ AddFails
  \/ \E key \in BOOLEAN : LeaveLoop(key)
  \/ EndUnlink \/ EndFree \/ EndHead \/ EndDone \/ PieOff

sigusr1_handler ==
  \/ HandlerEnter \/ StatusRead
  \/ \E done \in BOOLEAN : StatusCopied(done)
  \/ \E zero \in BOOLEAN : StatusReturned(zero)
  \/ StatusFailed

\* After STARTGAME and RTC_PIE_ON.
Init ==
  /\ mp1_missile_list = Null /\ next = [c \in Cells |-> Null]
  /\ missile = [c \in Cells |-> Scrap]
  /\ alloc = {} /\ bad = FALSE
  /\ base_alive = [b \in Bases |-> TRUE] /\ mp1_score = 0 /\ arrived = 0
  /\ edx = Null /\ edi = Null /\ running = FALSE
  /\ pc = "loop" /\ back = "loop" /\ cell = Null /\ esi = Null
  /\ status_word = 0 /\ quit = FALSE /\ pie = TRUE
  /\ sigusr1 = FALSE /\ score = 0 /\ bases_left = 3 /\ missed = FALSE
  /\ enemies = 0 /\ shots = 0

Next == mp1_rtc_tasklet \/ main \/ sigusr1_handler \/ Over

Spec == Init /\ [][Next]_vars

\* The clock ticks, the tasklet runs to its end and so does the process; no
\* player has to fire or quit.
Fairness ==
  /\ WF_vars(mp1_rtc_tasklet)
  /\ WF_vars(AddLink \/ AddFails \/ InjectNone)
  /\ WF_vars(sigusr1_handler)
  /\ WF_vars(EndUnlink \/ EndFree \/ EndHead \/ EndDone \/ PieOff)

FairSpec == Spec /\ Fairness

-----------------------------------------------------------------------------
(* Properties. *)

Missile == [c : {"*", "e"}, exploded : 0 .. Explosion, togo : 0 .. MaxFlight,
            over : BOOLEAN, base : Bases]
CellOrNull == Cells \cup {Null}
Label == Window \cup {"endLoop", "over"}

\* Every variable has its type.
TypeOK ==
  /\ mp1_missile_list \in CellOrNull /\ next \in [Cells -> CellOrNull]
  /\ missile \in [Cells -> Missile] /\ alloc \subseteq Cells /\ bad \in BOOLEAN
  /\ base_alive \in [Bases -> BOOLEAN] /\ mp1_score \in Nat /\ arrived \in Nat
  /\ {edx, edi, cell, esi} \subseteq CellOrNull
  /\ {running, quit, pie, sigusr1} \subseteq BOOLEAN
  /\ pc \in Label /\ back \in UserMode
  /\ status_word \in Nat /\ score \in Nat /\ bases_left \in 0 .. 3
  /\ missed \in BOOLEAN /\ enemies \in Nat /\ shots \in Nat

\* The main loop has ended (a handler may have interrupted what follows).
Ending == \/ pc \in {"endLoop", "unlinked", "freed", "ended", "over"}
          \/ pc \in Handling /\ back = "ended"

\* However ADDMISSILE and the removals of the tasklet follow each other, the
\* list has no cycle and holds exactly the missiles in memory: none leaks,
\* none is freed while it is listed.  (Checked together with the types.)
ListSound ==
  /\ TypeOK
  /\ ~bad /\ pc \notin {"unlinked", "freed"} =>
       /\ Nth[Cardinality(Cells)] = Null
       /\ Listed = IF pc = "addCopy" THEN alloc \ {cell} ELSE alloc

\* Freed memory is used, if ever, by a tasklet that ran inside ENDGAME: while
\* the game is on, no order of ioctls and ticks leads there.
SafeWhilePlaying == bad => Ending

\* "You get 1 point for each enemy missile you destroy": an enemy launched is
\* in flight, or has reached its base, or was scored, exactly once.
EnemiesAccounted ==
  LET flying == { i \in Listed : Enemy(missile[i]) /\ missile[i].exploded = 0 }
  IN  ~Ending => enemies = mp1_score + arrived + Cardinality(flying)

\* No change of the game escapes the process, given a GETSTATUS that returns 0:
\* when no signal is pending or being handled and the last GETSTATUS was not
\* in vain, its score is the kernel's and its bases are those of the status
\* word of this moment (or none was lost yet); also when the final score is
\* printed.  Which bases the word's bits are is EndsWhenAllDead's subject.
StatusCurrent ==
  ~running /\ ~sigusr1 /\ ~missed /\ pc \in UserMode \cup {"addCopy", "over"} =>
    /\ score = mp1_score
    /\ bases_left = BasesOf(StatusWord) \/ (bases_left = 3 /\ \A b \in Bases : base_alive[b])

\* Every missile is taken out of memory in the end, although a removal makes
\* the tasklet skip the missile behind it.
BurnOut == \A c \in Cells : c \in alloc ~> c \notin alloc

\* "The game ends when your bases are all dead or you hit the ` key."
EndsWhenAllDead == Ending /\ ~quit => \A b \in Bases : ~base_alive[b]
=============================================================================
