# A TLA+ model of the machine problems in Computer-Systems-Engineering

The repository holds two programs with a kernel half and a user half each.

* **mp2** is an adventure game: a single-player walk over a campus in VGA mode X
  (`adventure.c`, `world.c`, `modex.c`, `photo.c`, `text.c`, `input.c`,
  `assert.c`) and a Linux kernel module for the *Tux controller*, a serial game
  controller with buttons and LEDs (`module/tuxctl-ld.c`, the line discipline,
  and `module/tuxctl-ioctl.c`, the driver; `module/mtcp.h` is the protocol).
* **mp1** is Missile Command on a text screen: `mp1.S`, a tasklet and ioctls
  added to the real-time clock driver (`mp1.diff`), `mp1-given.c`, the
  explosions, and `missile-command.c`, the process.

This directory models the parts of the two programs that have state and
something to get wrong in it, checks them with TLC on small instances, and
proves most of their safety properties with TLAPS for every instance.
`PROJECT.json` lists components, runs, hazards, findings, theorems, and for every
definition the lines of source it stands for.

## Inventory

| component | state | operations | talks to |
|---|---|---|---|
| line discipline, transmit (`tuxctl-ld.c`) | ring `tx_buf`, `tx_start`, `tx_end`; spin lock | `put`, `write_wakeup` | driver (calls), serial driver (callback, `write_room`, `write`) |
| line discipline, receive (`tuxctl-ld.c`) | ring `rx_buf`; static `saved`, `n_saved` | `open`, `close`, `rcv_buf`, `get`, `data_callback` | serial driver (interrupt), driver (`tuxctl_handle_packet`) |
| Tux driver (`tuxctl-ioctl.c`) and clock thread (`input.c`) | `error_flag`, `led_regular_buffer`, `button_buffer`; the clock's counter | `TUX_INIT`, `TUX_BUTTONS`, `TUX_SET_LED`, packet handler | line discipline; controller by commands and packets |
| status message (`adventure.c`) | `status_msg`, mutex, condition variable | `show_status`, `status_thread`, the locking in `game_loop` | two threads, shared memory |
| game world (`world.c`, `adventure.c`) | room of the player, places of objects, flags, speeds, what the screen shows | the movement and the typed commands | status message, display |
| Missile Command, kernel (`mp1.S`, `mp1-given.c`, `mp1.diff`) | missile list on the heap, bases, score, crosshairs | tasklet, `ADDMISSILE`, `MOVEXHAIRS`, `GETSTATUS`, `STARTGAME`, `ENDGAME` | process by ioctl and SIGUSR1 |
| Missile Command, process (`missile-command.c`) | score, bases left, own crosshairs | main loop, signal handler, `make_missile` | kernel |
| mode X display and photos (`modex.c`, `photo.c`, `adventure.c`) | view window, build buffer with its fence, video memory, palette | `read_photo`, panning, `set_view_window`, `draw_*_line`, `show_screen`, `prep_room` | game loop; callbacks into `photo.c` |
| input (`input.c`) | typed text, state of the escape sequences, buttons of the last call | `get_command`, `get_tux_command`, `reset_typed_command` | game loop; terminal; driver |
| process and cleanup stack (`adventure.c`, `assert.c`) | what the process holds (screen, terminal, threads), stack of cleanup functions, signal dispositions | `main`, `push_cleanup`, `pop_cleanup`, the signal handler, the dispatch of commands | all others |
| status bar (`text.c`, `modex.c`) | none | `text_to_graphics`, `print_status_bar` | game loop |

What is hard in them:

* *Concurrency.* Three contexts meet in the transmit ring (a process in an ioctl,
  the packet handler in the receive interrupt, the serial driver's wakeup); the
  driver's packet handler runs between any two accesses of an ioctl to the
  globals they share; two threads share the status message; the RTC tasklet
  walks the missile list in every window where an ioctl has interrupts on, and
  the signal handler interrupts the main loop; signals arrive at any step of the
  adventure's start and end, too, and nest.
* *Failure.* Bytes are lost on the line or by a full ring, the controller can be
  reset at any time, a copy from user space can fail, an initialisation can fail
  after others have succeeded, and so can the push of a cleanup function.
* *Time.* A timeout races with a new message and its signal; the bytes of one key
  are spread over several ticks.
* *Boundaries.* Rings that wrap, arrays filled by loops bounded by something
  else, fixed-point velocities, crosshairs at the edge.
* *Long sequences.* The world is a state machine of some 60 rooms and 30 objects,
  where one thing is represented by several objects.

## Modules

`ByteFifo` is the abstract specification of a ring: a bounded queue of bytes.

**`TuxTx`** (with `MCTuxTx`, `TuxTxProofs`) is the transmit path. A *context* runs
`tuxctl_ldisc_put` or `tuxctl_ldisc_write_wakeup`; `pc` is its next step, and each
lock operation, each iteration of the two loops, `write_room` and `driver->write`
is a step, so that contexts interleave exactly where the code holds no lock. The
k-th byte ever stored is the number k. The serial driver is external: a buffer
(`uart`) that accepts what fits, a wire, and the set `lost` of bytes that did not
fit in a write. The loop test is the code's `n <= room`.

**`TuxRx`** (with `TuxRxProofs`) is the receive path: bytes numbered in the order the controller sends
them (so that a byte's place in its packet of three, and its framing bit, follow),
a line that loses any of them, chunks of any length, a ring that drops what does
not fit, and the callback with its saved bytes, one loop iteration a step. The
callback's statics survive a close, as in the code. The ring is a queue here,
because a ring with the same macros is proved to be one (`RingRefinesFifo`).

**`TuxDriver`** (with `MCTuxDriver`, `TuxDriverProofs`) is `tuxctl-ioctl.c`. The ioctl in progress (`upc`) and the packet
handler (`hpc`) interleave at every access to a shared variable, since only the
handler takes the lock. Packets are whole messages in a queue; the LED buffer has two
parts that are written by separate steps. Commands are whole messages too, and pass through the
three stages of `tuxctl-ld.c`: `ldisc_put` appends one to `ring` under the lock, `Take` is
the copying loop of `write_wakeup` (by the ioctl, by the handler, or by the serial driver,
the context `wake`), and `Write` is `driver->write` after the unlock, so that the copies
(`held`) of two contexts can reach the controller in either order. `newest` and
`overtaken` keep account of the last `LED_SET` among them. The argument of
`TUX_SET_LED` is the time as the clock thread of `input.c` packs it (`buf_time`), and
`regular_buf` its conversion to the bytes of the four LEDs. The controller is
external, after `mtcp.h`: its LEDs show what `LED_SET` stored only in user mode, and the
mode it starts in and returns to at a reset, which `mtcp.h` does not give, is either; what is not a command (the six zero bytes a reset before the
first `TUX_SET_LED` sends) is answered with ERROR or, in its debug-lockup mode, stops it.
`MCTuxDriver` checks the conversion for every time up to 101 minutes against the segments
that show a digit, as an assumption TLC evaluates.

**`StatusMsg`** (with `StatusMsgProofs`) is the status message. The main thread
(`mpc`) draws, reads commands and posts, the helper (`spc`) waits, arms its timer,
waits with a timeout and clears. A wait that timed out and has not yet got the
mutex back is a state of its own (`timedOut`), which is where the race is. Time
is discrete, kept as the age of the message and the time left to the deadline.

**`World`** (with `MCWorld`, `WorldProofs`) is the world and what the game loop does after a command. Rooms and
objects have the names of their enumerations. `room_data` is the table of the
source; each `typed_cmd_*`, `try_to_*` is an action with the code's tests as guards;
the return codes are `CHANGE_ROOM`, `REDRAW_ROOM`, `NO_REDRAW`, and `shown` is what
the last redrawing put on the screen.

By the opened car `obj_special_get` returns the battery whatever name was asked for;
the model does the same. `MCWorld` has three players, each with words, droppable
things and rooms to drop them in.

**`ModeX`** (with `MCModeX`, `ModeXProofs`) is the scrolling of the room photo. The build buffer is a
function from addresses, its fence included, to pixels; a pixel is its place in the
photo or in an object's image, so that any misplaced byte shows. `set_view_window`
yields the window, its offset and the buffer after a possible move to the middle;
the `move_photo_*` actions draw the lines the code draws and nothing else, and end
with `show_screen`, which puts the four planes together again. `dac` is the palette
that `prep_room` loads.

**`Palette`** is the reading of a photo, `read_photo` and its helpers: the words of the
file are counted in two levels of an octree, the most frequent fourth-level classes
get a colour of their own, the rest the mean of what is left in their second-level
class. `Reread` says which word of the file the second pass reads for a place of the
image. `ModeX` builds on it; the number of classes kept (128 in the source) is the
constant `Kept`. `PhotoAssumption`, that a photo is a sequence of 16-bit words, that its
pixels have at least that many classes and that it is at least as large as the screen,
is true of every photo in `src/mp2/images` (183 classes
and 320x200 at least).

**`Input`** is `get_command` with the terminal below it. A key is the sequence of bytes
the terminal sends for it; a byte arrives at any time, also between two calls; the
state of the escape sequences is static. Beside it runs a reader of whole keys
(`ReadKey`), the reference for `ReadAsMeant`.

**`Session`** (with `MCSession`, `SessionProofs`) is the process: `main` from the first initialisation to the
last cleanup, the loop that reads a command and dispatches it, the recognition of
verbs, and the cleanup stack under signals. A handler never returns to what it
interrupted, so the main thread has one place `at`, which a signal sets to the
beginning of the cleanups; what stays of the interrupted call is the heap lock it may
hold (`heapHeld`) and the function nobody will execute (`unguarded`). Results of
commands that belong to `World` are a choice here.

**`Text`** is the layout of the status bar as operators: which letter is in which of the
40 cells, at which address its dots are stored, where on the screen an address is. It
has no state; `MCSession` instantiates it and TLC evaluates its statements as the
assumption `StatusBar`, for all lengths of the texts.

**`MissileGame`** (with `MissileGameProofs`) is the missile list and everybody who touches it: the tasklet
visits one missile a step (`edx`, `edi` as in the assembly), the process moves
between the points where interrupts are on (`Window`), and a signal is delivered
when the process is in user mode. `GETSTATUS` can fail to copy its word
(`StatusFailed`), and after a copy it returns what `mp1_free` left in `eax`
(`StatusReturned`), which the handler tests; `missed` says that the last call did not
return 0. Cells are allocated and freed; `bad` records a
use of freed memory. A missile's distance is a number of ticks.

**`MissileFlight`** (its proofs are in `MissileGameProofs`) is the arithmetic `MissileGame` leaves
out, with the numbers of the source: 16.16 fixed point, division rounding towards
zero, the integer square root, the packed 16-bit halves of `MOVEXHAIRS`. Flights do
not depend on each other, so one missile is followed at a time. `MCMissile` runs both
modules: they have no variable in common and no property is about both, so that
each is followed while the other one rests in its initial state.

## Runs

Passing runs; "states" are distinct states.

| run | instance | states | shows |
|---|---|---|---|
| `tx_ring` | 2 putters, 1 waker, ring of 3, driver buffer of 2, 3 bytes | 40,115 | `TypeOK`, `RingFifo`, `BufFits`, `EachByteOnce`, refinement `RingIsFifo`, liveness `AllLeave` |
| `rx_parse` | ring of 5, array of 4, chunks up to 6, gaps up to 2, 11 bytes, 1 close | 69,000 | `ArraysFit`, `HandledInOrder`, `IntactHandled`, `NoSplice`, `NoBacklog` |
| `driver` | clock at 0:00 and 9:59; 2 `SET_LED` and up to 2 button changes, or 1 other call and 1 change; 1 reset | 915,726 | `LedsRestoredUnlessRaced`, `ButtonsCurrent`, liveness `BiocEventually` |
| `status` | 1.5 s = 3 ticks, 3 messages, 2 spurious wakeups | 7,409 | `TypeOK`, `NoLostWakeup`, `ClearOnlyOld`, liveness `EventuallyCleared` |
| `world` | three players: `Winner`, `Dropper`, `Reader` | 343,000 | `WonProperly`, `ScreenCurrent`, `GateKept`, `SpeedMatches`, `OneBattery`, `Unambiguous` |
| `session` | four kinds of players: three keys of any kind; every verb in every abbreviation; keys and buttons; failures and up to 3 signals of 3 kinds. 9 letters of text, 5 bytes between two ticks | 44,000 | `RestoredUnlessRaced`, `ReadAsMeant`, `NoShadowing`, liveness `EndsUnlessHeapHeld` |
| `missile` | list: 3 cells, explosions of 2 ticks, flights up to 1, 2 enemies, 1 shot; flight: all cells as targets, all 80 columns, speeds 10 and 14 | 639,787 | `ListSound`, `SafeWhilePlaying`, `EnemiesAccounted`, `StatusCurrent`, `CrosshairsAgree`, `OnScreen`, liveness `BurnOut` and `Explodes` |
| `scroll` | screen 8x2, photos 13x4 and 8x2 with seven colours of which 2 classes are kept, 2 spare bytes, fence of 4, pans by 1 and 3, an object in two places | 22,942 | `TypeOK`, `FenceIntact`, `ScreenShowsRoom`, `ColoursConsistent` |

`ArraysFit`, `ScreenCurrent`, `RestoredUnlessRaced`, `ListSound` and `OnScreen` have the type
invariant of their module as a conjunct.

What they show, component by component.

*Transmit.* The lock excludes the loops from each other; the ring holds the latest
bytes in order and is a bounded queue; a byte that was stored is in one place at
any time, until it is on the wire or reported lost; nothing stays in the ring for
ever. `BufFits` is not obvious: the copy loop of `write_wakeup` is bounded by what
the serial driver answers, not by the size of its array, and is safe only because
one critical section cannot take more than the ring holds.

*Receive.* However the stream is cut and whatever is lost, the callback stays
inside `packet` and `saved`, no byte is used twice, and a packet that came through
whole is handled. Framing bits detect a single lost byte, not two: `NoSplice` says
that a packet made of two others spans at least two lost bytes. One call of the
callback reads at most what its array holds; `NoBacklog` says that the ring never holds
more between calls than what larger chunks brought too much.

*Driver.* A controller that was reset gets its button events enabled again, and so does
one for which `TUX_INIT` was called (the game itself never calls it); once everything
sent has been handled, the buttons are the controller's and the LEDs, in user mode, read
as the time of the last call. The last has two exceptions, and each is reached: a reset
was handled between `TUX_SET_LED`'s put and its saving of the LEDs (`raced`), since the ioctl puts first,
saves afterwards and takes no lock; or an older `LED_SET`, the handler's or the ioctl's,
was written after the last one (`overtaken`), which is the finding of `tx_reorder` seen
from above. A reset before the first `TUX_SET_LED` can stop a controller that is in
debug-lockup mode, which both properties name. `TuxDriver` assumes that the serial driver
has room for what is written.

*Status message.* See the proofs; liveness is TLC's.

*World.* The game can be won only after all quests; doors keep out whoever has
not their key; the three battery objects are one battery; the photo, the speeds
and the objects on the screen follow the state.

*Process.* However the process ends (the quit key, winning, a failing initialisation,
out of memory, a failing clock, signals at any step and on top of each other), its
last message finds the screen in text mode and the terminal as it was, with these
exceptions, which the property names and the runs reach: an event between acquiring
something and pushing its cleanup, or between unlinking a cleanup and executing it; a
signal between the two calls of the emergency exit, after which `clear_mode_X` works on
unmapped memory and leaves the screen blank. Not counted are processes killed without
their cleanups: a signal before the handlers are installed, or one repeated while its
handler runs, which another thread takes. The process ends, unless the signal interrupted
`malloc` or `free`: the handler frees memory itself.

*Input.* Text and command are those a reader of whole keys would get, however the bytes
are spread over the ticks. No verb, abbreviated as far as its minimum length allows, is
taken for another.

*Status bar.* Every dot is inside the buffer; typed text and room name are where they
belong; a message is in its place up to 33 letters.

*Missile Command.* The list survives every order of additions, removals and
ticks, although a removal makes the walk skip one missile; enemies are scored
once; no signal is lost, so the process is behind the kernel only if its last
`GETSTATUS` did not return 0 (`StatusCurrent`). `ENDGAME` frees the head of the list before it moves the
head, with interrupts on, so a tick there uses freed memory: `SafeWhilePlaying`
says that this is the only place. Every missile, to any cell, explodes exactly
there, and is on the screen until then, although the code's own test for missiles
off the screen compares unshifted coordinates and cannot see one on the right or
at the bottom.

*Scrolling.* The invariant that makes the reuse of old pixels right is the one about
the screen: after any sequence of pans, room changes and moved objects the display is
the room, for each alignment of the window to the four planes and although copies
overlap. `ColoursConsistent` follows the colour of each pixel from the word that was read for
it through the sorted classes, the two offsets and the palette to the screen, and compares
it with the mean of its class computed directly; that the word is another one than the
file has for that place is the finding of `photo_shift`. The fence that `clear_mode_X` inspects at exit is never touched. With no spare
bytes at all (`Extra` 0) the same properties hold, as the comment on `BUILD_BUF_SIZE`
says ("no extra space is necessary").

### Runs with an expected counterexample

| run | property | what the code does |
|---|---|---|
| `tx_reorder` | `InOrder` | `driver->write` is called after the unlock, so the copies of two contexts can be written in the opposite order |
| `status_race` | `ShownLongEnough` | a message posted after the helper's wait timed out and before it got the mutex back is deleted at once |
| `missile_bases` | `EndsWhenAllDead` | `GETSTATUS` stores the bases in bits 17 to 19, the signal handler counts bits 16 to 18: the game ends while base 0 is alive |
| `photo_shift` | `ColoursRight` | the second pass of `read_photo` starts at byte 0 of the file, so the header's words are the first pixels and all others are two places off |

### Bounds

Every bound is a CONSTANT marked "bound" where it is declared. They are chosen so that
the cases the properties are about occur:

* `TuxTx`: three bytes through a ring with two usable slots wrap the indices, fill
  the ring and make a put incomplete; a driver buffer of two, still partly full,
  makes `write_room` less than what is waiting; two putters and a waker give every
  pair of concurrent paths.
* `TuxRx`: four packets, chunks longer than the ring, an array shorter than the
  ring, gaps that take the end of one packet and the beginning of the next.
* `TuxDriver`: two calls of the clock, so that an old display can be told from the new, from 0:00,
  before which nothing is saved, and from 9:59, where the fourth digit appears; one reset
  at any moment of either; two button changes (with one call), one before and one after it. With the
  other calls in the same behaviour the state space is out of reach, so `MCTuxDriver` lets
  either the clock make its calls, with three of these and of button changes together, or
  another program one of the others (`OneCaller`).
* `StatusMsg`: three messages, so that one can be replaced while it is timed and
  another come too late.
* `World`: the words and rooms are split among three players, one who can win, one who
  drops things behind the robot's door and from the inventory view, one who drops books
  and the parts of the GPS; the state space of all words at once is out of reach.
* `Session`: three keys are enough for one to be cut, to be followed and to be preceded
  by another; five bytes hold a whole paging key and the beginning of the next; nine
  letters are the longest verb, and one player types more. Three signals are one in each
  of two nested handlers and a repetition. Of the four signals SIGBUS is left out of the
  run: it behaves like SIGQUIT.
* `ModeX`: two spare bytes, so that the window wanders by whole addresses in both
  directions, is moved back in either, and leaves and re-enters every alignment;
  a photo that just fills the screen leaves no room to pan; entering a room from the
  bottom of the larger photo is the case without overlap. The seven colours fall
  into classes of both levels that some share and some do not, and two are kept, so
  that a second-level class is partly and another wholly taken out.
* `MissileGame`: three cells and missiles give a head, a middle and a tail; two
  enemies and a shot give an explosion that hits both, one or none. Enemies aim at one base (`AimedAt`), whose bit the handler
  counts; `missile_bases` has two, and the theorems all.
* `MissileFlight` has no bound on the geometry; the run takes the lowest and the
  highest of the five enemy speeds.

Deadlock is checked where a stop would be an error. It is not in `rx_parse`,
`driver`, `world` and `session`, where behaviours end at their bounds or at
the end of the game. In `missile` a game that is over and a missile that is gone, or was
shot at the launcher's own cell (a division by zero), are said to end.

### Fairness

* `TuxTx`: a context inside the module keeps running; a spin lock that is released
  again and again is got (strong fairness: contention is between finitely many
  short critical sections); the port sends; the serial driver calls `write_wakeup`
  when it has room, which is its contract (`tuxctl-ld.c`, "Called by the lower level
  serial driver when it can accept more"). Nobody has to call `put`.
* `TuxDriver`: the interrupt handler runs, the controller answers, a call that was
  made goes on, into `write_wakeup` and out of it. Nobody has to call, press or reset, and
  the serial driver need not call `write_wakeup`.
* `StatusMsg`: time passes, both threads run, and the helper gets a mutex that is
  released in every round of the main loop (strong fairness), because the loop
  sleeps until its next tick with the mutex free.
* `Session`: the main thread keeps running and the terminal delivers what was typed.
  Nobody has to press a key or send a signal.
* `MissileGame`, `MissileFlight`: the clock ticks and what was begun is finished. No
  player has to fire or quit.

`TuxRx`, `World` and `ModeX` have no fairness: only safety is checked of them.

## Proofs

Eight modules of proofs, checked by TLAPS. Each extends the module it is about, states
one or more inductive invariants (TLC checks each of them on the constants of the run; in
`TuxRxProofs` with the quantifier over the naturals bounded, in `TuxDriverProofs` without
the types of the messages, which are infinite sets), shows that the initial states have
it and that every action and every stuttering step keeps it, and derives the
properties. The constants are arbitrary: the bounds of the runs are theirs only.

The library's induction theorems cannot be used with these provers, since they take an
operator as a parameter. Where a proof needs induction over a sequence, along the
missile list or over a finite set, it uses that every nonempty set of naturals has a
least member (`LeastNumber`) and every nonempty set of subsets of a finite set a smallest
one (`SmallestSet`), both from well-foundedness, applied to the set of counterexamples.

**Transmit path.** Assumptions: `CtxAssumption` (putters and wakers are disjoint,
`NoCtx` is none of them) and `SizeAssumption` (the ring has at least two slots, the
driver's buffer at least one; the bounds are naturals). The contexts are any set,
even infinite, and the bounds any numbers. The inductive invariant is

    IInv == TypeOK /\ LockInv /\ BufInv /\ RingFifo

`RingFifo` needs `LockInv` and the range of the indices; `BufFits` is not inductive,
because it forgets where a local copy came from, so `BufInv` adds that while a
context is copying, its copy and what is left in the ring together are smaller than
the ring (`LockInv` keeps everyone else from adding to it meanwhile), and that a
context outside the loop holds no bytes. Lemmas `ModOnce`, `RingArith`, `RingUsed`,
`SlotEnd`, `SlotNext` reduce the modular indices to case distinctions; `RingPut` and
`RingTake` say what a step does to the contents, `QueuePut` and `QueueTake` the same
for the sequence they represent. Theorems: `TypeCorrect`, `MutualExclusion`,
`RingContents`, `NoOverrun`, and `RingRefinesFifo`: the ring implements `ByteFifo` with
capacity `TUXCTL_BUFSIZE - 1`.

Two further invariants give every byte its place by its number. `OnceInv`: the bytes
that have left the ring, 1 to `enq` less those still in it, are divided among the local
copies, the driver's buffer, the wire and `lost`, and no sequence holds a byte twice. It
gives `EveryByteOnce`, the theorem for `EachByteOnce`, under every interleaving of any
set of contexts. `OrderInv`: what left the ring is in the order wire, driver's buffer,
the one local copy, ring. It is kept only while no two contexts are between the lock of
`write_wakeup` and the return of `driver->write` (`OneWriter`), and gives
`InOrderIfSerialised`: the order that `tx_reorder` shows violated holds in every behaviour
that satisfies `OneWriter`, so the missing serialisation is the whole of that finding.

**Status message.** Assumption: `StatusAssumption` (the duration is a positive number of
ticks). The inductive invariant adds to `TypeOK`, `LockInv`, `NoLostWakeup` and
`Deadline` that from the arming of the timer to the clearing there is a message:
without it a wakeup could find none, and the argument that the helper goes back to
the right wait would not close. Theorems: `TypeCorrect`, `MutualExclusion`,
`WakeupNotLost`, `DeadlineRight`, and the action property `MessagesShown`: a message is
deleted only at its full age, or if its signal was late.

**Receive path.** Assumption: `RxAssumption` (the ring has two slots at least, the array
three at least). The properties speak of bytes already handled, and none is inductive;
`IInv` adds where the other bytes are. `Ordered`: what waits in the saved bytes, in the
array and in the ring, in this order, increases. `HandledOld`: what was handled is older
than that. `NoHoles`: from the oldest waiting byte on, every byte waits or is lost.
`Looked`: a packet whose first byte has been looked at was handled or has lost a byte;
this is the resynchronisation, and with `NoHoles` it gives `IntactHandled`. `Backlog`
bounds the ring at each point of a call. Theorems: `ArraysFitAlways`, `PacketsInOrder`,
`SplicesBounded`, `BacklogBounded`, `WholePacketsHandled`.

**Driver.** Assumption: `DriverAssumption` (counters and starting times are naturals). The
properties hold when nothing is on the way; the invariant says what is on the way
otherwise. `LedsComing`: unless the race or the overtaking happened or the controller is
locked up, the display that should appear is the last one in the place that `newest` names
(the ring, a context's copy, or what was written: `LastSet`), or the controller has it and
no other is coming (`Reached`), or a reset that is yet to be handled will send it again.
`ButtonsComing` is the same for the buttons, with the event between its two
stores. `Saved`: outside `TUX_SET_LED` the saved bytes are the last time's. The lemma
`Clock` says that the conversion of every time reads as that time. Theorems:
`ButtonsFollow`, `LedsRestored`.

**Input and process.** Assumptions: `InputAssumption`, `PlayersAssumption` (what players
press are keys the terminal has bytes for) and `SessionAssumption` (SIGSEGV is among the
signals). For the input, `Stream` says that what lies on the line and in the terminal's
buffer is the rest of one key and then whole keys, and that the state of the escape
sequences is where that rest begins; so a key read in two calls is read as in one.
For the process, `Places` gives the stack at each place of the main thread and `Guarded`
says that what is not as it was has its cleanup on the stack or in hand, or is
`unguarded`. That the verbs do not hide one another is a fact about the table, for every
typed text. Theorems: `InputReadAsMeant`, `ProcessRestores`, `VerbsUnambiguous`.

**World.** Assumption: `WorldAssumption` (things are not dropped in the room that stands
for the inventory). The theorems hold for every player, while the run has three. `IInv`
relates what the six properties leave apart: `Battery` (which object stands for the
battery in each phase of the car's repair), `OneEach` (of the two GPS and the two robots
one is in limbo), `Gates` (nobody is at Allerton without the car) and `Quests` (what the
completion of each quest presupposes of those before it, without which `WonProperly`
says too little about the moment before). Theorems: `NoQuestSkipped`, `ScreenFollows`,
`GatesKept`, `SpeedsFollow`, `BatteryUnique`, `NamesUnambiguous`.

**Missile list.** Assumption: `GameAssumption`. The list is described as an injective
sequence of cells (`Chain`), with the places of the tasklet's two pointers in it
(`Walking`), and during `ENDGAME` as the rest that `esi` points to (`RestUnlinked`,
`RestFreed`). `Nth`, which the properties use, is shown to run through that sequence.
`Control` restricts when the tasklet can be inside the list. `Counted` adds the enemies in
flight, `Notified` what is known while a status word is being copied or was in vain. Theorems:
`ListStaysSound`, `NoUseAfterFree` (before `ENDGAME`; the windows inside it are what
the property leaves out), `EachEnemyOnce`, and `StatusArrives`, which needs fewer than
2^16 enemies, because the score has 16 bits of the status word.

**Flight.** `MissileGameProofs` also extends `MissileFlight`, whose specification is
`FlightSpec`, and proves its two invariants. Assumption: `FlightAssumption` (enemies start
in one of the 80 columns, with a speed from 10 to 14). For the crosshairs,
`Aimed` says that both copies are inside the screen and equal: a move changes
one coordinate by one, and only therefore do the process, which limits both, and
`MOVEXHAIRS`, which limits the first that is out of range, agree. `OnScreen` is not
inductive, for it knows nothing of where a missile is going. `FlightInv` adds `OnWay`:
some number of ticks from now the missile is in its destination's cell. That such a
number exists when the missile starts follows from bounds on the integer square root
(the velocity, rounded towards zero, falls short of the exact one by less than a cell
over the whole flight); that every position before is on the screen, because start and
destination are and the path between is straight. Theorems: `CrosshairsStayEqual` and
`MissilesOnScreen`, for shots and for enemies from every column at every speed from 10
to 14; the run has the speeds 10 and 14.

**Display.** Assumptions: `ScreenAssumption`, `PhotoAssumption`, `ObjectAssumption` (places are
integers, sizes naturals). A pan draws the lines that come into view only, so that
`ScreenShowsRoom` is not inductive: `Held` adds that the build buffer holds every pixel of
the view at its address. Three facts keep it so: different pixels of a view have
different addresses, all inside the buffer when the view fits (`AddressInjective`,
`AddressInside`), and hence drawing changes its own pixels only (`DrawnPixels`);
`show_screen`, which computes addresses in another way, reads the same ones
(`ScreenPixels`); `set_view_window` moves what two views share to its new address and
leaves the fence alone (`Moved`). Theorems: `ViewStaysInside`, `FenceKept`,
`ScreenFollowsView`, for every size of screen and spare memory.

For the colours there is a fact about every step and one about every file. `Prepared`:
the display has the palette of the photo in view. The rest is about `read_photo`, for any
sequence of words that satisfies `PhotoAssumption` and any `Kept` from 1 to 128. Its sums
are folds over sets, and its sort a recursive function; that both recursions have a
solution, that a sum does not depend on the order, and that a sum over disjoint sets is
the sum of the sums is proved first (`SumExists`, `SumWithout`, `SumFamily`,
`SortsExists`). Then: `qsort` keeps `Kept` different classes, and none has fewer pixels than
one that is dropped (`KeptClasses`); a fourth-level class lies in one second-level class
(`Bits`), so what `set_plt_values` subtracts leaves exactly the pixels without a class of
their own (`RestCounts`); an average fits the five or six bits of its colour, so that
doubling it does not overflow the display's six (`ShownMean`); and the second pass over
the file stays within it (`Indices`). Theorem: `ColoursFollowRoom`, for `ColoursConsistent`.
The two words of the header, which the second pass takes for pixels, may get an entry
nobody wrote; the property leaves open what colour they have then.

Only model-checked:

* the liveness properties `AllLeave`, `BiocEventually`, `EventuallyCleared`, `BurnOut`,
  `Explodes` and `EndsUnlessHeapHeld`: fairness is out of the prover's reach;
* that the arithmetic of `MissileFlight` does not overflow 32 bits: TLC stops at an
  overflow, while the integers of a proof are unbounded;
* the statements about the status bar in `Text`, which TLC evaluates for all lengths.

## Not modelled

* Drawing: the values of the VGA registers and the alternation of the two display
  pages (`modex.c`), the font table (`text.c`), object images (`read_obj_image` copies a
  file), the conversion program `mp2photo.c`, the program `tr` that restores text mode, the
  text screen of mp1.
* In the driver: the answers to `MTCP_POLL_LEDS` (the driver never sends the poll) and the
  flags that are written and never read. The ring below the driver is unbounded in
  `TuxDriver` and the serial driver has room for what is written; in the source a nearly
  full ring stores the beginning of a command only, the driver does not look at the result
  of the put, and `write_wakeup` may split a command or have its last byte dropped
  (`TuxTx` has these cases for bytes).
* In the line discipline: failing allocations.
* In `mp1`: a failing `mp1_malloc` (its result is not tested), several processors, the
  stand-in for the kernel (`mp1_userspace.c`, `vga.c`).

### Remarks on the code

Met while modelling, and no statement of a property:

* `LED_USR` is sent by `TUX_INIT` only, which the game does not call, and not again after a
  reset: whether the time is seen depends on the mode the controller starts in.
* `GETSTATUS` sets its return value to 0 and then calls `mp1_free`, in the kernel build a
  void function that ends in `kfree` and need not keep `eax`. If it leaves anything but 0,
  the signal handler ignores the word that was copied, and as nothing asks again until the
  next change, the final score may lack a point.
* Two words of a photo's header are taken for pixels (`photo_shift`), and their colours can
  be palette entries nobody wrote.
* `text_to_graphics` copies twenty letters backwards from the end of the typed text, even if
  fewer were typed: the cells to the left show what lies before the text in memory.
* A status message of more than 33 letters runs over the right edge, because its offset
  is in addresses of four pixels and computed from 60; only one of 20 letters is centred.
* `copy_image` copies 16000 bytes of a plane, although the scrolled part of the screen has
  fewer.
* The clock shows 0 minutes for good after 99:59.
* In one tick a later key, and any Tux direction that is held, replaces an Enter typed
  before: the command is not executed, its text stays.
* `process_rcvd_pckt0` and `process_rcvd_pckt1` exchange the LEDs of a pair when the bit for
  the first of them is set; they are not reached, since nothing polls.
* `init_input` makes stdin non-blocking, and nothing takes that back.
* `clean_on_signals` passes a `sigaction` of which only the handler is set.
* `perror` at the emergency exit is the only one that comes after the screen is in text
  mode; those of `init_input` write to a screen in mode X.

## Plan

Done: all components that have state, with the exceptions above; proofs of the safety
properties of the transmit and receive paths, the driver, the status message, the
input, the process, the world, the missile list and the display.

Every invariant a run checks is stated by a theorem. Left: the bound of the ring below
the driver (`put` of a command into a nearly full ring), which needs the transmit ring and
the driver in one module.
