----------------------------- MODULE TuxDriver ------------------------------
(***************************************************************************)
(* The Tux controller driver, mp2/module/tuxctl-ioctl.c: tuxctl_ioctl in   *)
(* the game's process, tuxctl_handle_packet in the receive interrupt, the  *)
(* globals they share, the transmit half of the line discipline            *)
(* (tuxctl-ld.c) that both call, and the controller at the other end.      *)
(*                                                                         *)
(* tuxctl_handle_packet takes the driver's spin lock, tuxctl_ioctl does    *)
(* not, so the two interleave at every access to a shared variable.        *)
(* ioctls exclude each other (the kernel calls them one at a time).        *)
(*                                                                         *)
(* Data: the six bytes of an LED_SET command, and of led_regular_buffer,   *)
(* are two parts that are written separately: bytes 0 to 3 (opcode, mask,  *)
(* LEDs 0 and 1) and bytes 4 and 5 (LEDs 2 and 3); only the LEDs' bytes    *)
(* are kept.  Buttons are two bytes, each 0 or 1.  What is received is a   *)
(* queue of whole packets.  What is put is a ring of whole commands, taken *)
(* out in one piece: the serial driver is assumed to have room for the     *)
(* ring's 63 bytes, and the ring for what is put.  TuxTx has the bytes,    *)
(* the full ring and the serial driver that is short of room; what is here *)
(* is that a copy leaves the ring under the lock and is written after it,  *)
(* so that two contexts' commands may change places.  Left out are the     *)
(* flags that are written and never read (ACK_FLAG, reset_flag,            *)
(* led_poll_flag) with the ACK packets, and the answers to MTCP_POLL_LEDS, *)
(* which the driver never sends.                                           *)
(***************************************************************************)
EXTENDS Integers, Sequences

CONSTANTS
  Starts,     \* values of the clock's counter in the initial states
  MaxSet,     \* bound: TUX_SET_LED calls
  MaxCalls,   \* bound: TUX_BUTTONS and TUX_INIT calls
  MaxReset,   \* bound: resets of the controller
  MaxPress    \* bound: button changes

ASSUME DriverAssumption ==
  Starts \subseteq Nat /\ {MaxSet, MaxCalls, MaxReset, MaxPress} \subseteq Nat

VARIABLES
  counter,              \* display_time_on_tux: seconds since the start
  error_flag,
  led_regular_buffer,   \* <<part 0, part 1>>
  button_buffer,        \* <<byte 0, byte 1>>
  upc,       \* next step of the process inside tuxctl_ioctl
  cmds,      \* TUX_INIT: commands still to be put
  a,         \* TUX_BUTTONS: the local copy of button_buffer[0]
  result,    \* the last value TUX_BUTTONS copied to the caller
  hpc,       \* next step of tuxctl_handle_packet
  pkt,       \* the button packet it is storing
  ring,      \* tx_buf: commands put and not yet taken
  putting,   \* contexts inside tuxctl_ldisc_put that have yet to take
  held,      \* per context: the copy that write_wakeup took and will write
  tx, rx,    \* commands the serial driver has, packets on the way back
  dev,       \* external: the controller
  sets, calls, resets, presses,   \* counters for the bounds
  reported,  \* whether the controller sent an event for its last change
  raced,     \* the last LED_SET was sent for a reset, while SET_LED saved
  newest,    \* where the last LED_SET is: "ring", a context's copy or "sent"
  overtaken, \* an older LED_SET was written after it
  asked      \* TUX_INIT was called or the controller was reset

driver == <<error_flag, led_regular_buffer, button_buffer>>
ioctl == <<counter, upc, cmds, a, result>>
handler == <<hpc, pkt>>
ldisc == <<ring, putting, held, tx>>
counters == <<sets, calls, resets, presses>>
order == <<newest, overtaken>>
history == <<reported, raced, asked, order>>
vars == <<driver, ioctl, handler, ldisc, rx, dev, counters, history>>

\* What a button byte holds before the first event.
None == 2

-----------------------------------------------------------------------------
(* The transmit half of the line discipline.  A context is who runs it: an  *)
(* ioctl, the packet handler, or the serial driver that has room again.     *)

Context == {"ioctl", "handler", "wake"}

\* The context has not come back from tuxctl_ldisc_put.
Busy(c) == c \in putting \/ held[c] # << >>

SetsLeds(cmd) == cmd[1] = "LED_SET"

\* tuxctl_ldisc_put: the command goes into the ring, under the lock; then
\* write_wakeup is called.
ldisc_put(c, cmd) ==
  /\ ring' = Append(ring, cmd)
  /\ putting' = putting \cup {c}
  /\ newest' = IF SetsLeds(cmd) THEN "ring" ELSE newest
  /\ overtaken' = IF SetsLeds(cmd) THEN FALSE ELSE overtaken
  /\ UNCHANGED <<held, tx>>

\* write_wakeup, under the lock: the ring's contents are copied.  The serial
\* driver calls it at any time; with an empty ring that does nothing.
Take(c) ==
  /\ c \in putting \/ (c = "wake" /\ ring # << >>)
  /\ held[c] = << >>
  /\ putting' = putting \ {c}
  /\ held' = [held EXCEPT ![c] = ring]
  /\ ring' = << >>
  /\ newest' = IF newest = "ring" THEN c ELSE newest
  /\ UNCHANGED <<driver, ioctl, handler, tx, rx, dev, counters, reported, raced,
                 asked, overtaken>>

\* driver->write, after the unlock: the copy is handed to the serial driver.
Write(c) ==
  /\ held[c] # << >>
  /\ tx' = tx \o held[c]
  /\ held' = [held EXCEPT ![c] = << >>]
  /\ newest' = IF newest = c THEN "sent" ELSE newest
  /\ overtaken' = \/ overtaken
                  \/ newest = "sent" /\ \E n \in DOMAIN held[c] : SetsLeds(held[c][n])
  /\ UNCHANGED <<driver, ioctl, handler, ring, putting, rx, dev, counters,
                 reported, raced, asked>>

tuxctl_ldisc_write_wakeup == \E c \in Context : Take(c) \/ Write(c)

-----------------------------------------------------------------------------
(* The clock's argument of TUX_SET_LED and what the ioctl makes of it *)

\* Minutes and seconds, the LEDs to light and the decimal points, as
\* display_time_on_tux packs them; LED 3 stays dark before the tenth minute.
buf_time(count) ==
  LET minutes == IF count \div 60 > 99 THEN 0 ELSE count \div 60
  IN  [min |-> minutes, sec |-> count % 60,
       LED_ON |-> IF minutes < 10 THEN {0, 1, 2} ELSE {0, 1, 2, 3}, DP_ON |-> {2}]

\* The ten digits of nums[]
nums == <<231, 6, 203, 143, 46, 173, 237, 134, 239, 174>>

\* The bytes for LEDs 0 to 3.  No entry of nums has the bit of the decimal
\* point (16), so that or is plus.
regular_buf(arg) ==
  LET convert == <<arg.sec % 10, arg.sec \div 10, arg.min % 10, arg.min \div 10>>
      Led(i) == (IF i \in arg.LED_ON THEN nums[convert[i + 1] + 1] ELSE 0)
                  + (IF i \in arg.DP_ON THEN 16 ELSE 0)
  IN  << <<Led(0), Led(1)>>, <<Led(2), Led(3)>> >>

Dark == << <<0, 0>>, <<0, 0>> >>

-----------------------------------------------------------------------------
(* tuxctl_ioctl *)

\* The entry of every ioctl: error_flag makes it re-enable button events
\* (and nothing clears error_flag).
Enter(label) ==
  /\ upc = "user"
  /\ upc' = label
  /\ ~Busy("ioctl")
  /\ IF error_flag THEN ldisc_put("ioctl", <<"BIOC_ON">>)
                   ELSE UNCHANGED <<ldisc, order>>
  /\ UNCHANGED <<driver, counter, a, result, handler, rx, dev, resets,
                 presses, reported, raced>>

InitCmds == << <<"BIOC_ON">>, <<"LED_USR">>, <<"CLK_RESET">>, <<"CLK_UP">> >>

InitCall ==
  /\ Enter("init")
  /\ calls < MaxCalls
  /\ calls' = calls + 1
  /\ cmds' = InitCmds
  /\ asked' = TRUE
  /\ UNCHANGED sets

\* The four puts of TUX_INIT.
InitPut ==
  /\ upc = "init" /\ ~Busy("ioctl")
  /\ ldisc_put("ioctl", Head(cmds))
  /\ cmds' = Tail(cmds)
  /\ upc' = IF Len(cmds) = 1 THEN "user" ELSE upc
  /\ UNCHANGED <<driver, counter, a, result, handler, rx, dev, counters, reported,
                 raced, asked>>

ButtonsCall ==
  /\ Enter("readA")
  /\ calls < MaxCalls
  /\ calls' = calls + 1
  /\ UNCHANGED <<cmds, sets, asked>>

\* a = button_buffer[0]
ReadA ==
  /\ upc = "readA" /\ ~Busy("ioctl")
  /\ a' = button_buffer[1]
  /\ upc' = "readB"
  /\ UNCHANGED <<driver, counter, cmds, result, handler, ldisc, rx, dev,
                 counters, history>>

\* b = button_buffer[1] and copy_to_user, which fails for a bad pointer.
ReadB(valid) ==
  /\ upc = "readB"
  /\ result' = IF valid THEN <<a, button_buffer[2]>> ELSE result
  /\ a' = None
  /\ upc' = "user"
  /\ UNCHANGED <<driver, counter, cmds, handler, ldisc, rx, dev, counters,
                 history>>

\* The clock thread wakes up once a second.
SetLedCall ==
  /\ Enter("put")
  /\ sets < MaxSet
  /\ sets' = sets + 1
  /\ UNCHANGED <<cmds, calls, asked>>

Display == regular_buf(buf_time(counter))

\* The command is put first ...
SetLedPut ==
  /\ upc = "put" /\ ~Busy("ioctl")
  /\ ldisc_put("ioctl", <<"LED_SET", Display>>)
  /\ upc' = "save0"
  /\ raced' = FALSE
  /\ UNCHANGED <<driver, counter, cmds, a, result, handler, rx, dev, counters,
                 reported, asked>>

\* ... then saved in led_regular_buffer for tuxctl_handle_packet.
SetLedSave0 ==
  /\ upc = "save0" /\ ~Busy("ioctl")
  /\ led_regular_buffer' = [led_regular_buffer EXCEPT ![1] = Display[1]]
  /\ upc' = "save1"
  /\ UNCHANGED <<error_flag, button_buffer, counter, cmds, a, result, handler,
                 ldisc, rx, dev, counters, history>>

\* Mutant for LedsRestoredUnlessRaced: LEDs 2 and 3 are not saved.
SetLedSave1_skip ==
  /\ upc = "save1"
  /\ counter' = counter + 1
  /\ upc' = "user"
  /\ UNCHANGED <<driver, cmds, a, result, handler, ldisc, rx, dev, counters,
                 history>>

SetLedSave1 ==
  /\ upc = "save1"
  /\ led_regular_buffer' = [led_regular_buffer EXCEPT ![2] = Display[2]]
  /\ counter' = counter + 1
  /\ upc' = "user"
  /\ UNCHANGED <<error_flag, button_buffer, cmds, a, result, handler, ldisc,
                 rx, dev, counters, history>>

tuxctl_ioctl ==
  \/ InitCall \/ InitPut
  \/ ButtonsCall \/ ReadA \/ (\E valid \in BOOLEAN : ReadB(valid))
  \/ SetLedCall \/ SetLedPut \/ SetLedSave0 \/ SetLedSave1

-----------------------------------------------------------------------------
(* tuxctl_handle_packet *)

\* The callback hands over the next packet.
Handed(opcode) ==
  /\ hpc = "idle" /\ ~Busy("handler")
  /\ rx # << >> /\ Head(rx)[1] = opcode
  /\ rx' = Tail(rx)

HandleError ==
  /\ Handed("ERROR")
  /\ error_flag' = TRUE
  /\ UNCHANGED <<led_regular_buffer, button_buffer, ioctl, handler, ldisc, dev,
                 counters, history>>

\* Mutant for BiocEventually: a reset waits until there are LEDs to restore.
HandleReset_waits ==
  /\ Handed("RESET")
  /\ led_regular_buffer # Dark
  /\ ldisc_put("handler", <<"BIOC_ON">>)
  /\ hpc' = "leds"
  /\ UNCHANGED <<driver, ioctl, pkt, dev, counters, reported, raced, asked>>

\* RESET: put BIOC_ON ...
HandleReset ==
  /\ Handed("RESET")
  /\ ldisc_put("handler", <<"BIOC_ON">>)
  /\ hpc' = "leds"
  /\ UNCHANGED <<driver, ioctl, pkt, dev, counters, reported, raced, asked>>

\* ... then the saved LEDs.  Before the first TUX_SET_LED these are six
\* zero bytes, which are no command.
HandleResetLeds ==
  /\ hpc = "leds" /\ ~Busy("handler")
  /\ ldisc_put("handler", IF led_regular_buffer[1] = Dark[1] THEN <<"ZEROS">>
                          ELSE <<"LED_SET", led_regular_buffer>>)
  /\ hpc' = "idle"
  /\ raced' = (upc \in {"save0", "save1"})
  /\ UNCHANGED <<driver, ioctl, pkt, rx, dev, counters, reported, asked>>

\* BIOC_EVENT: the two button bytes are stored one after the other.
HandleButtons0 ==
  /\ Handed("BIOC_EVENT")
  /\ pkt' = Head(rx)
  /\ button_buffer' = [button_buffer EXCEPT ![1] = Head(rx)[2][1]]
  /\ hpc' = "buttons"
  /\ UNCHANGED <<error_flag, led_regular_buffer, ioctl, ldisc, dev, counters,
                 history>>

\* Mutant for ButtonsCurrent: the first button byte is stored twice.
HandleButtons1_twice ==
  /\ hpc = "buttons"
  /\ button_buffer' = [button_buffer EXCEPT ![2] = pkt[2][1]]
  /\ pkt' = << >>
  /\ hpc' = "idle"
  /\ UNCHANGED <<error_flag, led_regular_buffer, ioctl, ldisc, rx, dev, counters,
                 history>>

HandleButtons1 ==
  /\ hpc = "buttons"
  /\ button_buffer' = [button_buffer EXCEPT ![2] = pkt[2][2]]
  /\ pkt' = << >>
  /\ hpc' = "idle"
  /\ UNCHANGED <<error_flag, led_regular_buffer, ioctl, ldisc, rx, dev, counters,
                 history>>

tuxctl_handle_packet ==
  \/ HandleError
  \/ HandleReset \/ HandleResetLeds
  \/ HandleButtons0 \/ HandleButtons1

-----------------------------------------------------------------------------
(* The controller, from the protocol in mtcp.h.  Its LEDs show what LED_SET *)
(* stored (dev.leds) in user mode (dev.usr) and a clock in clock mode; the  *)
(* mode it starts in, and resets to (dev.usr0), mtcp.h does not say.        *)

\* External: it carries out a command.  What is no command is answered with
\* ERROR or, in debug-lockup mode, ends the controller's work until a reset.
DevCommand ==
  /\ tx # << >>
  /\ tx' = Tail(tx)
  /\ LET c == Head(tx)
     IN  /\ dev' = IF dev.dead THEN dev
                   ELSE [dev EXCEPT !.bioc = @ \/ c[1] = "BIOC_ON",
                                    !.usr = @ \/ c[1] = "LED_USR",
                                    !.leds = IF SetsLeds(c) THEN c[2] ELSE @,
                                    !.dead = c[1] = "ZEROS" /\ dev.lockup]
         /\ rx' = IF c[1] = "ZEROS" /\ ~dev.dead /\ ~dev.lockup
                  THEN Append(rx, <<"ERROR">>) ELSE rx
  /\ UNCHANGED <<driver, ioctl, handler, ring, putting, held, counters, history>>

\* External: it re-initialises itself (its RESET button).
DevReset ==
  /\ resets < MaxReset
  /\ resets' = resets + 1
  /\ dev' = [dev EXCEPT !.bioc = FALSE, !.usr = dev.usr0, !.leds = Dark,
                          !.dead = FALSE]
  /\ rx' = Append(rx, <<"RESET">>)
  /\ asked' = TRUE
  /\ UNCHANGED <<driver, ioctl, handler, ldisc, sets, calls, presses, reported,
                 raced, order>>

\* External: a button of half h is pressed or released; the driver learns
\* of it only while button interrupt-on-change is enabled.
DevPress(h) ==
  /\ presses < MaxPress
  /\ presses' = presses + 1
  /\ dev' = [dev EXCEPT !.buttons[h] = 1 - @]
  /\ reported' = (dev.bioc /\ ~dev.dead)
  /\ rx' = IF reported' THEN Append(rx, <<"BIOC_EVENT", dev'.buttons>>) ELSE rx
  /\ UNCHANGED <<driver, ioctl, handler, ldisc, sets, calls, resets, raced, asked,
                 order>>

-----------------------------------------------------------------------------
\* The clock has been running undisturbed for a while.  TUX_INIT was not
\* called: the game does not, only the test program in input.c.
Init ==
  /\ counter \in Starts
  /\ error_flag = FALSE
  /\ led_regular_buffer = IF counter = 0 THEN Dark ELSE regular_buf(buf_time(counter - 1))
  /\ button_buffer = <<None, None>>
  /\ upc = "user" /\ cmds = << >> /\ a = None
  /\ result = <<None, None>>
  /\ hpc = "idle" /\ pkt = << >>
  /\ ring = << >> /\ putting = {} /\ held = [c \in Context |-> << >>]
  /\ tx = << >> /\ rx = << >>
  /\ \E lockup, usr \in BOOLEAN :
       dev = [bioc |-> FALSE, usr |-> usr, usr0 |-> usr, leds |-> led_regular_buffer,
              buttons |-> <<1, 1>>, lockup |-> lockup, dead |-> FALSE]
  /\ sets = 0 /\ calls = 0 /\ resets = 0 /\ presses = 0
  /\ reported = FALSE /\ raced = FALSE /\ asked = FALSE
  /\ newest = "sent" /\ overtaken = FALSE

Next ==
  \/ tuxctl_ioctl
  \/ tuxctl_handle_packet
  \/ tuxctl_ldisc_write_wakeup
  \/ DevCommand \/ DevReset \/ (\E h \in 1 .. 2 : DevPress(h))

Spec == Init /\ [][Next]_vars

\* The interrupt handler runs, the controller answers and a call that has
\* been made goes on; nobody has to call, press or reset, and the serial
\* driver need not call write_wakeup.
Fairness == /\ WF_vars(tuxctl_handle_packet)
            /\ WF_vars(DevCommand)
            /\ \A c \in {"ioctl", "handler"} : WF_vars(Take(c))
            /\ \A c \in Context : WF_vars(Write(c))
            /\ WF_vars(InitPut \/ ReadA \/ (\E valid \in BOOLEAN : ReadB(valid))
                         \/ SetLedPut \/ SetLedSave0 \/ SetLedSave1)

FairSpec == Spec /\ Fairness

-----------------------------------------------------------------------------
(* Properties. *)

\* The segments that show a digit, and the bit of each segment, from mtcp.h.
Digit(d) ==
  << {"A", "B", "C", "D", "E", "F"}, {"B", "C"}, {"A", "B", "D", "E", "G"},
     {"A", "B", "C", "D", "G"}, {"B", "C", "F", "G"}, {"A", "C", "D", "F", "G"},
     {"A", "C", "D", "E", "F", "G"}, {"A", "B", "C"},
     {"A", "B", "C", "D", "E", "F", "G"}, {"A", "B", "C", "F", "G"} >>[d + 1]
Bit == [A |-> 128, E |-> 64, F |-> 32, dp |-> 16, G |-> 8, C |-> 4, B |-> 2, D |-> 1]

\* The segments that are lit for a byte.
Lit(byte) == { s \in DOMAIN Bit : (byte \div Bit[s]) % 2 = 1 }

\* Four LEDs that read as that time, least significant digit first: the
\* decimal point separates minutes and seconds, and there is no leading zero
\* (from 100 minutes on, the minutes stay 0).
Reads(leds, time) ==
  LET min == IF time >= 6000 THEN 0 ELSE time \div 60
      sec == time % 60
  IN  /\ Lit(leds[1][1]) = Digit(sec % 10)
      /\ Lit(leds[1][2]) = Digit(sec \div 10)
      /\ Lit(leds[2][1]) = Digit(min % 10) \cup {"dp"}
      /\ Lit(leds[2][2]) = IF min < 10 THEN {} ELSE Digit(min \div 10)

\* Nobody is inside the driver and nothing is on the way.
Quiet == /\ upc = "user" /\ hpc = "idle"
         /\ ring = << >> /\ (\A c \in Context : ~Busy(c)) /\ tx = << >> /\ rx = << >>

\* The driver's button state is the controller's, once its packets are
\* handled, provided the controller reported the last change.
ButtonsCurrent == Quiet /\ reported => button_buffer = dev.buttons

\* A controller in user mode shows the time of the last call, however often
\* it is reset, whoever wrote the commands of the ioctl and the handler, with
\* two exceptions: the last reset was handled while that time was being saved
\* in led_regular_buffer, or the last LED_SET was overtaken, between the
\* unlock and driver->write, by an older one.  (A locked up controller shows
\* nothing, and the serial driver has room for what is written.)
LedsRestoredUnlessRaced ==
  Quiet /\ counter > 0 /\ ~raced /\ ~overtaken /\ dev.usr /\ ~dev.dead
    => Reads(dev.leds, counter - 1)

\* A controller that lost its settings in a reset, and one for which TUX_INIT
\* was called, gets its button events enabled, whatever the ioctls are doing,
\* unless the zero bytes of an early reset lock it up.
BiocEventually == asked /\ ~dev.bioc ~> dev.bioc \/ dev.dead
=============================================================================
