------------------------------- MODULE Input --------------------------------
(***************************************************************************)
(* The player's input in mp2/input.c: the terminal's bytes, the finite     *)
(* state machine of get_command that tells arrow keys from typing, the     *)
(* text typed so far, and the buttons of the Tux controller.  The game     *)
(* loop that calls get_command is in Session.                              *)
(*                                                                         *)
(* A byte is written as the character it stands for, or "ESC", "BS" (8 and *)
(* 127), "CR" (10 and 13) and "BQ" (the backquote, which quits).  A key    *)
(* that types a character is that character; of the capital letters only A *)
(* occurs, because an arrow key ends in it.  Keys other than these and the *)
(* ones in Special (the keys the game uses) are left out.                  *)
(***************************************************************************)
EXTENDS Integers, Sequences, SequencesExt

CONSTANTS
  MaxTyped,   \* MAX_TYPED_LEN
  MaxBurst,   \* bound: bytes that arrive between two calls of get_command
  Players     \* bound: the keys and buttons pressed, as sequences of choices
              \* (fields keys and buttons; see Session for the others)

ASSUME InputAssumption == MaxTyped \in Nat /\ MaxBurst \in Nat

VARIABLES
  player,        \* who plays; never changes
  keysDone, buttonsDone,   \* how far the player is
  line,          \* bytes of a key that the terminal is still delivering
  stdin,         \* bytes delivered and not yet read
  state,         \* get_command's static state
  typing,        \* the text typed so far
  pushedbutton,  \* the buttons at the last call
  buttons,       \* what TUX_BUTTONS reports
  cmd,           \* what get_command returned last
  meant          \* history: text and command as a reader of keys sees them

input == <<player, keysDone, buttonsDone, line, stdin, state, typing,
           pushedbutton, buttons, cmd, meant>>

-----------------------------------------------------------------------------
(* External: the keyboard and the controller. *)

\* What the terminal sends for the keys that type nothing.
Special ==
  [UP |-> <<"ESC", "[", "A">>, DOWN |-> <<"ESC", "[", "B">>,
   RIGHT |-> <<"ESC", "[", "C">>, LEFT |-> <<"ESC", "[", "D">>,
   INSERT |-> <<"ESC", "[", "2", "~">>, HOME |-> <<"ESC", "[", "1", "~">>,
   PGUP |-> <<"ESC", "[", "5", "~">>,
   ENTER |-> <<"CR">>, BACKSPACE |-> <<"BS">>, QUIT |-> <<"BQ">>]

BytesOf(key) == IF key \in DOMAIN Special THEN Special[key] ELSE <<key>>

\* A key is pressed: the terminal starts to send its bytes.  Each byte is
\* marked with its key and place, which the code does not see.
Press ==
  /\ line = << >>
  /\ keysDone < Len(player.keys)
  /\ keysDone' = keysDone + 1
  /\ \E key \in player.keys[keysDone'] :
       line' = [i \in 1 .. Len(BytesOf(key)) |->
                  [byte |-> BytesOf(key)[i], key |-> key, at |-> i]]
  /\ UNCHANGED <<player, buttonsDone, stdin, state, typing, pushedbutton,
                 buttons, cmd, meant>>

\* One byte arrives: the game may read between any two bytes of a key.
Deliver ==
  /\ line # << >> /\ Len(stdin) < MaxBurst
  /\ stdin' = Append(stdin, Head(line))
  /\ line' = Tail(line)
  /\ UNCHANGED <<player, keysDone, buttonsDone, state, typing, pushedbutton,
                 buttons, cmd, meant>>

\* The buttons held change ("none" and "several" included).
PushButtons ==
  /\ buttonsDone < Len(player.buttons)
  /\ buttonsDone' = buttonsDone + 1
  /\ buttons' \in player.buttons[buttonsDone']
  /\ UNCHANGED <<player, keysDone, line, stdin, state, typing, pushedbutton,
                 cmd, meant>>

-----------------------------------------------------------------------------
(* get_command *)

valid_typing(c) == c \notin {"ESC", "[", "~", "CR", "BQ"}

\* The players use the keys that the game knows and those that type a character.
ASSUME PlayersAssumption ==
  \A p \in Players :
    /\ Len(p.keys) \in Nat
    /\ \A i \in 1 .. Len(p.keys) : \A key \in p.keys[i] :
         key \in DOMAIN Special \/ (valid_typing(key) /\ key # "BS")

typed_a_char(text, c) ==
  IF c = "BS" THEN IF text = << >> THEN text ELSE Front(text)
  ELSE IF Len(text) < MaxTyped THEN Append(text, c) ELSE text

\* A byte that neither starts nor continues an escape sequence.
PlainByte(r, c) ==
  IF valid_typing(c)
  THEN [r EXCEPT !.state = 0, !.typing = typed_a_char(@, c)]
  ELSE [r EXCEPT !.state = 0, !.pushed = IF c = "CR" THEN "TYPED" ELSE @]

Arrow == [A |-> "UP", B |-> "DOWN", C |-> "RIGHT", D |-> "LEFT"]
Paging(c) == CASE c = "2" -> "MOVE_LEFT" [] c = "1" -> "ENTER" [] c = "5" -> "MOVE_RIGHT"

\* One pass of get_command's loop.  After a backquote the rest stays unread.
ReadByte(r, x) ==
  LET c == x.byte
  IN  IF r.pushed = "QUIT" THEN [r EXCEPT !.unread = Append(@, x)]
      ELSE CASE c = "BQ"                           -> [r EXCEPT !.pushed = "QUIT"]
             [] r.state = 0 /\ c = "ESC"             -> [r EXCEPT !.state = 1]
             [] r.state = 1 /\ c = "["               -> [r EXCEPT !.state = 2]
             [] r.state = 2 /\ c \in DOMAIN Arrow    -> [r EXCEPT !.state = 0, !.pushed = Arrow[c]]
             [] r.state = 2 /\ c \in {"1", "2", "5"} -> [r EXCEPT !.state = 3, !.pushed = Paging(c)]
             [] OTHER                                -> PlainByte(r, c)

Held == [up |-> "UP", right |-> "RIGHT", down |-> "DOWN", left |-> "LEFT"]
Once == [A |-> "MOVE_LEFT", B |-> "ENTER", C |-> "MOVE_RIGHT", START |-> "QUIT"]

\* Directions repeat while they are held, the others act when the buttons
\* change; either takes the place of what the keyboard said.
get_tux_command(pushed) ==
  CASE buttons \in DOMAIN Held -> Held[buttons]
    [] buttons \in DOMAIN Once /\ buttons # pushedbutton -> Once[buttons]
    [] OTHER -> pushed

-----------------------------------------------------------------------------
(* The same input read key by key. *)

KeyCommand ==
  [UP |-> "UP", DOWN |-> "DOWN", RIGHT |-> "RIGHT", LEFT |-> "LEFT",
   INSERT |-> "MOVE_LEFT", HOME |-> "ENTER", PGUP |-> "MOVE_RIGHT",
   ENTER |-> "TYPED", QUIT |-> "QUIT"]

\* The byte by which a key has said what it is.
Decisive(key) == IF Len(BytesOf(key)) = 1 THEN 1 ELSE 3

\* A key types its character, deletes one, or gives its command, once.
ReadKey(m, x) ==
  IF m.cmd = "QUIT" \/ x.at # Decisive(x.key) THEN m
  ELSE CASE x.key \in DOMAIN KeyCommand -> [m EXCEPT !.cmd = KeyCommand[x.key]]
         [] x.key = "BACKSPACE" -> [m EXCEPT !.text = SubSeq(@, 1, Len(@) - 1)]
         [] OTHER -> [m EXCEPT !.text = IF Len(@) = MaxTyped THEN @ ELSE @ \o <<x.key>>]

-----------------------------------------------------------------------------
\* All the bytes in turn, and the same for keys.
ReadAll(start, bytes) ==
  LET read[i \in 0 .. Len(bytes)] ==
        IF i = 0 THEN start ELSE LET before == read[i - 1] IN ReadByte(before, bytes[i])
  IN  read[Len(bytes)]

KeysRead(start, bytes) ==
  LET read[i \in 0 .. Len(bytes)] ==
        IF i = 0 THEN start ELSE LET before == read[i - 1] IN ReadKey(before, bytes[i])
  IN  read[Len(bytes)]

\* Mutant for ReadAsMeant: the machine's state is not static.
Entry_forgets ==
  [state |-> 0, typing |-> typing, pushed |-> "NONE", unread |-> << >>]

\* What get_command starts from.
Entry ==
  [state |-> state, typing |-> typing, pushed |-> "NONE", unread |-> << >>]

\* All characters are read, then the controller is asked, unless a backquote
\* was among them.
get_command ==
  LET r == ReadAll(Entry, stdin)
      m == KeysRead([meant EXCEPT !.cmd = "NONE"], stdin)
      quit == r.pushed = "QUIT"
  IN  /\ state' = r.state /\ typing' = r.typing /\ stdin' = r.unread
      /\ cmd' = IF quit THEN "QUIT" ELSE get_tux_command(r.pushed)
      /\ pushedbutton' = IF quit THEN pushedbutton ELSE buttons
      /\ meant' = IF m.cmd = "QUIT" THEN m ELSE [m EXCEPT !.cmd = get_tux_command(@)]
      /\ UNCHANGED <<player, keysDone, buttonsDone, line, buttons>>

reset_typed_command ==
  /\ typing' = << >>
  /\ meant' = [meant EXCEPT !.text = << >>]
  /\ UNCHANGED <<player, keysDone, buttonsDone, line, stdin, state,
                 pushedbutton, buttons, cmd>>

InputInit ==
  /\ player \in Players
  /\ keysDone = 0 /\ buttonsDone = 0
  /\ line = << >> /\ stdin = << >>
  /\ state = 0 /\ typing = << >>
  /\ pushedbutton = "zero" /\ buttons = "zero"
  /\ cmd = "NONE" /\ meant = [text |-> << >>, cmd |-> "NONE"]

-----------------------------------------------------------------------------
\* However the bytes of the keys are spread over the calls of get_command,
\* the text and the command are what the keys meant: an arrow key that is cut
\* in two types nothing and is not lost, and no key counts twice.
ReadAsMeant == typing = meant.text /\ cmd = meant.cmd
=============================================================================
