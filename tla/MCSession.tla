----------------------------- MODULE MCSession ------------------------------
(* Session with four kinds of players. *)
EXTENDS Session

Nothing == [keys |-> << >>, buttons |-> << >>, signals |-> 0, faults |-> FALSE]

\* Three keys of every kind, spread over the ticks in every way.
AnyKey == {"A", "2", "UP", "RIGHT", "INSERT", "PGUP", "ENTER", "BACKSPACE", "QUIT"}
Fumblers == {[Nothing EXCEPT !.keys = <<AnyKey, AnyKey, AnyKey>>]}

\* Every verb, abbreviated in every way, perhaps with spaces around it; and
\* more characters than fit.
Word(i, n) == [k \in 1 .. n |-> {cmd_list[i][1][k]}]
Typists ==
  { [Nothing EXCEPT !.keys = Word(w[1], w[2]) \o <<{"ENTER"}>>] :
      w \in { w \in (DOMAIN cmd_list) \X (1 .. MaxTyped) : w[2] <= Len(cmd_list[w[1]][1]) } }
  \cup {[Nothing EXCEPT !.keys = <<{" "}>> \o Word(9, 2) \o <<{" "}, {"x"}, {"ENTER"}>>],
        [Nothing EXCEPT !.keys = Word(12, 9) \o <<{"x"}, {"x", "BACKSPACE"}, {"BACKSPACE"}, {"ENTER"}>>]}

\* Buttons held, pressed again, and pressed together with keys.
Drivers ==
  LET press == {"up", "B", "START", "several", "none"}
  IN  {[Nothing EXCEPT !.keys = <<{"A"}, {"ENTER", "LEFT"}>>,
                       !.buttons = <<press, press, press>>]}

\* Things go wrong: initialisations fail, and signals arrive at any step.
Unlucky == {[Nothing EXCEPT !.keys = <<{"QUIT"}>>, !.signals = 3, !.faults = TRUE]}

\* The layout of the status bar, for all lengths of its texts.
Bar == INSTANCE Text
ASSUME StatusBar == Bar!BarFits /\ Bar!BarReads /\ Bar!BarShows

MCPlayers == Fumblers \cup Typists \cup Drivers \cup Unlucky
=============================================================================
