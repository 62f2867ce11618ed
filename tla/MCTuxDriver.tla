---------------------------- MODULE MCTuxDriver -----------------------------
(* TuxDriver for TLC, and its conversion of the time checked for every input. *)
EXTENDS TuxDriver

\* Every time of the first 101 minutes is shown so that it can be read.
ASSUME EveryTimeReads ==
  \A time \in 0 .. 6059 : Reads(regular_buf(buf_time(time)), time)

\* Either the clock makes its calls, with three of these and of button changes
\* together, or a program that starts no clock makes one of the others, with
\* one button change.
OneCaller == IF calls = 0 THEN sets + presses <= 3
             ELSE sets = 0 /\ counter = 0 /\ presses <= 1

OneCallerSpec == Init /\ [][Next /\ OneCaller']_vars /\ Fairness
=============================================================================
