----------------------------- MODULE MCMissile ------------------------------
(* MissileGame and MissileFlight for TLC: the flights go to every target from
   every start, at the lowest and the highest speed of enemies.

   The list and the geometry have no variable in common and no property is
   about both, so that it is enough to follow each of them while the other
   one rests as at the start. *)
EXTENDS MissileGame, MissileFlight

AllColumns == 0 .. 79
SlowAndFast == {10, 14}

ListRests == pc = "loop" /\ enemies = 0 /\ shots = 0
FlightRests == phase = "aim" /\ processXhairs = <<40, 12>>

ListMoves == FlightRests /\ Next /\ UNCHANGED flightVars
FlightMoves == ListRests /\ FlightNext /\ UNCHANGED vars

\* The missile that was followed is gone.
FlightOver == phase \in {"removed", "trap"} /\ UNCHANGED <<vars, flightVars>>

MissileInit == Init /\ FlightInit

MissileSpec ==
  /\ MissileInit
  /\ [][ListMoves \/ FlightMoves \/ FlightOver]_<<vars, flightVars>>
  /\ Fairness /\ WF_flightVars(Fly)
=============================================================================
