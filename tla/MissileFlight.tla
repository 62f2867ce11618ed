--------------------------- MODULE MissileFlight ----------------------------
(***************************************************************************)
(* The geometry of Missile Command, mp1, with the source's own numbers:    *)
(* the crosshairs, kept twice (by update_crosshairs of missile-command.c   *)
(* and by MOVEXHAIRS of mp1.S), the velocity make_missile computes in      *)
(* 16.16 fixed point, and the flight of one missile through                *)
(* update_missiles until it explodes.                                      *)
(*                                                                         *)
(* TLC computes with 32-bit integers and stops at an overflow, so a        *)
(* completed run also shows that none of this arithmetic overflows an int. *)
(* Flights do not depend on each other: one missile is followed at a time. *)
(***************************************************************************)
EXTENDS Integers

CONSTANTS
  Columns,   \* bound: columns enemies start from
  Speeds     \* bound: speeds of enemies

ASSUME FlightAssumption == Columns \subseteq 0 .. 79 /\ Speeds \subseteq 10 .. 14

VARIABLES
  chx, chy,                      \* the process's crosshairs
  crosshairs_x, crosshairs_y,    \* the kernel's
  phase,     \* "aim", "fly", "exploded", "removed" or "trap"
  flying     \* the missile

processXhairs == <<chx, chy>>
kernelXhairs == <<crosshairs_x, crosshairs_y>>
flightVars == <<processXhairs, kernelXhairs, phase, flying>>

One == 2^16          \* 1 in 16.16 fixed point
Half == 2^15
Width == 80
Height == 25

-----------------------------------------------------------------------------
(* update_crosshairs and MOVEXHAIRS *)

Clamp(v, top) == IF v > top THEN top ELSE IF v < 0 THEN 0 ELSE v

\* The argument of the ioctl: two 16-bit halves.
Packed(dx, dy) == [low |-> dx % One, high |-> dy % One]

\* Mutant for CrosshairsAgree: the half is extended with zeros.
Signed_zeros(h) == h

\* A 16-bit half as the signed number addw and cmpw take it for.
Signed(h) == IF h >= Half THEN h - One ELSE h

\* MOVEXHAIRS moves both coordinates and then limits the first that is out
\* of range, x before y.
Limited(x, y) ==
  IF x \notin 0 .. Width - 1 THEN <<Clamp(x, Width - 1), y>>
                             ELSE <<x, Clamp(y, Height - 1)>>

MOVEXHAIRS(d) ==
  LET new == Limited(crosshairs_x + Signed(d.low), crosshairs_y + Signed(d.high))
  IN  crosshairs_x' = new[1] /\ crosshairs_y' = new[2]

\* LEFT, RIGHT, UP and DOWN
Moves == { <<-1, 0>>, <<1, 0>>, <<0, -1>>, <<0, 1>> }

update_crosshairs(d) ==
  /\ phase = "aim"
  /\ chx' = Clamp(chx + d[1], Width - 1)
  /\ chy' = Clamp(chy + d[2], Height - 1)
  /\ MOVEXHAIRS(Packed(d[1], d[2]))
  /\ UNCHANGED <<phase, flying>>

-----------------------------------------------------------------------------
(* make_missile *)

Abs(a) == IF a < 0 THEN -a ELSE a

\* C's division rounds towards zero, and so does the conversion to int of
\* the square root.
Quotient(a, b) == IF a < 0 THEN -((-a) \div b) ELSE a \div b

\* sqrt((vx*vx + vy*vy) << 16) as an int, searched between its bounds.
Magnitude(vx, vy) ==
  LET n == (vx * vx + vy * vy) * One
      larger == IF Abs(vx) > Abs(vy) THEN Abs(vx) ELSE Abs(vy)
  IN  CHOOSE r \in 256 * larger .. 256 * (Abs(vx) + Abs(vy)) :
        r * r <= n /\ n < (r + 1) * (r + 1)

Centre(a) == a * One + Half

\* Mutant for Explodes: the velocity is shifted after the division.
NewMissile_shiftLate(sx, sy, dx, dy, vel) ==
  LET mag == Magnitude(dx - sx, dy - sy)
  IN  [x |-> Centre(sx), y |-> Centre(sy), dest_x |-> dx, dest_y |-> dy,
       vx |-> Quotient((dx - sx) * vel, mag) * One,
       vy |-> Quotient((dy - sy) * vel, mag) * One]

\* Mutant for OnScreen: the difference is taken the wrong way round.
NewMissile_backwards(sx, sy, dx, dy, vel) ==
  LET mag == Magnitude(dx - sx, dy - sy)
  IN  [x |-> Centre(sx), y |-> Centre(sy), dest_x |-> dx, dest_y |-> dy,
       vx |-> Quotient((sx - dx) * One * vel, mag),
       vy |-> Quotient((sy - dy) * One * vel, mag)]

NewMissile(sx, sy, dx, dy, vel) ==
  LET mag == Magnitude(dx - sx, dy - sy)
  IN  [x |-> Centre(sx), y |-> Centre(sy), dest_x |-> dx, dest_y |-> dy,
       vx |-> Quotient((dx - sx) * One * vel, mag),
       vy |-> Quotient((dy - sy) * One * vel, mag)]

NoMissile == [x |-> 0, y |-> 0, dest_x |-> 0, dest_y |-> 0, vx |-> 0, vy |-> 0]

\* With the destination at the start, mag is 0 and the division traps.
make_missile(sx, sy, dx, dy, vel) ==
  /\ IF <<sx, sy>> = <<dx, dy>>
     THEN phase' = "trap" /\ UNCHANGED flying
     ELSE phase' = "fly" /\ flying' = NewMissile(sx, sy, dx, dy, vel)
  /\ UNCHANGED <<processXhairs, kernelXhairs>>

\* FIRE: from the lower right corner to the crosshairs.
FireShot == phase = "aim" /\ make_missile(79, 24, chx, chy, 200)

\* The main loop launches an enemy at one of the bases.  No step of a flight
\* reads the crosshairs, so one position of them is enough (a bound).
LaunchEnemy(column, target, vel) ==
  /\ phase = "aim" /\ processXhairs = <<40, 12>>
  /\ make_missile(column, 0, 20 * (target + 1), 24, vel)

-----------------------------------------------------------------------------
(* update_missiles, for a missile that has not exploded *)

Col == flying.x \div One
Row == flying.y \div One

\* The test for missiles off the screen, on the unshifted coordinates.
OffScreen == flying.x < 79 \/ flying.x < 0 \/ flying.y < 24 \/ flying.y < 0

Arrived == Col = flying.dest_x /\ Row = flying.dest_y

Fly ==
  /\ phase = "fly"
  /\ CASE OffScreen -> phase' = "removed" /\ UNCHANGED flying
       [] ~OffScreen /\ Arrived -> phase' = "exploded" /\ UNCHANGED flying
       [] OTHER -> /\ flying' = [flying EXCEPT !.x = @ + flying.vx, !.y = @ + flying.vy]
                   /\ UNCHANGED phase
  /\ UNCHANGED <<processXhairs, kernelXhairs>>

\* The explosion is over; the next missile can be looked at.
ExplosionOver ==
  /\ phase \in {"exploded", "removed"}
  /\ phase' = "aim" /\ flying' = NoMissile
  /\ UNCHANGED <<processXhairs, kernelXhairs>>

FlightInit ==
  /\ chx = 40 /\ chy = 12
  /\ crosshairs_x = 40 /\ crosshairs_y = 12
  /\ phase = "aim" /\ flying = NoMissile

FlightNext ==
  \/ \E d \in Moves : update_crosshairs(d)
  \/ FireShot
  \/ \E column \in Columns, target \in 0 .. 2, vel \in Speeds :
       LaunchEnemy(column, target, vel)
  \/ Fly \/ ExplosionOver

FlightSpec == FlightInit /\ [][FlightNext]_flightVars

\* The clock ticks.
FairFlightSpec == FlightSpec /\ WF_flightVars(Fly)

-----------------------------------------------------------------------------
(* Properties. *)

\* Every variable has its type: both crosshairs are on the screen, and a
\* missile moves by less than a cell in a tick.
FlightTypeOK ==
  /\ {chx, crosshairs_x} \subseteq 0 .. Width - 1
  /\ {chy, crosshairs_y} \subseteq 0 .. Height - 1
  /\ phase \in {"aim", "fly", "exploded", "removed", "trap"}
  /\ {Abs(flying.vx), Abs(flying.vy)} \subseteq 0 .. One - 1
  /\ {flying.x, flying.y} \subseteq Int

\* The process fires at its own crosshairs, the player sees the kernel's:
\* they agree after any sequence of moves, at the edges too.
CrosshairsAgree == processXhairs = kernelXhairs

\* mp1_poke writes inside the text screen: a missile is on it at every tick,
\* although the code's own test only catches negative coordinates.  (Checked
\* together with the types.)
OnScreen ==
  FlightTypeOK /\ (phase = "fly" => Col \in 0 .. Width - 1 /\ Row \in 0 .. Height - 1)

\* Rounding of the velocity never makes a missile fly past the cell it is
\* aimed at: every missile explodes there.
Explodes == phase = "fly" ~> phase = "exploded"
=============================================================================
