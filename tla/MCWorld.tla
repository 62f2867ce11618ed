------------------------------ MODULE MCWorld -------------------------------
(* World with three players. *)
EXTENDS World

\* Takes only what the quests need and drops only Tux: can win.
Winner ==
  [words |-> {"Icard", "bunnysuit", "gps", "spec", "key", "car", "battery",
              "robot", "mimo", "fish", "tux", "mp2", "book", "yogurt",
              "allerton", "willard", "campus"},
   drops |-> {"tux"}, dropRooms |-> {"IN_391LAB"}, peekRooms |-> {}]

\* The car quest and the two accelerators, with things dropped by the MRI,
\* behind the robot's door, also from the inventory view.
Dropper ==
  [words |-> {"key", "car", "battery", "robot", "Icard", "jetpack", "board", "dew"},
   drops |-> {"battery", "robot", "jetpack", "board"},
   dropRooms |-> {"BECK_MRI"}, peekRooms |-> {"BECK_MRI"}]

\* Takes the books and the GPS parts, and drops each behind the car's door or
\* in the library.
Reader ==
  [words |-> {"key", "car", "battery", "gps", "spec", "Icard", "book", "yogurt",
              "allerton", "mimo"},
   drops |-> {"book", "gps", "mimo"},
   dropRooms |-> {"RESERVE", "STATUE"}, peekRooms |-> {"STATUE"}]

MCPlayers == {Winner, Dropper, Reader}
=============================================================================
