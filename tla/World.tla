------------------------------- MODULE World --------------------------------
(***************************************************************************)
(* The game world of mp2: rooms, objects, accomplishment flags and the     *)
(* player's commands of world.c, with what handle_typing and game_loop of  *)
(* adventure.c do after each command (speeds, redrawing, the end of the    *)
(* game).  Everything here happens in the main thread.                     *)
(*                                                                         *)
(* Rooms and objects keep the names of their enumerations, without R_ and  *)
(* O_.  A command that the code refuses only shows a status message (see   *)
(* StatusMsg) and leaves the world alone, so it is a stuttering step.      *)
(* Left out, because only the drawing depends on them: object positions,   *)
(* the random choice between the two photos of the bridge (CIRCLE_N), and  *)
(* the spelling of verbs.                                                  *)
(*                                                                         *)
(* The list of a room's contents is the set of objects located there.  Its *)
(* order matters only between objects with one name, of which only the two *)
(* books can meet (property Unambiguous): newBook is the one in front.     *)
(***************************************************************************)
EXTENDS FiniteSets

\* Bound: the players.  A player types the arguments words, drops the things
\* named drops, only in dropRooms, and looks at the inventory in peekRooms.
CONSTANT Players

NONE == "NONE"     \* R_NONE, and a NULL location: limbo
WON == "WON"       \* game_info.where = NULL

\* room_data: the rooms to the left, reached by enter, and to the right.
room_data ==
  [INVENTORY |-> <<NONE, NONE, NONE>>,
   IN_391LAB |-> <<NONE, "BY_391LAB", NONE>>,
   BY_391LAB |-> <<"BY_ZAS", "IN_391LAB", "BY_IEEE">>,
   IN_IEEE   |-> <<NONE, "BY_IEEE", NONE>>,
   BY_IEEE   |-> <<"BY_391LAB", "IN_IEEE", "BY_395LAB">>,
   IN_395LAB |-> <<NONE, "BY_395LAB", NONE>>,
   BY_395LAB |-> <<"BY_IEEE", NONE, "EVT_STAIR">>,
   EVT_STAIR |-> <<"BY_395LAB", "EAST_EVRT", "BY_CLEANR">>,
   IN_CLEANR |-> <<NONE, "BY_CLEANR", NONE>>,
   BY_CLEANR |-> <<"EVT_STAIR", NONE, "EVRT_VEND">>,
   EVRT_VEND |-> <<"BY_CLEANR", "EVRT_BSMT", NONE>>,
   ALMAMATER |-> <<"EAST_EVRT", "EAST_EVRT", "BY_COCOMR">>,
   IN_COCOMR |-> <<NONE, "BY_COCOMR", NONE>>,
   BY_COCOMR |-> <<"ALMAMATER", "IN_COCOMR", "BY_ZAS">>,
   BY_ZAS    |-> <<"BY_COCOMR", NONE, NONE>>,
   EAST_EVRT |-> <<"ALMAMATER", "EVT_STAIR", "EVRT_BSMT">>,
   EVRT_BSMT |-> <<"EAST_EVRT", "EVRT_VEND", "CIRCLE_SW">>,
   WEST_BONE |-> <<"CIRCLE_SW", NONE, "CIRCLE_N">>,
   CIRCLE_N  |-> <<"WEST_BONE", "TALBOT_NW", "EAST_BONE">>,
   CIRCLE_SW |-> <<"EAST_BONE", "EVRT_BSMT", "CIRCLE_N">>,
   EAST_BONE |-> <<"CIRCLE_N", NONE, "CIRCLE_SW">>,
   BARDEEN   |-> <<"LIB_BACK", "EAST_BONE", "TALBOT_SW">>,
   LIB_BACK  |-> <<"DCL", "RESERVE", "BARDEEN">>,
   RESERVE   |-> <<NONE, "LIB_BACK", "LIB_FRONT">>,
   TALBOT_NW |-> <<"CIRCLE_SW", "TALBOT", "TALBOT_SW">>,
   TALBOT_SW |-> <<"TALBOT_NW", "TALBOT", "SPRINGFLD">>,
   TALBOT    |-> <<NONE, "TALBOT_NW", NONE>>,
   SPRINGFLD |-> <<"TALBOT_SW", "CARIBOU", "KENNEY">>,
   CARIBOU   |-> <<NONE, "SPRINGFLD", NONE>>,
   KENNEY    |-> <<"SPRINGFLD", NONE, "DCL">>,
   DCL       |-> <<"KENNEY", "KENNEY_E", "LIB_FRONT">>,
   LIB_FRONT |-> <<"DCL", "RESERVE", "TALBOT_SW">>,
   KENNEY_E  |-> <<"DCL", "DCL", "NEWMARK">>,
   NEWMARK   |-> <<"MNTL_NW", NONE, "KENNEY_E">>,
   MNTL_NW   |-> <<"NEWMARK", "MNTLLOBBY", "CSL_VIEW">>,
   MNTL_SW   |-> <<"MNTL_NW", "MNTLLOBBY", "BECKMAN">>,
   MNTLLOBBY |-> <<"MNTL_LAB1", "MNTL_SW", "MNTL_LAB2">>,
   MNTL_LAB1 |-> <<NONE, NONE, "MNTLLOBBY">>,
   MNTL_LAB2 |-> <<"MNTLLOBBY", "MNTL_LAB3", NONE>>,
   MNTL_LAB3 |-> <<NONE, "MNTL_LAB2", NONE>>,
   CSL_VIEW  |-> <<"BECK_LOT", "CSL_DOOR", "MNTL_NW">>,
   CSL_DOOR  |-> <<"BECK_LOT", NONE, "MNTL_NW">>,
   CSL_LOBBY |-> <<"CSL_UPPER", "CSL_DOOR", NONE>>,
   CSL_UPPER |-> <<NONE, "CSLLOUNGE", "CSL_LOBBY">>,
   CSLLOUNGE |-> <<NONE, "CSL_UPPER", NONE>>,
   BECK_LOT  |-> <<"BECKMAN", "GARAGE", "CSL_VIEW">>,
   BECKMAN   |-> <<"MNTL_SW", "BECK_DOOR", "BECK_LOT">>,
   BECK_DOOR |-> <<"MNTL_SW", NONE, "BECK_LOT">>,
   BECKLOBBY |-> <<NONE, "BECK_MRI", "BECK_DOOR">>,
   BECK_MRI  |-> <<NONE, "BECKLOBBY", NONE>>,
   GARAGE    |-> <<"BECK_LOT", "CAR_SITE", NONE>>,
   CAR_SITE  |-> <<NONE, "GARAGE", NONE>>,
   ALLERTON  |-> <<"FU_DOGS", NONE, "SUNSINGER">>,
   FU_DOGS   |-> <<NONE, "STATUE", "ALLERTON">>,
   STATUE    |-> <<NONE, "FU_DOGS", NONE>>,
   SUNSINGER |-> <<"ALLERTON", NONE, NONE>>,
   WILLARD   |-> <<NONE, "WILL_SIDE", NONE>>,
   WILL_SIDE |-> <<"REM_PLANE", NONE, "WILLARD">>,
   REM_PLANE |-> <<"COCKPIT", NONE, "WILL_SIDE">>,
   COCKPIT   |-> <<NONE, NONE, "REM_PLANE">>,
   OVER_WILL |-> <<NONE, "COCKPIT", "AIR_RIO">>,
   AIR_RIO   |-> <<"OVER_WILL", NONE, "REM_ICE">>,
   REM_ICE   |-> <<"AIR_RIO", "REM_LAB", NONE>>,
   REM_LAB   |-> <<NONE, "REM_ICE", NONE>>]

Rooms == DOMAIN room_data

ASSUME WorldAssumption ==
  \A p \in Players : p.dropRooms \cup p.peekRooms \subseteq Rooms \ {"INVENTORY"}

\* obj_data: each object's name and starting room.
obj_data ==
  [BOARD |-> <<"board", "IN_IEEE">>,     JETPACK |-> <<"jetpack", "TALBOT">>,
   TUX |-> <<"tux", "REM_LAB">>,         MP2 |-> <<"mp2", "CSLLOUNGE">>,
   BOOK_C |-> <<"book", NONE>>,          BOOK_WODE |-> <<"book", NONE>>,
   GPS_BAD |-> <<"gps", "TALBOT">>,      GPS_GOOD |-> <<"gps", NONE>>,
   GPS_SPEC |-> <<"spec", "CSL_UPPER">>, BUNNYSUIT |-> <<"bunnysuit", "ALMAMATER">>,
   BATT_EMPTY |-> <<"battery", NONE>>,   BATT_FULL |-> <<"battery", NONE>>,
   BATT_CAR |-> <<"battery", NONE>>,     MTN_DEW |-> <<"dew", NONE>>,
   FISH |-> <<"fish", "EAST_BONE">>,     ICARD |-> <<"Icard", "BARDEEN">>,
   CAR_KEY |-> <<"key", "CARIBOU">>,     ROBOT_DEAD |-> <<"robot", "MNTL_LAB3">>,
   ROBOT_LIVE |-> <<"robot", NONE>>,     MIMO_CARD |-> <<"mimo", "STATUE">>]

Objects == DOMAIN obj_data
NameOf(o) == obj_data[o][1]
Books == {"BOOK_C", "BOOK_WODE"}

Flags == {"HAS_EATEN", "WEARING_SUIT", "CAR_OPEN", "CAR_FIXED", "LURED_TUX"}

VARIABLES
  player,     \* who plays; never changes
  where,      \* game_info.where: the room in view, or WON
  loc,        \* where each object is
  newBook,    \* the book inserted last
  flags,      \* player_flags
  enter,      \* the two enter pointers that change: INVENTORY's and COCKPIT's
  hood,       \* whether CAR_SITE's view is the photo of the open car
  x_speed, y_speed,   \* in units of MOTION_SPEED
  shown       \* what is on the screen: the room, its photo, the objects drawn

vars == <<player, where, loc, newBook, flags, enter, hood, x_speed, y_speed, shown>>

-----------------------------------------------------------------------------
(* What happens on the screen for each tc_action_t. *)

In(r, l) == { o \in Objects : l[o] = r }

ScreenOf(r, l, h) == [room |-> r, open |-> r = "CAR_SITE" /\ h, objs |-> In(r, l)]

\* TC_CHANGE_ROOM: game_loop prepares the room's photo and draws it.
CHANGE_ROOM == shown' = ScreenOf(where', loc', hood')

\* TC_REDRAW_ROOM: the contents of the prepared room are drawn again.
REDRAW_ROOM == shown' = [shown EXCEPT !.objs = In(shown.room, loc')]

\* TC_DISCARD_TEXT and TC_ALLOW_EDIT: nothing is drawn.
NO_REDRAW == UNCHANGED shown

-----------------------------------------------------------------------------
(* Helpers. *)

Carried(o) == loc[o] = "INVENTORY"
AtHand(o) == Carried(o) \/ loc[o] = where
IsSet(flag) == flag \in flags

\* insert_object and move_object_to_inventory, remove_object
Put(l, o, r) == [l EXCEPT ![o] = r]
Remove(l, o) == [l EXCEPT ![o] = NONE]

\* The first object of that name in the contents of room r, or NONE.
find_in_room(r, arg) ==
  LET match == { o \in In(r, loc) : NameOf(o) = arg }
  IN  CASE match = {}       -> NONE
        [] newBook \in match -> newBook
        [] OTHER            -> CHOOSE o \in match : TRUE

\* The room the player is standing in.
PlayerAt == IF where = "INVENTORY" THEN enter.INVENTORY ELSE where

\* An object that is gotten without being in the room's contents, or NONE.
obj_special_get(r, arg) ==
  LET book == IF IsSet("HAS_EATEN") THEN "BOOK_C" ELSE "BOOK_WODE"
  IN  CASE r = "RESERVE" /\ arg = "book" /\ loc[book] = NONE -> book
        [] r = "CAR_SITE" /\ loc["BATT_CAR"] = r -> "BATT_EMPTY"
        [] OTHER -> NONE

\* Commands that only move objects, and those that also set a flag.
MoveObjects(l) ==
  /\ loc' = l
  /\ UNCHANGED <<where, newBook, flags, enter, hood, x_speed, y_speed>>

MoveAndSet(l, flag) ==
  /\ loc' = l
  /\ flags' = flags \cup {flag}
  /\ UNCHANGED <<where, newBook, enter, x_speed, y_speed>>

-----------------------------------------------------------------------------
(* The arrow commands and "go": the player moves. *)

Move(dest) ==
  /\ where' = dest
  /\ UNCHANGED <<loc, newBook, flags, enter, hood, x_speed, y_speed>>
  /\ CHANGE_ROOM

try_to_move_left ==
  /\ room_data[where][1] # NONE
  /\ Move(room_data[where][1])

EnterOf(r) == IF r \in DOMAIN enter THEN enter[r] ELSE room_data[r][2]

\* The doors: from which room into which, and what opens them.
Doors == { <<"BY_CLEANR", "IN_CLEANR">>, <<"BY_395LAB", "IN_395LAB">>,
           <<"CSL_DOOR", "CSL_LOBBY">>, <<"BECK_DOOR", "BECKLOBBY">> }

Opens(door) ==
  CASE door[2] = "IN_CLEANR" -> IsSet("WEARING_SUIT")
    [] door[2] = "BECKLOBBY" -> Carried("ROBOT_LIVE")
    [] OTHER                 -> Carried("ICARD")

EnterRoom ==
  /\ EnterOf(where) # NONE
  /\ Move(EnterOf(where))

EnterDoor(door) ==
  /\ where = door[1]
  /\ EnterOf(where) = NONE
  /\ Opens(door)
  /\ Move(door[2])

try_to_enter == EnterRoom \/ \E door \in Doors : EnterDoor(door)

try_to_move_right ==
  /\ room_data[where][3] # NONE
  /\ Move(room_data[where][3])

\* Mutant for GateKept: the way to Allerton is found without the GPS.
typed_cmd_go_noGps(arg) ==
  \/ /\ arg = "allerton" /\ where \in {"WILLARD", "CAR_SITE"}
     /\ IsSet("CAR_FIXED")
     /\ Move("ALLERTON")
  \/ /\ arg \in {"willard", "airport"} /\ where \in {"ALLERTON", "CAR_SITE"}
     /\ IsSet("CAR_FIXED")
     /\ Move("WILLARD")
  \/ /\ arg = "campus" /\ where \in {"ALLERTON", "WILLARD"}
     /\ Move("CAR_SITE")

typed_cmd_go(arg) ==
  \/ /\ arg = "allerton" /\ where \in {"WILLARD", "CAR_SITE"}
     /\ IsSet("CAR_FIXED") /\ Carried("GPS_GOOD")
     /\ Move("ALLERTON")
  \/ /\ arg \in {"willard", "airport"} /\ where \in {"ALLERTON", "CAR_SITE"}
     /\ IsSet("CAR_FIXED")
     /\ Move("WILLARD")
  \/ /\ arg = "campus" /\ where \in {"ALLERTON", "WILLARD"}
     /\ Move("CAR_SITE")

\* Look at the inventory, or return to the room one stands in.
typed_cmd_inventory ==
  /\ where \in player.peekRooms \cup {"INVENTORY"}
  /\ IF where = "INVENTORY"
     THEN where' = enter.INVENTORY /\ UNCHANGED enter
     ELSE where' = "INVENTORY" /\ enter' = [enter EXCEPT !.INVENTORY = where]
  /\ UNCHANGED <<loc, newBook, flags, hood, x_speed, y_speed>>
  /\ CHANGE_ROOM

-----------------------------------------------------------------------------
(* The commands that move objects. *)

\* get, and the speeds handle_typing sets after it, found or not.
typed_cmd_get(arg) ==
  /\ LET src == PlayerAt
         special == obj_special_get(src, arg)
         obj == IF special # NONE THEN special ELSE find_in_room(src, arg)
         refused == obj = NONE \/ (obj = "TUX" /\ ~IsSet("LURED_TUX"))
         rest == IF obj = "BATT_EMPTY" /\ special = obj
                 THEN Remove(loc, "BATT_CAR") ELSE loc
     IN  /\ loc' = IF refused THEN loc ELSE Put(rest, obj, "INVENTORY")
         /\ newBook' = IF ~refused /\ obj \in Books THEN obj ELSE newBook
         /\ IF refused THEN NO_REDRAW ELSE REDRAW_ROOM
  /\ x_speed' = IF loc'["BOARD"] = "INVENTORY" THEN 3 ELSE x_speed
  /\ y_speed' = IF loc'["JETPACK"] = "INVENTORY" THEN 3 ELSE y_speed
  /\ UNCHANGED <<where, flags, enter, hood>>

\* Mutant for SpeedMatches: the jetpack's speed is kept.
typed_cmd_drop_fastY(arg) ==
  /\ LET obj == find_in_room("INVENTORY", arg)
         dest == PlayerAt
     IN  /\ obj # NONE /\ dest \in player.dropRooms
         /\ loc' = Put(loc, obj, dest)
         /\ newBook' = IF obj \in Books THEN obj ELSE newBook
  /\ x_speed' = IF loc'["BOARD"] # "INVENTORY" THEN 1 ELSE x_speed
  /\ REDRAW_ROOM
  /\ UNCHANGED <<where, y_speed, flags, enter, hood>>

\* drop, and the speeds handle_typing resets after it.
typed_cmd_drop(arg) ==
  /\ LET obj == find_in_room("INVENTORY", arg)
         dest == PlayerAt
     IN  /\ obj # NONE /\ dest \in player.dropRooms
         /\ loc' = Put(loc, obj, dest)
         /\ newBook' = IF obj \in Books THEN obj ELSE newBook
  /\ x_speed' = IF loc'["BOARD"] # "INVENTORY" THEN 1 ELSE x_speed
  /\ y_speed' = IF loc'["JETPACK"] # "INVENTORY" THEN 1 ELSE y_speed
  /\ REDRAW_ROOM
  /\ UNCHANGED <<where, flags, enter, hood>>

typed_cmd_buy(arg) ==
  \/ /\ arg = "dew" /\ where = "EVRT_VEND" /\ ~AtHand("MTN_DEW")
     /\ MoveObjects(Put(loc, "MTN_DEW", "INVENTORY"))
     /\ REDRAW_ROOM
  \/ /\ arg = "yogurt" /\ where = "IN_COCOMR" /\ ~IsSet("HAS_EATEN")
     /\ MoveAndSet(loc, "HAS_EATEN")
     /\ UNCHANGED hood
     /\ NO_REDRAW

typed_cmd_drink(arg) ==
  /\ arg = "dew" /\ AtHand("MTN_DEW")
  /\ MoveObjects(Remove(loc, "MTN_DEW"))
  /\ REDRAW_ROOM

typed_cmd_sigh ==
  /\ where = "BY_ZAS"
  /\ MoveAndSet(loc, "HAS_EATEN")
  /\ UNCHANGED hood
  /\ NO_REDRAW

\* Mutant for OneBattery: the empty battery is not removed.
typed_cmd_charge_keeps(arg) ==
  /\ arg = "battery" /\ where = "BECK_MRI"
  /\ AtHand("BATT_EMPTY") /\ ~AtHand("BATT_FULL")
  /\ MoveObjects(Put(loc, "BATT_FULL", "INVENTORY"))
  /\ REDRAW_ROOM

typed_cmd_charge(arg) ==
  /\ arg = "battery" /\ where = "BECK_MRI"
  /\ AtHand("BATT_EMPTY") /\ ~AtHand("BATT_FULL")
  /\ MoveObjects(Put(Remove(loc, "BATT_EMPTY"), "BATT_FULL", "INVENTORY"))
  /\ REDRAW_ROOM

typed_cmd_fix(arg) ==
  /\ arg = "gps" /\ where = "IN_CLEANR"
  /\ ~AtHand("GPS_GOOD") /\ AtHand("GPS_BAD") /\ AtHand("GPS_SPEC")
  /\ MoveObjects(Put(Remove(Remove(loc, "GPS_BAD"), "GPS_SPEC"),
                     "GPS_GOOD", "INVENTORY"))
  /\ CHANGE_ROOM

\* Mutant for Unambiguous: the old robot is not removed.
typed_cmd_flash_keeps(arg) ==
  /\ arg = "robot" /\ where = "IN_395LAB"
  /\ AtHand("ROBOT_DEAD") /\ ~AtHand("ROBOT_LIVE")
  /\ MoveObjects(Put(loc, "ROBOT_LIVE", "INVENTORY"))
  /\ REDRAW_ROOM

typed_cmd_flash(arg) ==
  /\ arg = "robot" /\ where = "IN_395LAB"
  /\ AtHand("ROBOT_DEAD") /\ ~AtHand("ROBOT_LIVE")
  /\ MoveObjects(Put(Remove(loc, "ROBOT_DEAD"), "ROBOT_LIVE", "INVENTORY"))
  /\ REDRAW_ROOM

typed_cmd_wear(arg) ==
  /\ arg = "bunnysuit" /\ AtHand("BUNNYSUIT")
  /\ MoveAndSet(Remove(loc, "BUNNYSUIT"), "WEARING_SUIT")
  /\ UNCHANGED hood
  /\ REDRAW_ROOM

\* Mutant for ScreenCurrent: the photo is swapped but not prepared.
InstallBattery_redraw(arg) ==
  /\ arg = "battery" /\ where = "CAR_SITE"
  /\ AtHand("BATT_FULL") /\ ~AtHand("BATT_EMPTY")
  /\ MoveAndSet(Remove(loc, "BATT_FULL"), "CAR_FIXED")
  /\ hood' = ~hood
  /\ REDRAW_ROOM

InstallBattery(arg) ==
  /\ arg = "battery" /\ where = "CAR_SITE"
  /\ AtHand("BATT_FULL") /\ ~AtHand("BATT_EMPTY")
  /\ MoveAndSet(Remove(loc, "BATT_FULL"), "CAR_FIXED")
  /\ hood' = ~hood
  /\ CHANGE_ROOM

InstallCard(arg) ==
  /\ arg \in {"mimo", "card", "transmitter"} /\ where = "COCKPIT"
  /\ AtHand("MIMO_CARD")
  /\ loc' = Remove(loc, "MIMO_CARD")
  /\ enter' = [enter EXCEPT !.COCKPIT = "OVER_WILL"]
  /\ UNCHANGED <<where, newBook, flags, hood, x_speed, y_speed>>
  /\ REDRAW_ROOM

typed_cmd_install(arg) == InstallBattery(arg) \/ InstallCard(arg)

UseCar(arg) ==
  /\ arg = "car" /\ where = "CAR_SITE"
  /\ ~IsSet("CAR_FIXED") /\ ~IsSet("CAR_OPEN") /\ Carried("CAR_KEY")
  /\ hood' = ~hood
  /\ MoveAndSet(Put(Remove(loc, "CAR_KEY"), "BATT_CAR", where), "CAR_OPEN")
  /\ CHANGE_ROOM

UseFish(arg) ==
  /\ arg = "fish" /\ where = "REM_LAB" /\ AtHand("FISH")
  /\ MoveAndSet(Put(Remove(loc, "FISH"), "TUX", "INVENTORY"), "LURED_TUX")
  /\ UNCHANGED hood
  /\ REDRAW_ROOM

typed_cmd_use(arg) == UseCar(arg) \/ UseFish(arg)

\* Mutant for WonProperly: Tux is not looked for.
typed_cmd_do_noTux(arg) ==
  /\ where = "IN_391LAB" /\ arg \in {"391", "mp2"}
  /\ Carried("BOOK_C") /\ Carried("MP2")
  /\ where' = WON
  /\ UNCHANGED <<loc, newBook, flags, enter, hood, x_speed, y_speed, shown>>

\* Do the MP: the player's room becomes NULL and game_loop returns GAME_WON.
typed_cmd_do(arg) ==
  /\ where = "IN_391LAB" /\ arg \in {"391", "mp2"}
  /\ Carried("BOOK_C") /\ Carried("MP2") /\ loc["TUX"] = "IN_391LAB"
  /\ where' = WON
  /\ UNCHANGED <<loc, newBook, flags, enter, hood, x_speed, y_speed, shown>>

handle_typing ==
  \/ \E arg \in player.words :
       \/ typed_cmd_buy(arg) \/ typed_cmd_charge(arg) \/ typed_cmd_do(arg)
       \/ typed_cmd_drink(arg) \/ typed_cmd_fix(arg) \/ typed_cmd_flash(arg)
       \/ typed_cmd_get(arg) \/ typed_cmd_go(arg) \/ typed_cmd_install(arg)
       \/ typed_cmd_use(arg) \/ typed_cmd_wear(arg)
  \/ \E arg \in player.drops : typed_cmd_drop(arg)
  \/ typed_cmd_inventory
  \/ typed_cmd_sigh

\* build_world and init_game; game_loop draws the first room.
Init ==
  /\ player \in Players
  /\ where = "EAST_EVRT"
  /\ loc = [o \in Objects |-> obj_data[o][2]]
  /\ newBook = NONE
  /\ flags = {}
  /\ enter = [INVENTORY |-> NONE, COCKPIT |-> NONE]
  /\ hood = FALSE
  /\ x_speed = 1 /\ y_speed = 1
  /\ shown = ScreenOf(where, loc, hood)

\* The loop ends when the game is won.
Next ==
  /\ where # WON
  /\ try_to_move_left \/ try_to_enter \/ try_to_move_right \/ handle_typing
  /\ UNCHANGED player

Spec == Init /\ [][Next]_vars

-----------------------------------------------------------------------------
(* Properties. *)

Placed(o) == loc[o] # NONE
PlacedOf(S) == { o \in S : Placed(o) }

\* Every variable of the world has its type; in particular the player is in
\* a room (game_info.where is not NULL) until the game is won.
TypeOK ==
  /\ where \in Rooms \cup {WON}
  /\ loc \in [Objects -> Rooms \cup {NONE}]
  /\ newBook \in Books \cup {NONE}
  /\ flags \in SUBSET Flags
  /\ enter \in [INVENTORY : (Rooms \ {"INVENTORY"}) \cup {NONE},
                COCKPIT : {NONE, "OVER_WILL"}]
  /\ hood \in BOOLEAN
  /\ {x_speed, y_speed} \subseteq {1, 3}
  /\ shown \in [room : Rooms, open : BOOLEAN, objs : SUBSET Objects]

Batteries == {"BATT_CAR", "BATT_EMPTY", "BATT_FULL"}

\* The three battery objects stand for one battery: before the car is opened
\* there is none (and the key exists), until it is fixed exactly one, and
\* then none again.  The photo of the car shows its hood open in between.
OneBattery ==
  /\ Cardinality(PlacedOf(Batteries))
       = IF IsSet("CAR_OPEN") /\ ~IsSet("CAR_FIXED") THEN 1 ELSE 0
  /\ Placed("CAR_KEY") <=> ~IsSet("CAR_OPEN")
  /\ IsSet("CAR_FIXED") => IsSet("CAR_OPEN")
  /\ hood <=> IsSet("CAR_OPEN") /\ ~IsSet("CAR_FIXED")

\* Commands find objects by name: no two objects of one name are ever in one
\* place, except for the two books.
Unambiguous ==
  \A o, p \in Objects :
    o # p /\ NameOf(o) = NameOf(p) /\ Placed(o) /\ loc[o] = loc[p]
      => {o, p} = Books

\* The screen shows the room in view as it is: every command that changes
\* what is to be seen returns a code that makes the loop draw it.  (Checked
\* together with the types.)
ScreenCurrent == TypeOK /\ (where # WON => shown = ScreenOf(where, loc, hood))

\* Panning is fast exactly while the player carries the board (in x) and the
\* jetpack (in y), however they were got or dropped.
SpeedMatches ==
  /\ x_speed = IF Carried("BOARD") THEN 3 ELSE 1
  /\ y_speed = IF Carried("JETPACK") THEN 3 ELSE 1

Csl == {"CSL_LOBBY", "CSL_UPPER", "CSLLOUNGE"}
Beckman == {"BECKLOBBY", "BECK_MRI"}
Allerton == {"ALLERTON", "FU_DOGS", "STATUE", "SUNSINGER"}
Air == {"OVER_WILL", "AIR_RIO", "REM_ICE", "REM_LAB"}

\* Whoever is behind a door came through it with its key, and the key is
\* still with them or lies in there.
GateKept ==
  LET Behind(area, key) == PlayerAt \in area => loc[key] \in area \cup {"INVENTORY"}
  IN  /\ Behind({"IN_395LAB"}, "ICARD") /\ Behind(Csl, "ICARD")
      /\ Behind(Beckman, "ROBOT_LIVE")
      /\ Behind(Allerton, "GPS_GOOD")
      /\ PlayerAt = "IN_CLEANR" => IsSet("WEARING_SUIT")
      /\ PlayerAt \in Air => enter.COCKPIT # NONE

\* No quest can be skipped: a player who has won has eaten, worn the suit,
\* fixed the car, repaired the GPS, reprogrammed the robot, installed the
\* card in the plane and lured Tux.
WonProperly ==
  where = WON =>
    /\ flags = Flags
    /\ Placed("GPS_GOOD") /\ Placed("ROBOT_LIVE")
    /\ enter.COCKPIT # NONE
=============================================================================
