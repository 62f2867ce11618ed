---------------------------- MODULE WorldProofs -----------------------------
(***************************************************************************)
(* Proofs about World, for every player: whatever they type, whatever they *)
(* drop and in whatever rooms.                                             *)
(***************************************************************************)
EXTENDS World, FiniteSetTheorems, TLAPS

-----------------------------------------------------------------------------
(* The inductive invariant. *)

\* The types, and that the inventory is looked at from a room.
Types == TypeOK /\ (where = "INVENTORY" => enter.INVENTORY # NONE)

\* OneBattery, for each of the three objects, and the one in the car stays
\* there.
Repairing == IsSet("CAR_OPEN") /\ ~IsSet("CAR_FIXED")
Battery ==
  /\ loc["BATT_CAR"] \in {NONE, "CAR_SITE"}
  /\ ~Repairing => ~Placed("BATT_CAR") /\ ~Placed("BATT_EMPTY") /\ ~Placed("BATT_FULL")
  /\ Repairing => Placed("BATT_CAR") \/ Placed("BATT_EMPTY") \/ Placed("BATT_FULL")
  /\ ~(Placed("BATT_CAR") /\ Placed("BATT_EMPTY"))
  /\ ~(Placed("BATT_CAR") /\ Placed("BATT_FULL"))
  /\ ~(Placed("BATT_EMPTY") /\ Placed("BATT_FULL"))
  /\ Placed("CAR_KEY") <=> ~IsSet("CAR_OPEN")
  /\ IsSet("CAR_FIXED") => IsSet("CAR_OPEN")
  /\ hood <=> Repairing

\* Of the other pairs of objects with one name, one is in limbo.
OneEach ==
  /\ ~(Placed("GPS_BAD") /\ Placed("GPS_GOOD"))
  /\ ~(Placed("ROBOT_DEAD") /\ Placed("ROBOT_LIVE"))

\* Nobody comes to Allerton without the car.
Gates == GateKept /\ (PlayerAt \in Allerton => IsSet("CAR_FIXED"))

\* What each quest presupposes of the others.
Quests ==
  /\ Placed("BOOK_C") => IsSet("HAS_EATEN")
  /\ Placed("GPS_GOOD") => IsSet("WEARING_SUIT")
  /\ Placed("BATT_FULL") \/ IsSet("CAR_FIXED") => Placed("ROBOT_LIVE")
  /\ loc["MIMO_CARD"] # "STATUE" \/ enter.COCKPIT # NONE
       => IsSet("CAR_FIXED") /\ Placed("GPS_GOOD")
  /\ IsSet("LURED_TUX") => enter.COCKPIT # NONE
  /\ ~IsSet("LURED_TUX") => loc["TUX"] = "REM_LAB"

Screen == where # WON => shown = ScreenOf(where, loc, hood)

IInv == Types /\ Battery /\ OneEach /\ Gates /\ Quests /\ SpeedMatches /\ Screen /\ WonProperly

-----------------------------------------------------------------------------
(* The map and the objects. *)

\* room_data leads to rooms, and never to the inventory.
LEMMA Neighbours ==
  ASSUME NEW r \in Rooms, NEW d \in 1 .. 3
  PROVE  room_data[r][d] \in (Rooms \ {"INVENTORY"}) \cup {NONE}
BY DEF Rooms, room_data, NONE

\* The parts of the map behind a door, the car or the plane.
Areas == {{"IN_395LAB"}, {"IN_CLEANR"}, Csl, Beckman, Allerton, Air}

\* They have no other way in.
LEMMA NoWayIn ==
  ASSUME NEW r \in Rooms, NEW d \in 1 .. 3, NEW area \in Areas,
         room_data[r][d] \in area
  PROVE  r \in area
<1> USE DEF Rooms, room_data, NONE
<1>0. d = 1 \/ d = 2 \/ d = 3
  OBVIOUS
<1>1. room_data[r][d] \in {"IN_395LAB"} => r \in {"IN_395LAB"}
  OBVIOUS
<1>2. room_data[r][d] \in {"IN_CLEANR"} => r \in {"IN_CLEANR"}
  OBVIOUS
<1>3. room_data[r][d] \in Csl => r \in Csl
  <2> USE DEF Csl
  <2>1. room_data[r][1] \in Csl => r \in Csl
    OBVIOUS
  <2>2. room_data[r][2] \in Csl => r \in Csl
    OBVIOUS
  <2>3. room_data[r][3] \in Csl => r \in Csl
    OBVIOUS
  <2> HIDE DEF room_data, Rooms
  <2> QED BY <1>0, <2>1, <2>2, <2>3
<1>4. room_data[r][d] \in Beckman => r \in Beckman
  <2> USE DEF Beckman
  <2>1. room_data[r][1] \in Beckman => r \in Beckman
    OBVIOUS
  <2>2. room_data[r][2] \in Beckman => r \in Beckman
    OBVIOUS
  <2>3. room_data[r][3] \in Beckman => r \in Beckman
    OBVIOUS
  <2> HIDE DEF room_data, Rooms
  <2> QED BY <1>0, <2>1, <2>2, <2>3
<1>5. room_data[r][d] \in Allerton => r \in Allerton
  <2> USE DEF Allerton
  <2>1. room_data[r][1] \in Allerton => r \in Allerton
    OBVIOUS
  <2>2. room_data[r][2] \in Allerton => r \in Allerton
    OBVIOUS
  <2>3. room_data[r][3] \in Allerton => r \in Allerton
    OBVIOUS
  <2> HIDE DEF room_data, Rooms
  <2> QED BY <1>0, <2>1, <2>2, <2>3
<1>6. room_data[r][d] \in Air => r \in Air
  <2> USE DEF Air
  <2>1. room_data[r][1] \in Air => r \in Air
    OBVIOUS
  <2>2. room_data[r][2] \in Air => r \in Air
    OBVIOUS
  <2>3. room_data[r][3] \in Air => r \in Air
    OBVIOUS
  <2> HIDE DEF room_data, Rooms
  <2> QED BY <1>0, <2>1, <2>2, <2>3
<1> HIDE DEF Rooms, room_data
<1> QED BY <1>1, <1>2, <1>3, <1>4, <1>5, <1>6 DEF Areas

\* Limbo and the end of the game are not rooms.
LEMMA NoRoom == NONE \notin Rooms /\ WON \notin Rooms /\ WON # NONE
BY DEF Rooms, room_data, NONE, WON

\* The rooms that commands name.
LEMMA NamedRooms ==
  {"INVENTORY", "IN_CLEANR", "IN_395LAB", "CSL_LOBBY", "BECKLOBBY", "BECK_MRI",
   "ALLERTON", "WILLARD", "CAR_SITE", "COCKPIT", "OVER_WILL", "REM_LAB", "STATUE",
   "RESERVE", "EVRT_VEND", "EAST_EVRT", "IN_391LAB"} \subseteq Rooms
BY DEF Rooms, room_data

\* The objects, by name.
LEMMA ObjectNames ==
  /\ Objects = {"BOARD", "JETPACK", "TUX", "MP2", "BOOK_C", "BOOK_WODE", "GPS_BAD", "GPS_GOOD",
                "GPS_SPEC", "BUNNYSUIT", "BATT_EMPTY", "BATT_FULL", "BATT_CAR", "MTN_DEW", "FISH",
                "ICARD", "CAR_KEY", "ROBOT_DEAD", "ROBOT_LIVE", "MIMO_CARD"}
  /\ NONE \notin Objects
BY DEF Objects, obj_data, NONE

\* Objects start in rooms or in limbo.
LEMMA Starts == \A o \in Objects : obj_data[o][2] \in Rooms \cup {NONE}
BY DEF Objects, obj_data, Rooms, room_data

\* Only the books, the batteries, the two GPS and the two robots share names.
LEMMA SharedNames ==
  ASSUME NEW o \in Objects, NEW p \in Objects, o # p, NameOf(o) = NameOf(p)
  PROVE  \/ {o, p} = Books
         \/ {o, p} = {"GPS_BAD", "GPS_GOOD"}
         \/ {o, p} = {"ROBOT_DEAD", "ROBOT_LIVE"}
         \/ o \in Batteries /\ p \in Batteries
<1> USE DEF Objects, obj_data, NameOf
<1>1. CASE NameOf(o) = "book"
  BY <1>1 DEF Books
<1>2. CASE NameOf(o) = "gps"
  BY <1>2
<1>3. CASE NameOf(o) = "robot"
  BY <1>3
<1>4. CASE NameOf(o) = "battery"
  BY <1>4 DEF Batteries
<1>5. NameOf(o) \in {"book", "gps", "robot", "battery"}
  OBVIOUS
<1> QED BY <1>1, <1>2, <1>3, <1>4, <1>5

\* What find_in_room finds is in that room.
LEMMA Found ==
  ASSUME NEW r, NEW arg, newBook \in Books \cup {NONE}, find_in_room(r, arg) # NONE
  PROVE  find_in_room(r, arg) \in Objects /\ loc[find_in_room(r, arg)] = r
<1> DEFINE match == { o \in In(r, loc) : NameOf(o) = arg }
<1>1. match # {} => (CHOOSE o \in match : TRUE) \in match
  OBVIOUS
<1>2. match \subseteq { o \in Objects : loc[o] = r }
  BY DEF In
<1> HIDE DEF match
<1>3. find_in_room(r, arg) \in match
  BY <1>1 DEF find_in_room, match
<1> QED BY <1>2, <1>3
-----------------------------------------------------------------------------
(* The steps, one kind at a time. *)

USE NoRoom, NamedRooms

\* The player walks into a room that is not behind a door, or has what opens
\* the door, or is behind it already.
MayStandIn(dest) ==
  /\ dest \in {"IN_395LAB"} => PlayerAt \in {"IN_395LAB"} \/ Carried("ICARD")
  /\ dest \in Csl => PlayerAt \in Csl \/ Carried("ICARD")
  /\ dest \in Beckman => PlayerAt \in Beckman \/ Carried("ROBOT_LIVE")
  /\ dest \in Allerton => PlayerAt \in Allerton \/ (Carried("GPS_GOOD") /\ IsSet("CAR_FIXED"))
  /\ dest = "IN_CLEANR" => PlayerAt = "IN_CLEANR" \/ IsSet("WEARING_SUIT")
  /\ dest \in Air => PlayerAt \in Air \/ enter.COCKPIT # NONE

\* Walking there keeps the invariant.
LEMMA Walk ==
  ASSUME IInv, NEW dest \in Rooms \ {"INVENTORY"}, MayStandIn(dest), Move(dest)
  PROVE  IInv'
<1>1. UNCHANGED <<loc, newBook, flags, enter, hood, x_speed, y_speed>> /\ where' = dest
  BY DEF Move
<1>2. shown' = ScreenOf(dest, loc, hood)
  BY <1>1 DEF Move, CHANGE_ROOM
<1>3. PlayerAt' = dest
  BY <1>1 DEF PlayerAt
<1>4. Types'
  <2>1. shown' \in [room : Rooms, open : BOOLEAN, objs : SUBSET Objects]
    BY <1>2 DEF ScreenOf, In
  <2>2. where' \in Rooms \cup {WON} /\ where' # "INVENTORY"
    BY <1>1
  <2> QED BY <1>1, <2>1, <2>2 DEF IInv, Types, TypeOK
<1>5. Gates'
  <2>1. GateKept'
    BY <1>1, <1>3 DEF IInv, Gates, GateKept, MayStandIn, Carried, IsSet
  <2>2. (PlayerAt \in Allerton => IsSet("CAR_FIXED"))'
    BY <1>1, <1>3 DEF IInv, Gates, MayStandIn, IsSet
  <2> QED BY <2>1, <2>2 DEF Gates
<1>6. Battery' /\ OneEach' /\ Quests' /\ SpeedMatches'
  BY <1>1 DEF IInv, Battery, OneEach, Quests, SpeedMatches, Repairing, Placed, IsSet, Carried
<1>7. Screen' /\ WonProperly'
  BY <1>1, <1>2 DEF Screen, WonProperly
<1> QED BY <1>4, <1>5, <1>6, <1>7 DEF IInv

\* Neighbouring rooms: nobody walks into a part of the map behind a door.
LEMMA Step ==
  ASSUME IInv, NEW d \in 1 .. 3, where # WON, where # "INVENTORY", room_data[where][d] # NONE
  PROVE  /\ room_data[where][d] \in Rooms \ {"INVENTORY"}
         /\ MayStandIn(room_data[where][d])
<1>1. where \in Rooms
  BY DEF IInv, Types, TypeOK
<1>2. room_data[where][d] \in Rooms \ {"INVENTORY"}
  BY <1>1, Neighbours
<1>3. \A area \in Areas : room_data[where][d] \in area => where \in area
  BY <1>1, NoWayIn
<1>4. PlayerAt = where
  BY DEF PlayerAt
<1>5. {{"IN_395LAB"}, {"IN_CLEANR"}, Csl, Beckman, Allerton, Air} \subseteq Areas
  BY DEF Areas
<1>6. MayStandIn(room_data[where][d])
  BY <1>3, <1>4, <1>5 DEF MayStandIn
<1> QED BY <1>2, <1>6

\* The arrows: left, enter and right, and the doors.
LEMMA MovesOK ==
  ASSUME IInv, where # WON, try_to_move_left \/ try_to_enter \/ try_to_move_right
  PROVE  IInv'
<1>1. room_data["INVENTORY"][1] = NONE /\ room_data["INVENTORY"][3] = NONE
  BY DEF room_data
<1>2. CASE try_to_move_left
  BY <1>1, <1>2, Step, Walk DEF try_to_move_left
<1>3. CASE try_to_move_right
  BY <1>1, <1>3, Step, Walk DEF try_to_move_right
<1>4. CASE EnterRoom
  <2>1. where \in Rooms /\ EnterOf(where) # NONE /\ Move(EnterOf(where)) /\ where # WON
    BY <1>4 DEF EnterRoom, IInv, Types, TypeOK
  <2>2. DOMAIN enter = {"INVENTORY", "COCKPIT"}
    BY DEF IInv, Types, TypeOK
  <2>3. CASE where = "INVENTORY"
    <3>1. EnterOf(where) = enter.INVENTORY /\ PlayerAt = enter.INVENTORY
      BY <2>2, <2>3 DEF EnterOf, PlayerAt
    <3>2. enter.INVENTORY \in Rooms \ {"INVENTORY"}
      BY <2>1, <3>1 DEF IInv, Types, TypeOK
    <3>3. MayStandIn(enter.INVENTORY)
      BY <3>1 DEF MayStandIn
    <3> QED BY <2>1, <3>1, <3>2, <3>3, Walk
  <2>4. CASE where = "COCKPIT"
    <3>1. EnterOf(where) = enter.COCKPIT
      BY <2>2, <2>4 DEF EnterOf
    <3>2. enter.COCKPIT = "OVER_WILL"
      BY <2>1, <3>1 DEF IInv, Types, TypeOK
    <3>3. MayStandIn("OVER_WILL")
      BY <3>2 DEF MayStandIn, Csl, Beckman, Allerton, Air, NONE
    <3> QED BY <2>1, <3>1, <3>2, <3>3, Walk
  <2>5. CASE where \notin {"INVENTORY", "COCKPIT"}
    <3>1. EnterOf(where) = room_data[where][2]
      BY <2>2, <2>5 DEF EnterOf
    <3> QED BY <2>1, <2>5, <3>1, Step, Walk
  <2> QED BY <2>3, <2>4, <2>5
<1>5. ASSUME NEW door \in Doors, EnterDoor(door) PROVE IInv'
  <2>1. Opens(door) /\ Move(door[2])
    BY <1>5 DEF EnterDoor
  <2>2. door[2] \in {"IN_CLEANR", "IN_395LAB", "CSL_LOBBY", "BECKLOBBY"}
    BY DEF Doors
  <2>3. door[2] \in Rooms \ {"INVENTORY"}
    BY <2>2
  <2>4. MayStandIn(door[2])
    BY <2>1, <2>2 DEF MayStandIn, Opens, Csl, Beckman, Allerton, Air
  <2> QED BY <2>1, <2>3, <2>4, Walk
<1> QED BY <1>2, <1>3, <1>4, <1>5 DEF try_to_enter

\* "go", by car.
LEMMA GoOK ==
  ASSUME IInv, NEW arg, typed_cmd_go(arg) PROVE IInv'
<1>1. CASE Move("ALLERTON") /\ IsSet("CAR_FIXED") /\ Carried("GPS_GOOD")
  <2>1. MayStandIn("ALLERTON")
    BY <1>1 DEF MayStandIn, Csl, Beckman, Allerton, Air
  <2> QED BY <1>1, <2>1, Walk
<1>2. CASE Move("WILLARD")
  <2>1. MayStandIn("WILLARD")
    BY DEF MayStandIn, Csl, Beckman, Allerton, Air
  <2> QED BY <1>2, <2>1, Walk
<1>3. CASE Move("CAR_SITE")
  <2>1. MayStandIn("CAR_SITE")
    BY DEF MayStandIn, Csl, Beckman, Allerton, Air
  <2> QED BY <1>3, <2>1, Walk
<1> QED BY <1>1, <1>2, <1>3 DEF typed_cmd_go

\* Looking at the inventory, and looking up from it.
LEMMA InventoryOK ==
  ASSUME IInv, WorldAssumption, player \in Players, typed_cmd_inventory
  PROVE  IInv'
<1>1. UNCHANGED <<loc, newBook, flags, hood, x_speed, y_speed>>
  BY DEF typed_cmd_inventory
<1>2. shown' = ScreenOf(where', loc, hood)
  BY <1>1 DEF typed_cmd_inventory, CHANGE_ROOM
<1>3. /\ enter'.COCKPIT = enter.COCKPIT
      /\ enter' \in [INVENTORY : (Rooms \ {"INVENTORY"}) \cup {NONE}, COCKPIT : {NONE, "OVER_WILL"}]
      /\ where' \in Rooms
      /\ where' = "INVENTORY" => enter'.INVENTORY # NONE
      /\ PlayerAt' = PlayerAt
  <2>1. enter \in [INVENTORY : (Rooms \ {"INVENTORY"}) \cup {NONE}, COCKPIT : {NONE, "OVER_WILL"}]
    BY DEF IInv, Types, TypeOK
  <2>2. CASE where = "INVENTORY"
    <3>1. where' = enter.INVENTORY /\ enter' = enter
      BY <2>2 DEF typed_cmd_inventory
    <3>2. enter.INVENTORY \in Rooms \ {"INVENTORY"}
      BY <2>2, <2>1 DEF IInv, Types
    <3> QED BY <2>1, <2>2, <3>1, <3>2 DEF PlayerAt
  <2>3. CASE where # "INVENTORY"
    <3>1. where' = "INVENTORY" /\ enter' = [enter EXCEPT !.INVENTORY = where]
      BY <2>3 DEF typed_cmd_inventory
    <3>2. where \in Rooms \ {"INVENTORY"}
      BY <2>3, WorldAssumption DEF typed_cmd_inventory
    <3>3. enter'.INVENTORY = where /\ enter'.COCKPIT = enter.COCKPIT
      BY <2>1, <3>1
    <3> QED BY <2>1, <2>3, <3>1, <3>2, <3>3 DEF PlayerAt
  <2> QED BY <2>2, <2>3
<1>4. Types'
  <2>1. shown' \in [room : Rooms, open : BOOLEAN, objs : SUBSET Objects]
    BY <1>2, <1>3 DEF ScreenOf, In
  <2> QED BY <1>1, <1>3, <2>1 DEF IInv, Types, TypeOK
<1>5. Gates'
  <2>1. GateKept'
    BY <1>1, <1>3 DEF IInv, Gates, GateKept, IsSet
  <2>2. (PlayerAt \in Allerton => IsSet("CAR_FIXED"))'
    BY <1>1, <1>3 DEF IInv, Gates, IsSet
  <2> QED BY <2>1, <2>2 DEF Gates
<1>6. Battery' /\ OneEach' /\ Quests' /\ SpeedMatches'
  BY <1>1, <1>3 DEF IInv, Battery, OneEach, Quests, SpeedMatches, Repairing, Placed, IsSet, Carried
<1>7. Screen' /\ WonProperly'
  BY <1>1, <1>2, <1>3 DEF Screen, WonProperly
<1> QED BY <1>4, <1>5, <1>6, <1>7 DEF IInv

\* Doing the MP, which wins the game.
LEMMA DoOK ==
  ASSUME IInv, NEW arg, typed_cmd_do(arg) PROVE IInv'
<1>1. UNCHANGED <<loc, newBook, flags, enter, hood, x_speed, y_speed, shown>> /\ where' = WON
  BY DEF typed_cmd_do
<1>2. PlayerAt' = WON
  BY <1>1 DEF PlayerAt
<1>3. Types' /\ Screen'
  BY <1>1 DEF IInv, Types, TypeOK, Screen
<1>4. Gates'
  BY <1>2 DEF Gates, GateKept, Csl, Beckman, Allerton, Air, WON
<1>5. Battery' /\ OneEach' /\ Quests' /\ SpeedMatches'
  BY <1>1 DEF IInv, Battery, OneEach, Quests, SpeedMatches, Repairing, Placed, IsSet, Carried
<1>6. WonProperly'
  <2>1. Placed("BOOK_C") /\ loc["TUX"] # "REM_LAB"
    BY DEF typed_cmd_do, Carried, Placed
  <2>2. IsSet("HAS_EATEN") /\ IsSet("LURED_TUX")
    BY <2>1 DEF IInv, Quests
  <2>3. enter.COCKPIT # NONE /\ IsSet("CAR_FIXED") /\ Placed("GPS_GOOD")
    BY <2>2 DEF IInv, Quests
  <2>4. IsSet("WEARING_SUIT") /\ Placed("ROBOT_LIVE") /\ IsSet("CAR_OPEN")
    BY <2>3 DEF IInv, Quests, Battery
  <2>5. flags = Flags
    BY <2>2, <2>3, <2>4 DEF IInv, Types, TypeOK, IsSet, Flags
  <2> QED BY <1>1, <2>3, <2>4, <2>5 DEF WonProperly, Placed
<1> QED BY <1>3, <1>4, <1>5, <1>6 DEF IInv

\* A command leaves the player where they are.  What remains to be shown of
\* it are the parts about the objects, that the keys of the doors are still
\* with the player, and that it is drawn.
Kept(key) == loc'[key] = loc[key] \/ loc'[key] \in {PlayerAt, "INVENTORY"}
Drawn ==
  \/ CHANGE_ROOM
  \/ REDRAW_ROOM /\ hood' = hood
  \/ NO_REDRAW /\ hood' = hood /\ loc' = loc

\* Then the command keeps the invariant.
LEMMA Command ==
  ASSUME IInv, where # WON, where' = where, loc' \in [Objects -> Rooms \cup {NONE}],
         newBook' \in Books \cup {NONE}, flags' \subseteq Flags, flags \subseteq flags',
         enter' \in [INVENTORY : {enter.INVENTORY}, COCKPIT : {enter.COCKPIT, "OVER_WILL"}],
         hood' \in BOOLEAN,
         Battery', OneEach', Quests', SpeedMatches',
         Kept("ICARD"), Kept("ROBOT_LIVE"), Kept("GPS_GOOD"), Drawn
  PROVE  IInv'
<1>1. where \in Rooms /\ PlayerAt' = PlayerAt
  BY DEF IInv, Types, TypeOK, PlayerAt
<1>2. shown = ScreenOf(where, loc, hood)
  BY DEF IInv, Screen
<1>3. shown' = ScreenOf(where, loc', hood')
  <2>1. CASE CHANGE_ROOM
    BY <2>1 DEF CHANGE_ROOM
  <2>2. CASE REDRAW_ROOM /\ hood' = hood
    <3>1. shown.room = where
      BY <1>2 DEF ScreenOf
    <3>2. shown' = [shown EXCEPT !.objs = In(where, loc')]
      BY <2>2, <3>1 DEF REDRAW_ROOM
    <3> QED BY <1>2, <2>2, <3>2 DEF ScreenOf
  <2>3. CASE NO_REDRAW /\ hood' = hood /\ loc' = loc
    BY <1>2, <2>3 DEF NO_REDRAW
  <2> QED BY <2>1, <2>2, <2>3 DEF Drawn
<1>4. Types'
  <2>1. shown' \in [room : Rooms, open : BOOLEAN, objs : SUBSET Objects]
    BY <1>1, <1>3 DEF ScreenOf, In
  <2>2. {x_speed', y_speed'} \subseteq {1, 3}
    BY DEF SpeedMatches
  <2>3. enter \in [INVENTORY : (Rooms \ {"INVENTORY"}) \cup {NONE}, COCKPIT : {NONE, "OVER_WILL"}]
    BY DEF IInv, Types, TypeOK
  <2>4. /\ enter' \in [INVENTORY : (Rooms \ {"INVENTORY"}) \cup {NONE}, COCKPIT : {NONE, "OVER_WILL"}]
        /\ enter'.INVENTORY = enter.INVENTORY
    BY <2>3
  <2> QED BY <1>1, <2>1, <2>2, <2>4 DEF IInv, Types, TypeOK
<1>5. Gates'
  <2>1. /\ PlayerAt \in {"IN_395LAB"} => loc["ICARD"] \in {"IN_395LAB"} \cup {"INVENTORY"}
        /\ PlayerAt \in Csl => loc["ICARD"] \in Csl \cup {"INVENTORY"}
        /\ PlayerAt \in Beckman => loc["ROBOT_LIVE"] \in Beckman \cup {"INVENTORY"}
        /\ PlayerAt \in Allerton => loc["GPS_GOOD"] \in Allerton \cup {"INVENTORY"}
    BY DEF IInv, Gates, GateKept
  <2>2. /\ PlayerAt \in {"IN_395LAB"} => loc'["ICARD"] \in {"IN_395LAB"} \cup {"INVENTORY"}
        /\ PlayerAt \in Csl => loc'["ICARD"] \in Csl \cup {"INVENTORY"}
        /\ PlayerAt \in Beckman => loc'["ROBOT_LIVE"] \in Beckman \cup {"INVENTORY"}
        /\ PlayerAt \in Allerton => loc'["GPS_GOOD"] \in Allerton \cup {"INVENTORY"}
    BY <2>1 DEF Kept
  <2>3. PlayerAt = "IN_CLEANR" => "WEARING_SUIT" \in flags'
    BY DEF IInv, Gates, GateKept, IsSet
  <2>4. PlayerAt \in Air => enter'.COCKPIT # NONE
    BY DEF IInv, Gates, GateKept, NONE
  <2>5. PlayerAt \in Allerton => "CAR_FIXED" \in flags'
    BY DEF IInv, Gates, IsSet
  <2> QED BY <1>1, <2>2, <2>3, <2>4, <2>5 DEF Gates, GateKept, IsSet
<1>6. Screen' /\ WonProperly'
  BY <1>3 DEF Screen, WonProperly
<1> QED BY <1>4, <1>5, <1>6 DEF IInv

\* buy, drink and sigh.
LEMMA BuyOK ==
  ASSUME IInv, where # WON, NEW arg, typed_cmd_buy(arg) \/ typed_cmd_drink(arg) \/ typed_cmd_sigh
  PROVE  IInv'
<1>1. loc \in [Objects -> Rooms \cup {NONE}] /\ flags \subseteq Flags /\ newBook \in Books \cup {NONE}
      /\ hood \in BOOLEAN
  BY DEF IInv, Types, TypeOK
<1>2. enter \in [INVENTORY : {enter.INVENTORY}, COCKPIT : {enter.COCKPIT, "OVER_WILL"}]
  BY DEF IInv, Types, TypeOK
<1>3. CASE MoveAndSet(loc, "HAS_EATEN") /\ NO_REDRAW /\ UNCHANGED hood
  <2>1. UNCHANGED <<where, loc, newBook, enter, hood, x_speed, y_speed>> /\ flags' = flags \cup {"HAS_EATEN"}
    BY <1>3 DEF MoveAndSet
  <2>2. flags' \subseteq Flags /\ flags \subseteq flags'
    BY <1>1, <2>1 DEF Flags
  <2>3. Battery' /\ OneEach' /\ Quests' /\ SpeedMatches'
    BY <2>1 DEF IInv, Battery, OneEach, Quests, SpeedMatches, Repairing, Placed, IsSet, Carried
  <2> QED BY <1>1, <1>2, <1>3, <2>1, <2>2, <2>3, Command DEF Kept, Drawn
<1>4. ASSUME NEW dest \in {"INVENTORY", NONE}, MoveObjects([loc EXCEPT !["MTN_DEW"] = dest]), REDRAW_ROOM
      PROVE  IInv'
  <2>1. /\ UNCHANGED <<where, newBook, flags, enter, hood, x_speed, y_speed>>
        /\ loc' = [loc EXCEPT !["MTN_DEW"] = dest]
    BY <1>4 DEF MoveObjects
  <2>2. loc' \in [Objects -> Rooms \cup {NONE}]
    BY <1>1, <2>1
  <2>3. \A o \in Objects : o # "MTN_DEW" => loc'[o] = loc[o]
    BY <1>1, <2>1
  <2>4. Battery' /\ OneEach' /\ Quests' /\ SpeedMatches'
    BY <2>1, <2>3, ObjectNames
       DEF IInv, Battery, OneEach, Quests, SpeedMatches, Repairing, Placed, IsSet, Carried
  <2>5. Kept("ICARD") /\ Kept("ROBOT_LIVE") /\ Kept("GPS_GOOD")
    BY <2>3, ObjectNames DEF Kept
  <2> QED BY <1>1, <1>2, <1>4, <2>1, <2>2, <2>4, <2>5, Command DEF Drawn
<1> QED BY <1>3, <1>4 DEF typed_cmd_buy, typed_cmd_drink, typed_cmd_sigh, Put, Remove

\* What the lemmas about the remaining commands start from.
LEMMA Before ==
  ASSUME IInv
  PROVE  /\ loc \in [Objects -> Rooms \cup {NONE}] /\ flags \subseteq Flags
         /\ newBook \in Books \cup {NONE} /\ hood \in BOOLEAN
         /\ enter \in [INVENTORY : {enter.INVENTORY}, COCKPIT : {enter.COCKPIT, "OVER_WILL"}]
BY DEF IInv, Types, TypeOK

\* An object at hand is not in limbo.
LEMMA AtHandPlaced ==
  ASSUME IInv, NEW o, AtHand(o) PROVE Placed(o)
BY DEF IInv, Types, TypeOK, AtHand, Carried, Placed

\* charge: the robot let the player in to the MRI.
LEMMA ChargeOK ==
  ASSUME IInv, where # WON, NEW arg, typed_cmd_charge(arg) PROVE IInv'
<1>1. /\ UNCHANGED <<where, newBook, flags, enter, hood, x_speed, y_speed>>
      /\ loc' = [[loc EXCEPT !["BATT_EMPTY"] = NONE] EXCEPT !["BATT_FULL"] = "INVENTORY"]
      /\ where = "BECK_MRI" /\ AtHand("BATT_EMPTY") /\ REDRAW_ROOM
  BY DEF typed_cmd_charge, MoveObjects, Put, Remove
<1>2. loc' \in [Objects -> Rooms \cup {NONE}]
  BY <1>1, Before
<1>3. /\ \A o \in Objects \ {"BATT_EMPTY", "BATT_FULL"} : loc'[o] = loc[o]
      /\ loc'["BATT_EMPTY"] = NONE /\ loc'["BATT_FULL"] = "INVENTORY"
  BY <1>1, Before, ObjectNames
<1>4. Placed("BATT_EMPTY")
  BY <1>1, AtHandPlaced
<1>5. Battery'
  BY <1>1, <1>3, <1>4, ObjectNames DEF IInv, Battery, Repairing, Placed, IsSet
<1>6. Placed("ROBOT_LIVE")
  BY <1>1 DEF IInv, Gates, GateKept, Beckman, PlayerAt, Placed, NONE
<1>7. OneEach' /\ Quests' /\ SpeedMatches'
  BY <1>1, <1>3, <1>6, ObjectNames DEF IInv, OneEach, Quests, SpeedMatches, Placed, IsSet, Carried
<1>8. Kept("ICARD") /\ Kept("ROBOT_LIVE") /\ Kept("GPS_GOOD")
  BY <1>3, ObjectNames DEF Kept
<1> QED BY <1>1, <1>2, <1>5, <1>7, <1>8, Before, Command DEF Drawn

\* fix: whoever is in the clean room wears the suit.
LEMMA FixOK ==
  ASSUME IInv, where # WON, NEW arg, typed_cmd_fix(arg) PROVE IInv'
<1>1. /\ UNCHANGED <<where, newBook, flags, enter, hood, x_speed, y_speed>>
      /\ loc' = [[[loc EXCEPT !["GPS_BAD"] = NONE] EXCEPT !["GPS_SPEC"] = NONE]
                   EXCEPT !["GPS_GOOD"] = "INVENTORY"]
      /\ where = "IN_CLEANR" /\ CHANGE_ROOM
  BY DEF typed_cmd_fix, MoveObjects, Put, Remove
<1>2. loc' \in [Objects -> Rooms \cup {NONE}]
  BY <1>1, Before
<1>3. /\ \A o \in Objects \ {"GPS_BAD", "GPS_SPEC", "GPS_GOOD"} : loc'[o] = loc[o]
      /\ loc'["GPS_BAD"] = NONE /\ loc'["GPS_GOOD"] = "INVENTORY"
  BY <1>1, Before, ObjectNames
<1>4. Battery' /\ OneEach' /\ SpeedMatches'
  BY <1>1, <1>3, ObjectNames
     DEF IInv, Battery, OneEach, SpeedMatches, Repairing, Placed, IsSet, Carried
<1>5. IsSet("WEARING_SUIT")
  BY <1>1 DEF IInv, Gates, GateKept, PlayerAt
<1>6. Quests'
  BY <1>1, <1>3, <1>5, ObjectNames DEF IInv, Quests, Placed, IsSet, NONE
<1>7. Kept("ICARD") /\ Kept("ROBOT_LIVE") /\ Kept("GPS_GOOD")
  BY <1>3, ObjectNames DEF Kept
<1> QED BY <1>1, <1>2, <1>4, <1>6, <1>7, Before, Command DEF Drawn

\* flash.
LEMMA FlashOK ==
  ASSUME IInv, where # WON, NEW arg, typed_cmd_flash(arg) PROVE IInv'
<1>1. /\ UNCHANGED <<where, newBook, flags, enter, hood, x_speed, y_speed>>
      /\ loc' = [[loc EXCEPT !["ROBOT_DEAD"] = NONE] EXCEPT !["ROBOT_LIVE"] = "INVENTORY"]
      /\ REDRAW_ROOM
  BY DEF typed_cmd_flash, MoveObjects, Put, Remove
<1>2. loc' \in [Objects -> Rooms \cup {NONE}]
  BY <1>1, Before
<1>3. /\ \A o \in Objects \ {"ROBOT_DEAD", "ROBOT_LIVE"} : loc'[o] = loc[o]
      /\ loc'["ROBOT_DEAD"] = NONE /\ loc'["ROBOT_LIVE"] = "INVENTORY"
  BY <1>1, Before, ObjectNames
<1>4. Battery' /\ OneEach' /\ Quests' /\ SpeedMatches'
  BY <1>1, <1>3, ObjectNames
     DEF IInv, Battery, OneEach, Quests, SpeedMatches, Repairing, Placed, IsSet, Carried, NONE
<1>5. Kept("ICARD") /\ Kept("ROBOT_LIVE") /\ Kept("GPS_GOOD")
  BY <1>3, ObjectNames DEF Kept
<1> QED BY <1>1, <1>2, <1>4, <1>5, Before, Command DEF Drawn

\* wear.
LEMMA WearOK ==
  ASSUME IInv, where # WON, NEW arg, typed_cmd_wear(arg) PROVE IInv'
<1>1. /\ UNCHANGED <<where, newBook, enter, hood, x_speed, y_speed>>
      /\ loc' = [loc EXCEPT !["BUNNYSUIT"] = NONE] /\ flags' = flags \cup {"WEARING_SUIT"}
      /\ REDRAW_ROOM
  BY DEF typed_cmd_wear, MoveAndSet, Remove
<1>2. /\ loc' \in [Objects -> Rooms \cup {NONE}]
      /\ flags' \subseteq Flags /\ flags \subseteq flags'
  BY <1>1, Before DEF Flags
<1>3. \A o \in Objects \ {"BUNNYSUIT"} : loc'[o] = loc[o]
  BY <1>1, Before
<1>4. Battery' /\ OneEach' /\ Quests' /\ SpeedMatches'
  BY <1>1, <1>3, ObjectNames
     DEF IInv, Battery, OneEach, Quests, SpeedMatches, Repairing, Placed, IsSet, Carried
<1>5. Kept("ICARD") /\ Kept("ROBOT_LIVE") /\ Kept("GPS_GOOD")
  BY <1>3, ObjectNames DEF Kept
<1> QED BY <1>1, <1>2, <1>4, <1>5, Before, Command DEF Drawn

\* install the battery: it was the only one, so none is left.
LEMMA InstallBatteryOK ==
  ASSUME IInv, where # WON, NEW arg, InstallBattery(arg) PROVE IInv'
<1>1. /\ UNCHANGED <<where, newBook, enter, x_speed, y_speed>>
      /\ loc' = [loc EXCEPT !["BATT_FULL"] = NONE] /\ flags' = flags \cup {"CAR_FIXED"}
      /\ hood' = ~hood /\ AtHand("BATT_FULL") /\ CHANGE_ROOM
  BY DEF InstallBattery, MoveAndSet, Remove
<1>2. /\ loc' \in [Objects -> Rooms \cup {NONE}] /\ hood' \in BOOLEAN
      /\ flags' \subseteq Flags /\ flags \subseteq flags'
  BY <1>1, Before DEF Flags
<1>3. /\ \A o \in Objects \ {"BATT_FULL"} : loc'[o] = loc[o]
      /\ loc'["BATT_FULL"] = NONE
  BY <1>1, Before, ObjectNames
<1>4. Placed("BATT_FULL")
  BY <1>1, AtHandPlaced
<1>5. Repairing /\ ~Placed("BATT_CAR") /\ ~Placed("BATT_EMPTY") /\ Placed("ROBOT_LIVE") /\ hood
  BY <1>4 DEF IInv, Battery, Quests
<1>6. Battery'
  BY <1>1, <1>3, <1>5, ObjectNames DEF IInv, Battery, Repairing, Placed, IsSet
<1>7. OneEach' /\ Quests' /\ SpeedMatches'
  BY <1>1, <1>3, <1>5, ObjectNames DEF IInv, OneEach, Quests, SpeedMatches, Placed, IsSet, Carried
<1>8. Kept("ICARD") /\ Kept("ROBOT_LIVE") /\ Kept("GPS_GOOD")
  BY <1>3, ObjectNames DEF Kept
<1> QED BY <1>1, <1>2, <1>6, <1>7, <1>8, Before, Command DEF Drawn

\* install the card: it has been fetched from the statue at Allerton.
LEMMA InstallCardOK ==
  ASSUME IInv, where # WON, NEW arg, InstallCard(arg) PROVE IInv'
<1>1. /\ UNCHANGED <<where, newBook, flags, hood, x_speed, y_speed>>
      /\ loc' = [loc EXCEPT !["MIMO_CARD"] = NONE]
      /\ enter' = [enter EXCEPT !.COCKPIT = "OVER_WILL"]
      /\ where = "COCKPIT" /\ AtHand("MIMO_CARD") /\ REDRAW_ROOM
  BY DEF InstallCard, Remove
<1>2. loc' \in [Objects -> Rooms \cup {NONE}]
  BY <1>1, Before
<1>3. /\ enter'.COCKPIT = "OVER_WILL"
      /\ enter' \in [INVENTORY : {enter.INVENTORY}, COCKPIT : {enter.COCKPIT, "OVER_WILL"}]
  BY <1>1, Before
<1>4. \A o \in Objects \ {"MIMO_CARD"} : loc'[o] = loc[o]
  BY <1>1, Before
<1>5. Battery' /\ OneEach' /\ SpeedMatches'
  BY <1>1, <1>4, ObjectNames
     DEF IInv, Battery, OneEach, SpeedMatches, Repairing, Placed, IsSet, Carried
<1>6. IsSet("CAR_FIXED") /\ Placed("GPS_GOOD")
  <2>1. loc["MIMO_CARD"] # "STATUE"
    BY <1>1 DEF AtHand, Carried
  <2> QED BY <2>1 DEF IInv, Quests
<1>7. Quests'
  BY <1>1, <1>3, <1>4, <1>6, ObjectNames DEF IInv, Quests, Placed, IsSet, NONE
<1>8. Kept("ICARD") /\ Kept("ROBOT_LIVE") /\ Kept("GPS_GOOD")
  BY <1>4, ObjectNames DEF Kept
<1> QED BY <1>1, <1>2, <1>3, <1>5, <1>7, <1>8, Before, Command DEF Drawn

\* use the car: opened once, with the key, which is used up.
LEMMA UseCarOK ==
  ASSUME IInv, where # WON, NEW arg, UseCar(arg) PROVE IInv'
<1>1. /\ UNCHANGED <<where, newBook, enter, x_speed, y_speed>>
      /\ loc' = [[loc EXCEPT !["CAR_KEY"] = NONE] EXCEPT !["BATT_CAR"] = "CAR_SITE"]
      /\ flags' = flags \cup {"CAR_OPEN"}
      /\ hood' = ~hood /\ ~IsSet("CAR_OPEN") /\ ~IsSet("CAR_FIXED") /\ CHANGE_ROOM
  BY DEF UseCar, MoveAndSet, Put, Remove
<1>2. /\ loc' \in [Objects -> Rooms \cup {NONE}] /\ hood' \in BOOLEAN
      /\ flags' \subseteq Flags /\ flags \subseteq flags'
  BY <1>1, Before DEF Flags
<1>3. /\ \A o \in Objects \ {"CAR_KEY", "BATT_CAR"} : loc'[o] = loc[o]
      /\ loc'["CAR_KEY"] = NONE /\ loc'["BATT_CAR"] = "CAR_SITE"
  BY <1>1, Before, ObjectNames
<1>4. ~Repairing /\ ~Placed("BATT_EMPTY") /\ ~Placed("BATT_FULL") /\ ~hood
  BY <1>1 DEF IInv, Battery, Repairing
<1>5. Battery'
  <2>1. Repairing' /\ hood'
    BY <1>1, <1>4 DEF Repairing, IsSet
  <2>2. Placed("BATT_CAR")' /\ ~Placed("BATT_EMPTY")' /\ ~Placed("BATT_FULL")' /\ ~Placed("CAR_KEY")'
    BY <1>3, <1>4, ObjectNames DEF Placed, NONE
  <2> QED BY <1>3, <2>1, <2>2 DEF Battery, Repairing
<1>6. OneEach' /\ Quests' /\ SpeedMatches'
  BY <1>1, <1>3, ObjectNames DEF IInv, OneEach, Quests, SpeedMatches, Placed, IsSet, Carried
<1>7. Kept("ICARD") /\ Kept("ROBOT_LIVE") /\ Kept("GPS_GOOD")
  BY <1>3, ObjectNames DEF Kept
<1> QED BY <1>1, <1>2, <1>5, <1>6, <1>7, Before, Command DEF Drawn

\* use the fish: whoever is in the lab on the ice came by plane.
LEMMA UseFishOK ==
  ASSUME IInv, where # WON, NEW arg, UseFish(arg) PROVE IInv'
<1>1. /\ UNCHANGED <<where, newBook, enter, hood, x_speed, y_speed>>
      /\ loc' = [[loc EXCEPT !["FISH"] = NONE] EXCEPT !["TUX"] = "INVENTORY"]
      /\ flags' = flags \cup {"LURED_TUX"}
      /\ where = "REM_LAB" /\ REDRAW_ROOM
  BY DEF UseFish, MoveAndSet, Put, Remove
<1>2. /\ loc' \in [Objects -> Rooms \cup {NONE}]
      /\ flags' \subseteq Flags /\ flags \subseteq flags'
  BY <1>1, Before DEF Flags
<1>3. \A o \in Objects \ {"FISH", "TUX"} : loc'[o] = loc[o]
  BY <1>1, Before, ObjectNames
<1>4. Battery' /\ OneEach' /\ SpeedMatches'
  BY <1>1, <1>3, ObjectNames
     DEF IInv, Battery, OneEach, SpeedMatches, Repairing, Placed, IsSet, Carried
<1>5. enter.COCKPIT # NONE
  BY <1>1 DEF IInv, Gates, GateKept, PlayerAt, Air
<1>6. Quests'
  BY <1>1, <1>3, <1>5, ObjectNames DEF IInv, Quests, Placed, IsSet
<1>7. Kept("ICARD") /\ Kept("ROBOT_LIVE") /\ Kept("GPS_GOOD")
  BY <1>3, ObjectNames DEF Kept
<1> QED BY <1>1, <1>2, <1>4, <1>6, <1>7, Before, Command DEF Drawn

\* The player stands in a room.
LEMMA Standing ==
  ASSUME IInv, where # WON PROVE PlayerAt \in Rooms \ {"INVENTORY"}
<1>1. CASE where = "INVENTORY"
  BY <1>1 DEF IInv, Types, TypeOK, PlayerAt
<1>2. CASE where # "INVENTORY"
  BY <1>2 DEF IInv, Types, TypeOK, PlayerAt
<1> QED BY <1>1, <1>2

\* An object is taken from or put down in the room one stands in.
LEMMA Carry ==
  ASSUME IInv, where # WON, NEW o \in Objects, o # "BATT_CAR",
         o = "TUX" => IsSet("LURED_TUX"),
         loc[o] \in {PlayerAt, "INVENTORY"}, NEW dest \in {PlayerAt, "INVENTORY"},
         loc' = [loc EXCEPT ![o] = dest], newBook' \in Books \cup {NONE},
         UNCHANGED <<where, flags, enter, hood>>, SpeedMatches', REDRAW_ROOM
  PROVE  IInv'
<1>1. PlayerAt \in Rooms /\ PlayerAt # NONE /\ loc[o] # NONE /\ dest # NONE
  BY Standing
<1>2. loc' \in [Objects -> Rooms \cup {NONE}]
  BY <1>1, Before
<1>3. (\A p \in Objects \ {o} : loc'[p] = loc[p]) /\ loc'[o] = dest
  BY Before
<1>4. \A p \in Objects : Placed(p)' <=> Placed(p)
  BY <1>1, <1>3 DEF Placed
<1>5. loc'["BATT_CAR"] = loc["BATT_CAR"]
  BY <1>3, ObjectNames
<1>6. Battery'
  BY <1>4, <1>5, ObjectNames DEF IInv, Battery, Repairing, IsSet
<1>7. OneEach'
  BY <1>4, ObjectNames DEF IInv, OneEach
<1>8. Quests'
  <2>1. loc["MIMO_CARD"] = loc'["MIMO_CARD"] \/ (IsSet("CAR_FIXED") /\ Placed("GPS_GOOD"))
    <3>1. CASE o # "MIMO_CARD"
      BY <1>3, <3>1, ObjectNames
    <3>2. CASE loc["MIMO_CARD"] # "STATUE"
      BY <3>2 DEF IInv, Quests
    <3>3. CASE o = "MIMO_CARD" /\ loc["MIMO_CARD"] = "STATUE"
      <4>1. PlayerAt = "STATUE"
        BY <3>3
      <4>2. PlayerAt \in Allerton
        BY <4>1 DEF Allerton
      <4>3. IsSet("CAR_FIXED") /\ loc["GPS_GOOD"] \in Allerton \cup {"INVENTORY"}
        BY <4>2 DEF IInv, Gates, GateKept
      <4> QED BY <4>3 DEF Placed, Allerton, NONE
    <3> QED BY <3>1, <3>2, <3>3
  <2>2. ~IsSet("LURED_TUX") => loc'["TUX"] = loc["TUX"]
    BY <1>3, ObjectNames
  <2> QED BY <1>4, <2>1, <2>2, ObjectNames DEF IInv, Quests, IsSet
<1>9. Kept("ICARD") /\ Kept("ROBOT_LIVE") /\ Kept("GPS_GOOD")
  BY <1>3, ObjectNames DEF Kept
<1> QED BY <1>2, <1>6, <1>7, <1>8, <1>9, Before, Command DEF Drawn

\* drop, and the speeds.
LEMMA DropOK ==
  ASSUME IInv, where # WON, NEW arg, typed_cmd_drop(arg) PROVE IInv'
<1> DEFINE obj == find_in_room("INVENTORY", arg)
<1>1. obj \in Objects /\ loc[obj] = "INVENTORY"
  BY Found, Before DEF typed_cmd_drop
<1> HIDE DEF obj
<1>2. /\ loc' = [loc EXCEPT ![obj] = PlayerAt]
      /\ newBook' = IF obj \in Books THEN obj ELSE newBook
      /\ x_speed' = IF loc'["BOARD"] # "INVENTORY" THEN 1 ELSE x_speed
      /\ y_speed' = IF loc'["JETPACK"] # "INVENTORY" THEN 1 ELSE y_speed
      /\ UNCHANGED <<where, flags, enter, hood>> /\ REDRAW_ROOM
  BY DEF typed_cmd_drop, obj, Put
<1>3. obj # "BATT_CAR"
  BY <1>1 DEF IInv, Battery, NONE
<1>4. obj = "TUX" => IsSet("LURED_TUX")
  BY <1>1 DEF IInv, Quests
<1>5. PlayerAt # "INVENTORY"
  BY Standing
<1>6. SpeedMatches'
  <2>1. loc'["BOARD"] = loc["BOARD"] \/ loc'["BOARD"] # "INVENTORY"
    BY <1>2, <1>5, Before, ObjectNames
  <2>2. loc'["JETPACK"] = loc["JETPACK"] \/ loc'["JETPACK"] # "INVENTORY"
    BY <1>2, <1>5, Before, ObjectNames
  <2> QED BY <1>2, <2>1, <2>2 DEF IInv, SpeedMatches, Carried
<1>7. newBook' \in Books \cup {NONE}
  BY <1>2, Before
<1> QED BY <1>1, <1>2, <1>3, <1>4, <1>6, <1>7, Carry

\* get: from the contents of the room, a book of the reserve, or the battery
\* out of the car.
LEMMA GetOK ==
  ASSUME IInv, where # WON, NEW arg, typed_cmd_get(arg) PROVE IInv'
<1> DEFINE special == obj_special_get(PlayerAt, arg)
           obj == IF special # NONE THEN special ELSE find_in_room(PlayerAt, arg)
           refused == obj = NONE \/ (obj = "TUX" /\ ~IsSet("LURED_TUX"))
           rest == IF obj = "BATT_EMPTY" /\ special = obj THEN Remove(loc, "BATT_CAR") ELSE loc
<1>1. /\ loc' = IF refused THEN loc ELSE Put(rest, obj, "INVENTORY")
      /\ newBook' = IF ~refused /\ obj \in Books THEN obj ELSE newBook
      /\ IF refused THEN NO_REDRAW ELSE REDRAW_ROOM
      /\ x_speed' = IF loc'["BOARD"] = "INVENTORY" THEN 3 ELSE x_speed
      /\ y_speed' = IF loc'["JETPACK"] = "INVENTORY" THEN 3 ELSE y_speed
      /\ UNCHANGED <<where, flags, enter, hood>>
  BY DEF typed_cmd_get
<1>2. special = NONE => obj = NONE \/ (obj \in Objects /\ loc[obj] = PlayerAt)
  BY Found, Before
<1>3. special # NONE => obj = special
  OBVIOUS
<1>4. \/ special = NONE
      \/ special = "BOOK_C" /\ IsSet("HAS_EATEN") /\ loc["BOOK_C"] = NONE
      \/ special = "BOOK_WODE" /\ loc["BOOK_WODE"] = NONE
      \/ special = "BATT_EMPTY" /\ PlayerAt = "CAR_SITE" /\ loc["BATT_CAR"] = "CAR_SITE"
  BY DEF obj_special_get
<1>5. PlayerAt = "CAR_SITE" /\ loc["BATT_CAR"] = "CAR_SITE" => special = "BATT_EMPTY"
  BY DEF obj_special_get
<1> HIDE DEF special, obj
<1>6. newBook' \in Books \cup {NONE}
  BY <1>1, Before
<1>7. SpeedMatches'
  <2>1. loc'["BOARD"] = loc["BOARD"] \/ loc'["BOARD"] = "INVENTORY"
    BY <1>1, Before, ObjectNames DEF Put, Remove
  <2>2. loc'["JETPACK"] = loc["JETPACK"] \/ loc'["JETPACK"] = "INVENTORY"
    BY <1>1, Before, ObjectNames DEF Put, Remove
  <2> QED BY <1>1, <2>1, <2>2 DEF IInv, SpeedMatches, Carried
<1>8. CASE refused
  <2>1. loc' = loc /\ NO_REDRAW
    BY <1>1, <1>8
  <2>2. Battery' /\ OneEach' /\ Quests'
    BY <1>1, <2>1 DEF IInv, Battery, OneEach, Quests, Repairing, Placed, IsSet
  <2> QED BY <1>1, <1>6, <1>7, <2>1, <2>2, Before, Command DEF Drawn, Kept
<1>9. CASE ~refused /\ special = NONE
  <2>1. obj \in Objects /\ loc[obj] = PlayerAt
    BY <1>2, <1>9
  <2>2. obj = "TUX" => IsSet("LURED_TUX")
    BY <1>9
  <2>3. obj # "BATT_CAR"
    BY <1>5, <1>9, <2>1, Standing DEF IInv, Battery, NONE
  <2>4. loc' = [loc EXCEPT ![obj] = "INVENTORY"] /\ REDRAW_ROOM
    BY <1>1, <1>9, <2>1, ObjectNames DEF Put
  <2> QED BY <1>1, <1>6, <1>7, <2>1, <2>2, <2>3, <2>4, Carry
<1>10. CASE ~refused /\ special \in Books
  <2>1. /\ loc' = [loc EXCEPT ![special] = "INVENTORY"] /\ REDRAW_ROOM
        /\ special = "BOOK_C" => IsSet("HAS_EATEN")
    BY <1>1, <1>3, <1>4, <1>10 DEF Put, Books, NONE
  <2>2. loc' \in [Objects -> Rooms \cup {NONE}]
    BY <2>1, Before
  <2>3. \A p \in Objects \ Books : loc'[p] = loc[p]
    BY <1>10, <2>1, Before
  <2>4. loc'["BOOK_C"] = loc["BOOK_C"] \/ IsSet("HAS_EATEN")
    BY <1>10, <2>1, Before, ObjectNames DEF Books
  <2>5. Battery' /\ OneEach' /\ Quests'
    BY <1>1, <2>3, <2>4, ObjectNames DEF IInv, Battery, OneEach, Quests, Repairing, Placed, IsSet, Books
  <2>6. Kept("ICARD") /\ Kept("ROBOT_LIVE") /\ Kept("GPS_GOOD")
    BY <2>3, ObjectNames DEF Kept, Books
  <2> QED BY <1>1, <1>6, <1>7, <2>1, <2>2, <2>5, <2>6, Before, Command DEF Drawn
<1>11. CASE ~refused /\ special = "BATT_EMPTY"
  <2>1. /\ loc' = [[loc EXCEPT !["BATT_CAR"] = NONE] EXCEPT !["BATT_EMPTY"] = "INVENTORY"]
        /\ REDRAW_ROOM /\ loc["BATT_CAR"] = "CAR_SITE"
    BY <1>1, <1>3, <1>4, <1>11 DEF Put, Remove, NONE
  <2>2. loc' \in [Objects -> Rooms \cup {NONE}]
    BY <2>1, Before
  <2>3. /\ \A p \in Objects \ {"BATT_CAR", "BATT_EMPTY"} : loc'[p] = loc[p]
        /\ loc'["BATT_CAR"] = NONE /\ loc'["BATT_EMPTY"] = "INVENTORY"
    BY <2>1, Before, ObjectNames
  <2>4. Placed("BATT_CAR")
    BY <2>1 DEF Placed
  <2>5. Battery'
    BY <1>1, <2>3, <2>4, ObjectNames DEF IInv, Battery, Repairing, Placed, IsSet
  <2>6. OneEach' /\ Quests'
    BY <1>1, <2>3, ObjectNames DEF IInv, OneEach, Quests, Placed, IsSet
  <2>7. Kept("ICARD") /\ Kept("ROBOT_LIVE") /\ Kept("GPS_GOOD")
    BY <2>3, ObjectNames DEF Kept
  <2> QED BY <1>1, <1>6, <1>7, <2>1, <2>2, <2>5, <2>6, <2>7, Before, Command DEF Drawn
<1> QED BY <1>4, <1>8, <1>9, <1>10, <1>11 DEF Books

-----------------------------------------------------------------------------
(* The theorems. *)

\* The world as built.
LEMMA InitOK == Init => IInv
<1> SUFFICES ASSUME Init PROVE IInv
  OBVIOUS
<1>1. loc \in [Objects -> Rooms \cup {NONE}]
  BY Starts DEF Init
<1>2. Types /\ Screen
  <2>1. shown = ScreenOf(where, loc, hood) /\ shown \in [room : Rooms, open : BOOLEAN, objs : SUBSET Objects]
    BY DEF Init, ScreenOf, In
  <2> QED BY <1>1, <2>1 DEF Init, Types, TypeOK, Screen
<1>3. \A o \in Objects : loc[o] = obj_data[o][2]
  BY DEF Init
<1>4. /\ loc["BATT_CAR"] = NONE /\ loc["BATT_EMPTY"] = NONE /\ loc["BATT_FULL"] = NONE
      /\ loc["CAR_KEY"] = "CARIBOU" /\ loc["GPS_GOOD"] = NONE /\ loc["ROBOT_LIVE"] = NONE
      /\ loc["BOOK_C"] = NONE /\ loc["MIMO_CARD"] = "STATUE" /\ loc["TUX"] = "REM_LAB"
      /\ loc["BOARD"] = "IN_IEEE" /\ loc["JETPACK"] = "TALBOT"
  BY <1>3, ObjectNames DEF obj_data
<1>5. flags = {} /\ hood = FALSE /\ where = "EAST_EVRT" /\ PlayerAt = "EAST_EVRT" /\ enter.COCKPIT = NONE
      /\ x_speed = 1 /\ y_speed = 1
  BY DEF Init, PlayerAt
<1>6. Battery /\ OneEach /\ Quests /\ SpeedMatches
  BY <1>4, <1>5 DEF Battery, OneEach, Quests, SpeedMatches, Repairing, Placed, IsSet, Carried, NONE
<1>7. Gates /\ WonProperly
  BY <1>5 DEF Gates, GateKept, WonProperly, Csl, Beckman, Allerton, Air, WON
<1> QED BY <1>2, <1>6, <1>7 DEF IInv

\* Every command.
LEMMA NextOK ==
  ASSUME WorldAssumption, player \in Players, IInv, Next PROVE IInv'
<1>1. CASE try_to_move_left \/ try_to_enter \/ try_to_move_right
  BY <1>1, MovesOK DEF Next
<1>2. ASSUME NEW arg,
             \/ typed_cmd_buy(arg) \/ typed_cmd_charge(arg) \/ typed_cmd_do(arg)
             \/ typed_cmd_drink(arg) \/ typed_cmd_fix(arg) \/ typed_cmd_flash(arg)
             \/ typed_cmd_get(arg) \/ typed_cmd_go(arg) \/ typed_cmd_install(arg)
             \/ typed_cmd_use(arg) \/ typed_cmd_wear(arg)
      PROVE  IInv'
  <2>1. where # WON
    BY DEF Next
  <2>2. CASE typed_cmd_buy(arg) \/ typed_cmd_drink(arg)
    BY <2>1, <2>2, BuyOK
  <2>3. CASE typed_cmd_install(arg)
    BY <2>1, <2>3, InstallBatteryOK, InstallCardOK DEF typed_cmd_install
  <2>4. CASE typed_cmd_use(arg)
    BY <2>1, <2>4, UseCarOK, UseFishOK DEF typed_cmd_use
  <2>5. CASE typed_cmd_charge(arg) \/ typed_cmd_fix(arg) \/ typed_cmd_flash(arg) \/ typed_cmd_wear(arg)
    BY <2>1, <2>5, ChargeOK, FixOK, FlashOK, WearOK
  <2>6. CASE typed_cmd_do(arg) \/ typed_cmd_get(arg) \/ typed_cmd_go(arg)
    BY <2>1, <2>6, DoOK, GetOK, GoOK
  <2> QED BY <1>2, <2>2, <2>3, <2>4, <2>5, <2>6
<1>3. ASSUME NEW arg, typed_cmd_drop(arg) PROVE IInv'
  BY <1>3, DropOK DEF Next
<1>4. CASE typed_cmd_inventory
  BY <1>4, InventoryOK
<1>5. CASE typed_cmd_sigh
  BY <1>5, BuyOK DEF Next
<1> QED BY <1>1, <1>2, <1>3, <1>4, <1>5 DEF Next, handle_typing

\* The invariant holds always.
LEMMA Inductive == Spec => [](player \in Players /\ IInv)
<1>1. Init => player \in Players /\ IInv
  BY InitOK DEF Init
<1>2. player \in Players /\ IInv /\ [Next]_vars => (player \in Players /\ IInv)'
  <2> SUFFICES ASSUME player \in Players, IInv, [Next]_vars PROVE (player \in Players /\ IInv)'
    OBVIOUS
  <2>1. CASE Next
    BY <2>1, NextOK, WorldAssumption DEF Next
  <2>2. CASE UNCHANGED vars
    BY <2>2 DEF vars, IInv, Types, TypeOK, Battery, OneEach, Gates, GateKept, Quests, SpeedMatches, Screen,
                WonProperly, Repairing, Placed, IsSet, Carried, PlayerAt
  <2> QED BY <2>1, <2>2
<1> QED BY <1>1, <1>2, PTL DEF Spec

\* Whatever is typed in whatever room, nobody wins without all the quests.
THEOREM NoQuestSkipped == Spec => []WonProperly
<1>1. IInv => WonProperly
  BY DEF IInv
<1> QED BY <1>1, Inductive, PTL

\* After every command the screen shows the room in view as it is, and every
\* variable has its type.
THEOREM ScreenFollows == Spec => []ScreenCurrent
<1>1. IInv => ScreenCurrent
  BY DEF IInv, Types, Screen, ScreenCurrent
<1> QED BY <1>1, Inductive, PTL

\* Nobody is behind a door without its key, wherever things are dropped.
THEOREM GatesKept == Spec => []GateKept
<1>1. IInv => GateKept
  BY DEF IInv, Gates
<1> QED BY <1>1, Inductive, PTL

\* The speeds of panning follow the board and the jetpack.
THEOREM SpeedsFollow == Spec => []SpeedMatches
<1>1. IInv => SpeedMatches
  BY DEF IInv
<1> QED BY <1>1, Inductive, PTL

\* The three battery objects, the key, the two flags of the car and its photo
\* tell one story.
THEOREM BatteryUnique == Spec => []OneBattery
<1>1. IInv => OneBattery
  <2> SUFFICES ASSUME Battery PROVE OneBattery
    BY DEF IInv
  <2>1. CASE Repairing
    <3>1. PICK b \in Batteries : PlacedOf(Batteries) = {b}
      BY <2>1 DEF Battery, PlacedOf, Batteries
    <3>2. Cardinality(PlacedOf(Batteries)) = 1
      BY <3>1, FS_Singleton
    <3> QED BY <2>1, <3>2 DEF Battery, OneBattery, Repairing
  <2>2. CASE ~Repairing
    <3>1. PlacedOf(Batteries) = {}
      BY <2>2 DEF Battery, PlacedOf, Batteries
    <3>2. Cardinality(PlacedOf(Batteries)) = 0
      BY <3>1, FS_EmptySet
    <3> QED BY <2>2, <3>2 DEF Battery, OneBattery, Repairing
  <2> QED BY <2>1, <2>2
<1> QED BY <1>1, Inductive, PTL

\* A name typed by the player means one object in a place, or a book.
THEOREM NamesUnambiguous == Spec => []Unambiguous
<1>1. IInv => Unambiguous
  <2> SUFFICES ASSUME Battery, OneEach, NEW o \in Objects, NEW p \in Objects,
                      o # p, NameOf(o) = NameOf(p), Placed(o), loc[o] = loc[p]
               PROVE  {o, p} = Books
    BY DEF IInv, Unambiguous
  <2>1. Placed(p)
    BY DEF Placed
  <2>2. ~(o \in Batteries /\ p \in Batteries)
    BY <2>1 DEF Battery, Batteries
  <2>3. {o, p} # {"GPS_BAD", "GPS_GOOD"} /\ {o, p} # {"ROBOT_DEAD", "ROBOT_LIVE"}
    BY <2>1 DEF OneEach
  <2> QED BY <2>2, <2>3, SharedNames
<1> QED BY <1>1, Inductive, PTL

=============================================================================
