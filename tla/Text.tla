-------------------------------- MODULE Text --------------------------------
(***************************************************************************)
(* The status bar of mp2: text_to_graphics of text.c and print_status_bar  *)
(* of modex.c.  A letter is where it comes from: a place in the typed      *)
(* command, in the name of the room or in the status message.  Its shape   *)
(* (font_data) is not modelled: dot (m, i) of cell k stands for it.        *)
(***************************************************************************)
EXTENDS Integers

tempstring_len == 40
x_width == 80                 \* addresses in a row of one plane
total_status_addr == 1440     \* addresses of one plane
total_status_pixel == 5760

Blank == <<"blank">>

\* tempstring, from the lengths of the typed command, of the room's name and
\* of the status message (0 when there is none).  The typed command is copied
\* backwards from its end, twenty letters of it even when it is shorter: the
\* rest is what lies before it in memory.  strncpy has filled the message up
\* with zeros, whose shape is blank.
tempstring(written_length, present_room_length, msg_length) ==
  [k \in 0 .. tempstring_len - 1 |->
     IF msg_length > 0
     THEN IF k < msg_length THEN <<"message", k>> ELSE Blank
     ELSE LET j == written_length - (tempstring_len - k)
          IN  IF tempstring_len - k <= 20
              THEN IF j >= 0 THEN <<"typed", j>> ELSE <<"garbage">>
              ELSE IF k < present_room_length THEN <<"room", k>> ELSE Blank]

offset(msg_length) == IF msg_length > 0 THEN (60 - msg_length) \div 2 ELSE 0

\* Where text_to_graphics stores dot m of line i of cell k, and where on the
\* screen print_status_bar shows an address: four planes of 1440 addresses.
DotAddress(k, i, m, msg_length) ==
  x_width + x_width * i + 2 * k + (m % 4) * total_status_addr
    + (IF m <= 3 THEN 0 ELSE 1) + offset(msg_length)

print_status_bar(a) ==
  LET within == a % total_status_addr
  IN  <<4 * (within % x_width) + (a \div total_status_addr), within \div x_width>>

-----------------------------------------------------------------------------
Cells == 0 .. tempstring_len - 1
Dots == (0 .. 15) \X (0 .. 7)

\* Every dot of every message lies inside the buffer on game_loop's stack.
BarFits ==
  \A n \in 0 .. tempstring_len, k \in Cells, d \in Dots :
    DotAddress(k, d[1], d[2], n) \in 0 .. total_status_pixel - 1

\* Letter k is drawn whole, its columns side by side and its lines below each
\* other, eight columns to the right of the letter before it.
Placed(k, n) ==
  \A d \in Dots : print_status_bar(DotAddress(k, d[1], d[2], n))
                    = <<8 * k + d[2] + 4 * offset(n), d[1] + 1>>

\* Without a message every cell is in its place.  A message is, up to 33
\* letters; in a longer one (the longest have 40) the last letters run over
\* the right edge and continue at the left, one line lower.
BarReads ==
  /\ \A k \in Cells : Placed(k, 0)
  /\ \A n \in 1 .. tempstring_len :
       (\A k \in 0 .. n - 1 : Placed(k, n)) <=> n <= 33

\* Without a message, twenty letters of the room's name are at the left, and
\* the typed command ends at the right edge; nothing of it is lost.
BarShows ==
  \A typed \in 0 .. 20, room \in 0 .. tempstring_len :
    LET t == tempstring(typed, room, 0)
    IN  /\ \A j \in 0 .. typed - 1 : t[tempstring_len - typed + j] = <<"typed", j>>
        /\ \A k \in 0 .. 19 : t[k] = IF k < room THEN <<"room", k>> ELSE Blank
=============================================================================
