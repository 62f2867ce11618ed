------------------------------- MODULE ModeX --------------------------------
(***************************************************************************)
(* Scrolling of the room photo in mp2: move_photo_* and redraw_room of     *)
(* adventure.c, the build buffer of modex.c (set_view_window, draw_*_line, *)
(* show_screen) and the callbacks of photo.c that fill a line.             *)
(*                                                                         *)
(* The build buffer holds the view window in four planes, plane 3 first,   *)
(* and the window wanders through the buffer as the player pans: a pan     *)
(* draws only the lines that come into view, everything else is reused.    *)
(* When the window would leave the buffer it is moved back to the middle.  *)
(*                                                                         *)
(* A pixel is its place in the photo or in the image of the object that    *)
(* covers it (one object stands for the list of a room, which the code     *)
(* draws one after the other).  Everything happens in the main thread: an  *)
(* action is the handling of a command up to the show_screen after it.     *)
(***************************************************************************)
EXTENDS Palette

CONSTANTS
  SCROLL_X_WIDTH,   \* addresses in a row of one plane (80 in the source)
  SCROLL_Y_DIM,     \* rows of the screen (182)
  Extra,            \* bytes of the build buffer beyond one screen (20000)
  MEM_FENCE_WIDTH,  \* guard bytes at either end of it (256)
  Files,            \* bound: the photos' files, a sequence
  Objects,          \* bound: places of an object, records x, y, w, h
  Speeds            \* MOTION_SPEED and three times that

SCROLL_X_DIM == 4 * SCROLL_X_WIDTH
SCROLL_SIZE == SCROLL_X_WIDTH * SCROLL_Y_DIM
BUILD_BUF_SIZE == 4 * SCROLL_SIZE + 1 + Extra
BUILD_BASE_INIT == Extra \div 2

ASSUME ScreenAssumption == /\ {SCROLL_X_WIDTH, SCROLL_Y_DIM} \subseteq Nat \ {0}
                           /\ {Extra, MEM_FENCE_WIDTH} \subseteq Nat
                           /\ Speeds \subseteq Nat \ {0}

\* The photos in memory.  build_world reads each of them before the game
\* starts and gives up when it cannot.
Read == Listed([f \in DOMAIN Files |-> read_photo(Files[f])])
Photos == { [id |-> f, w |-> Files[f][1], h |-> Files[f][2]] : f \in DOMAIN Files }

\* Every photo of the game can be read, is at least as large as the screen
\* and has enough colours (320 by 200 pixels and 183 classes at least).
ASSUME PhotoAssumption ==
  /\ Files \in Seq(Seq(WORD))
  /\ \A f \in DOMAIN Files : Read[f] # NULL
  /\ \A f \in DOMAIN Files :
       Cardinality({FourthOf(Files[f][n]) : n \in 3 .. 2 + Files[f][1] * Files[f][2]})
         >= Kept
  /\ \A p \in Photos : /\ p.w \in Nat /\ p.w >= SCROLL_X_DIM
                      /\ p.h \in Nat /\ p.h >= SCROLL_Y_DIM

\* Places and sizes of objects are in pixels.
ASSUME ObjectAssumption == Objects \subseteq [x : Int, y : Int, w : Nat, h : Nat]

VARIABLES
  photo, object,    \* the room in view and the object that lies in it
  map_x, map_y,     \* game_info: upper left corner of the view
  show_x, show_y,   \* the same as modex.c knows it
  img3_off,         \* where pixel (0,0) of plane 3 would be in build
  build,            \* the build buffer and its fence
  screen,           \* the page of video memory that is displayed
  dac               \* the display's colours from 64 on; the ones before are
                    \* the objects', fixed by fill_palette_mode_x

vars == <<photo, object, map_x, map_y, show_x, show_y, img3_off, build, screen,
          dac>>

Buffer == 0 .. BUILD_BUF_SIZE - 1
Memory == -MEM_FENCE_WIDTH .. BUILD_BUF_SIZE + MEM_FENCE_WIDTH - 1
Columns == 0 .. SCROLL_X_DIM - 1
Rows == 0 .. SCROLL_Y_DIM - 1

Smaller(a, b) == IF a < b THEN a ELSE b
Larger(a, b) == IF a < b THEN b ELSE a

Black == <<"black">>
Magic == <<"fence">>
Transparent(imgx, imgy) == imgx = imgy   \* some pixels of an object are

-----------------------------------------------------------------------------
(* photo.c *)

\* A pixel read from the photo's memory; anything outside is garbage.
PhotoPixel(p, x, y) == IF x \in 0 .. p.w - 1 /\ y \in 0 .. p.h - 1
                       THEN <<"photo", p.id, x, y>> ELSE <<"garbage">>

\* The image index of the idx-th pixel of a line from a on, for an object
\* that starts at b: both start at 0, at the larger of a and b.
ImageIndex(a, b, idx) == IF a <= b THEN idx - (b - a) ELSE idx + (a - b)

Covered(under, imgx, imgy) ==
  IF Transparent(imgx, imgy) THEN under ELSE <<"object", imgx, imgy>>

\* prep_room writes the photo's whole palette to the display.
prep_room(p) ==
  LET palette == Read[p.id].palette
  IN  [c \in 64 .. 127 + Kept |-> Shown(palette[c - 64])]

\* fill_horiz_buffer: the line of pixels from (x,y) to the right.
fill_horiz_buffer(p, o, x, y) ==
  [idx \in Columns |->
     LET under == IF x + idx \in 0 .. p.w - 1 THEN PhotoPixel(p, x + idx, y)
                                              ELSE Black
         imgx == ImageIndex(x, o.x, idx)
     IN  IF \/ y < o.y \/ y >= o.y + o.h
            \/ x + SCROLL_X_DIM <= o.x \/ x >= o.x + o.w
            \/ imgx \notin 0 .. o.w - 1
         THEN under ELSE Covered(under, imgx, y - o.y)]

\* fill_vert_buffer: the line of pixels from (x,y) down.
fill_vert_buffer(p, o, x, y) ==
  [idx \in Rows |->
     LET under == IF y + idx \in 0 .. p.h - 1 THEN PhotoPixel(p, x, y + idx)
                                              ELSE Black
         imgy == ImageIndex(y, o.y, idx)
     IN  IF \/ x < o.x \/ x >= o.x + o.w
            \/ y + SCROLL_Y_DIM <= o.y \/ y >= o.y + o.h
            \/ imgy \notin 0 .. o.h - 1
         THEN under ELSE Covered(under, x - o.x, imgy)]

-----------------------------------------------------------------------------
(* modex.c.  A view is what set_view_window leaves: the window (x, y), its
   offset in the build buffer, and the buffer itself. *)

\* The address of pixel (x,y): its plane, then row and column.
Address(off, x, y) ==
  off + x \div 4 + y * SCROLL_X_WIDTH + (3 - (x % 4)) * SCROLL_SIZE

\* Mutant for FenceIntact: the last address may lie behind the buffer.
Fits_behind(x, y) ==
  /\ img3_off + x \div 4 + y * SCROLL_X_WIDTH >= 0
  /\ img3_off + 3 * SCROLL_SIZE + (x + SCROLL_X_DIM - 1) \div 4
       + (y + SCROLL_Y_DIM - 1) * SCROLL_X_WIDTH <= BUILD_BUF_SIZE

Fits(x, y) ==
  /\ img3_off + x \div 4 + y * SCROLL_X_WIDTH >= 0
  /\ img3_off + 3 * SCROLL_SIZE + (x + SCROLL_X_DIM - 1) \div 4
       + (y + SCROLL_Y_DIM - 1) * SCROLL_X_WIDTH < BUILD_BUF_SIZE

\* The new window shares no pixel with the old one.
Apart(x, y) == \/ x <= show_x - SCROLL_X_DIM \/ x >= show_x + SCROLL_X_DIM
               \/ y <= show_y - SCROLL_Y_DIM \/ y >= show_y + SCROLL_Y_DIM

Centred(x, y) == BUILD_BASE_INIT - x \div 4 - y * SCROLL_X_WIDTH

\* Mutant for ScreenShowsRoom: the copy always starts at the first byte.
CopyBytes_forward(from, to, length) ==
  [i \in Memory |->
     IF i - to \in 0 .. length - 1
     THEN build[from + (IF from < to THEN (i - to) % (to - from) ELSE i - to)]
     ELSE build[i]]

\* length bytes are copied, starting at the end where a byte is read before
\* it is overwritten.
CopyBytes(from, to, length) ==
  [i \in Memory |-> IF i - to \in 0 .. length - 1 THEN build[from + (i - to)]
                                                  ELSE build[i]]

\* What both windows show, and whatever lies between, is moved along.
Retained(x, y) ==
  LET start_off == Larger(x, show_x) \div 4
                     + Larger(y, show_y) * SCROLL_X_WIDTH
      end_x == Smaller(x, show_x) + SCROLL_X_DIM - 1
      end_y == Smaller(y, show_y) + SCROLL_Y_DIM - 1
      length == end_x \div 4 + end_y * SCROLL_X_WIDTH + 1 - start_off
                  + 3 * SCROLL_SIZE
  IN  CopyBytes(img3_off + start_off, Centred(x, y) + start_off, length)

set_view_window(x, y) ==
  [x |-> x, y |-> y,
   off |-> IF Fits(x, y) THEN img3_off ELSE Centred(x, y),
   build |-> IF Fits(x, y) \/ Apart(x, y) THEN build ELSE Retained(x, y)]

\* The buffer after drawing image, a function from pixels of the view to
\* their values.  Different pixels have different addresses.
Drawn(v, image) ==
  LET addr == [q \in DOMAIN image |-> Address(v.off, v.x + q[1], v.y + q[2])]
  IN  [i \in Memory |->
         IF \E q \in DOMAIN image : addr[q] = i
         THEN image[CHOOSE q \in DOMAIN image : addr[q] = i] ELSE v.build[i]]

\* draw_horiz_line and draw_vert_line, for every line in a set of them.
draw_horiz_line(v, p, o, lines) ==
  Drawn(v, [q \in Columns \X (lines \cap Rows) |->
              fill_horiz_buffer(p, o, v.x, v.y + q[2])[q[1]]])

draw_vert_line(v, p, o, lines) ==
  Drawn(v, [q \in (lines \cap Columns) \X Rows |->
              fill_vert_buffer(p, o, v.x + q[1], v.y)[q[2]]])

\* show_screen copies the four planes of the view to those of the display.
show_screen(v, b) ==
  LET p_off == 3 - (v.x % 4)
      addr == v.off + v.x \div 4 + v.y * SCROLL_X_WIDTH
      Plane(i) == addr + ((p_off - i + 4) % 4) * SCROLL_SIZE
                    + (IF p_off < i THEN 1 ELSE 0)
  IN  [q \in Columns \X Rows |->
         b[Plane(q[1] % 4) + q[1] \div 4 + q[2] * SCROLL_X_WIDTH]]

-----------------------------------------------------------------------------
(* adventure.c *)

\* The new window, with b the build buffer after drawing, is shown.
Show(v, b) ==
  /\ map_x' = v.x /\ map_y' = v.y
  /\ show_x' = v.x /\ show_y' = v.y
  /\ img3_off' = v.off
  /\ build' = b
  /\ screen' = show_screen(v, b)

move_photo_down(y_speed) ==
  LET delta == Smaller(y_speed, map_y)
      v == set_view_window(map_x, map_y - delta)
  IN  /\ Show(v, draw_horiz_line(v, photo, object, 0 .. delta - 1))
      /\ UNCHANGED <<photo, object, dac>>

\* Mutant for TypeOK: movement does not stop at the edge of the photo.
move_photo_left_noEdge(x_speed) ==
  LET v == set_view_window(map_x + x_speed, map_y)
  IN  /\ Show(v, draw_vert_line(v, photo, object,
                                SCROLL_X_DIM - x_speed .. SCROLL_X_DIM - 1))
      /\ UNCHANGED <<photo, object, dac>>

move_photo_left(x_speed) ==
  LET delta == Smaller(x_speed, photo.w - SCROLL_X_DIM - map_x)
      v == set_view_window(map_x + delta, map_y)
  IN  /\ Show(v, draw_vert_line(v, photo, object,
                                SCROLL_X_DIM - delta .. SCROLL_X_DIM - 1))
      /\ UNCHANGED <<photo, object, dac>>

move_photo_right(x_speed) ==
  LET delta == Smaller(x_speed, map_x)
      v == set_view_window(map_x - delta, map_y)
  IN  /\ Show(v, draw_vert_line(v, photo, object, 0 .. delta - 1))
      /\ UNCHANGED <<photo, object, dac>>

move_photo_up(y_speed) ==
  LET delta == Smaller(y_speed, photo.h - SCROLL_Y_DIM - map_y)
      v == set_view_window(map_x, map_y + delta)
  IN  /\ Show(v, draw_horiz_line(v, photo, object,
                                 SCROLL_Y_DIM - delta .. SCROLL_Y_DIM - 1))
      /\ UNCHANGED <<photo, object, dac>>

redraw_room(v, p, o) == draw_horiz_line(v, p, o, Rows)

\* Mutant for ColoursConsistent: the room is drawn in the colours of the last one.
EnterRoom_unprepared(p, o) ==
  LET v == set_view_window(0, 0)
  IN  /\ photo' = p /\ object' = o
      /\ Show(v, redraw_room(v, p, o))
      /\ UNCHANGED dac

\* The player enters a room.
EnterRoom(p, o) ==
  LET v == set_view_window(0, 0)
  IN  /\ photo' = p /\ object' = o
      /\ dac' = prep_room(p)
      /\ Show(v, redraw_room(v, p, o))

\* A typed command moved an object: the view stays where it is.
MoveObject(o) ==
  LET v == [x |-> show_x, y |-> show_y, off |-> img3_off, build |-> build]
  IN  /\ object' = o
      /\ Show(v, redraw_room(v, photo, o))
      /\ UNCHANGED <<photo, dac>>

\* After set_mode_X and the first pass of game_loop.
Init ==
  \E p \in Photos, o \in Objects :
    LET empty == [i \in Memory |-> IF i \in Buffer THEN Black ELSE Magic]
        v == [x |-> 0, y |-> 0, off |-> BUILD_BASE_INIT, build |-> empty]
    IN  /\ photo = p /\ object = o
        /\ map_x = 0 /\ map_y = 0 /\ show_x = 0 /\ show_y = 0
        /\ img3_off = BUILD_BASE_INIT
        /\ build = redraw_room(v, p, o)
        /\ screen = show_screen(v, build)
        /\ dac = prep_room(p)

Next ==
  \/ \E s \in Speeds : \/ move_photo_down(s) \/ move_photo_left(s)
                       \/ move_photo_right(s) \/ move_photo_up(s)
  \/ \E p \in Photos, o \in Objects : EnterRoom(p, o)
  \/ \E o \in Objects : MoveObject(o)

Spec == Init /\ [][Next]_vars

-----------------------------------------------------------------------------
(* Properties. *)

\* Every variable has its type, the window is inside the photo and inside
\* the build buffer.
TypeOK ==
  /\ photo \in Photos /\ object \in Objects
  /\ map_x \in 0 .. photo.w - SCROLL_X_DIM
  /\ map_y \in 0 .. photo.h - SCROLL_Y_DIM
  /\ show_x = map_x /\ show_y = map_y
  /\ Fits(show_x, show_y)
  /\ DOMAIN build = Memory

\* clear_mode_X finds the fence as set_mode_X left it: neither drawing nor
\* the copying of the view writes outside the build buffer, and the fence
\* is never copied into it.
FenceIntact == \A i \in Memory : (build[i] = Magic) <=> (i \notin Buffer)

\* A pixel of the room: the object where it is opaque, else the photo.
Scene(x, y) ==
  IF /\ x \in object.x .. object.x + object.w - 1
     /\ y \in object.y .. object.y + object.h - 1
  THEN Covered(PhotoPixel(photo, x, y), x - object.x, y - object.y)
  ELSE PhotoPixel(photo, x, y)

\* After any sequence of pans, although only the lines that come into view
\* are drawn and the window moves about in the build buffer, the screen shows
\* exactly the part of the room at the view's place: "only data not
\* previously on the screen must be drawn before calling show_screen".
ScreenShowsRoom ==
  \A x \in Columns, y \in Rows : screen[<<x, y>>] = Scene(map_x + x, map_y + y)

\* The average colour of the pixels at some places, as it is displayed.
Mean(pixels, places) ==
  LET Channel(k) == MapThenSumSet(LAMBDA n : Rgb(pixels[n])[k], places)
                      \div Cardinality(places)
  IN  <<2 * Channel(1), Channel(2), 2 * Channel(3)>>

\* How the file's words may be coloured.  Kept classes of pixels have a
\* colour of their own, and no other class is more frequent; a word is
\* displayed in the mean of its own class, or in that of the pixels of its
\* second-level class that have no class of their own.  A word of the header
\* may have no pixel that is like it, and may have any colour then.
Colourings(f) ==
  LET pixels == SubSeq(f, 3, 2 + f[1] * f[2])
      Class(c) == {n \in DOMAIN pixels : FourthOf(pixels[n]) = c}
      classes == {FourthOf(pixels[n]) : n \in DOMAIN pixels}
      owners == {own \in SUBSET classes :
                   /\ Cardinality(own) = Kept
                   /\ \A c \in own, d \in classes \ own :
                        Cardinality(Class(c)) >= Cardinality(Class(d))}
      Like(own, word) ==
        IF FourthOf(word) \in own THEN Class(FourthOf(word))
        ELSE {n \in DOMAIN pixels : /\ SecondOf(pixels[n]) = SecondOf(word)
                                    /\ FourthOf(pixels[n]) \notin own}
  IN  {Listed([i \in DOMAIN f |-> IF Like(own, f[i]) = {} THEN <<"any">>
                                  ELSE Mean(pixels, Like(own, f[i]))]) : own \in owners}

Proper == Listed([f \in DOMAIN Files |-> Colourings(Files[f])])

\* Every pixel of the photo on the screen has a colour that is right for the
\* word of the file that WordOf gives for its place in the photo.
ColouredAs(WordOf(_, _)) ==
  \E colour \in Proper[photo.id] :
    \A q \in Columns \X Rows :
      LET x == map_x + q[1]
          y == map_y + q[2]
          i == WordOf(x, y)
      IN  screen[q] = <<"photo", photo.id, x, y>> /\ colour[i] # <<"any">>
            => dac[Read[photo.id].img[photo.w * y + x + 1]] = colour[i]

\* After any sequence of rooms, the display's colours are those of the photo
\* in view, and its offsets agree with the ones the pixels were stored with:
\* every pixel of the photo on the screen has the colour of the most precise
\* class that has one, of the word that read_photo took for that pixel.
\* Whether it took the right word is what ColoursRight is about.
ColoursConsistent ==
  ColouredAs(LAMBDA x, y : Reread(photo.w, photo.h, photo.w * y + x))

\* What photo_headers.h says of the file, and read_photo's comment repeats
\* ("Loop over rows from bottom to top.  Note that the file is stored in this
\* order"): the pixels, which follow the header's two words, start at the
\* lower left, go to the right and then upwards, and that is where they are
\* shown.  It does not hold: the second pass of read_photo reads the header's
\* words as the first two pixels, so every pixel is two places off.
ColoursRight ==
  ColouredAs(LAMBDA x, y : 3 + (photo.h - 1 - y) * photo.w + x)
=============================================================================
