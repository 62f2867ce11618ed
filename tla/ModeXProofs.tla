---------------------------- MODULE ModeXProofs -----------------------------
(***************************************************************************)
(* Proofs about ModeX, for every size of the screen, the build buffer and  *)
(* its fence, and for all photos, objects and speeds.                      *)
(*                                                                         *)
(* A pan draws only the lines that come into view, so the screen is right  *)
(* only because the build buffer still holds the others where show_screen  *)
(* will look for them: Held.  That needs three facts.  The pixels of a     *)
(* view have different addresses, all in the buffer when the view fits, so *)
(* that drawing changes its own pixels and nothing else (AddressInjective, *)
(* AddressInside, DrawnPixels); show_screen reads the addresses that       *)
(* drawing writes (ScreenPixels); and set_view_window moves a pixel of     *)
(* both views to its new address without touching the fence (Moved).       *)
(*                                                                         *)
(* The colours are those of the photo in view (Prepared), and within one   *)
(* photo the palette and the stored pixels agree: qsort keeps as many      *)
(* classes as there is room for and none that is less frequent than one it *)
(* drops (KeptClasses), an entry of the palette counts exactly the pixels  *)
(* it is for (RestCounts, WordColour), and its average fits the display's  *)
(* six bits (ShownMean).  That rests on sums over finite sets, which are   *)
(* recursive functions: induction goes by a smallest counterexample        *)
(* (SmallestSet, LeastNumber).                                             *)
(***************************************************************************)
EXTENDS ModeX, FiniteSetTheorems, SequenceTheorems, NaturalsInduction, TLAPS

-----------------------------------------------------------------------------
(* The build buffer's addresses. *)

W == SCROLL_X_WIDTH
H == SCROLL_Y_DIM
S == SCROLL_SIZE

\* The sizes of the screen.
LEMMA Sizes ==
  /\ W \in Nat /\ W >= 1 /\ H \in Nat /\ H >= 1
  /\ S = W * H /\ S \in Nat /\ SCROLL_X_DIM = 4 * W
  /\ Extra \in Nat /\ MEM_FENCE_WIDTH \in Nat
  /\ BUILD_BUF_SIZE = 4 * S + 1 + Extra
  /\ BUILD_BASE_INIT \in 0 .. Extra
<1>1. W \in Nat /\ W >= 1 /\ H \in Nat /\ H >= 1 /\ Extra \in Nat /\ MEM_FENCE_WIDTH \in Nat
  BY ScreenAssumption DEF W, H
<1>2. S = W * H /\ SCROLL_X_DIM = 4 * W /\ BUILD_BUF_SIZE = 4 * S + 1 + Extra
  BY DEF S, W, H, SCROLL_SIZE, SCROLL_X_DIM, BUILD_BUF_SIZE
<1>3. S \in Nat
  BY <1>1, <1>2
<1>4. BUILD_BASE_INIT \in 0 .. Extra
  BY <1>1 DEF BUILD_BASE_INIT
<1> QED BY <1>1, <1>2, <1>3, <1>4

\* Rows are W addresses apart.
LEMMA Times ==
  ASSUME NEW a \in Int, NEW b \in Int
  PROVE  /\ a * W \in Int /\ (a + b) * W = a * W + b * W /\ (a - b) * W = a * W - b * W
         /\ a <= b => a * W <= b * W
         /\ a < b => a * W + W <= b * W
<1>1. W \in Int /\ W >= 1
  BY Sizes
<1> HIDE DEF W
<1>2. a * W \in Int /\ b * W \in Int
  BY <1>1
<1>3. (a + b) * W = a * W + b * W /\ (a - b) * W = a * W - b * W
  BY <1>1
<1>4. a <= b => a * W <= b * W
  BY <1>1
<1>5. a < b => a * W + W <= b * W
  <2> SUFFICES ASSUME a < b PROVE a * W + W <= b * W
    OBVIOUS
  <2>1. b - a - 1 \in Nat
    OBVIOUS
  <2>2. (b - a - 1) * W >= 0
    BY <1>1, <2>1
  <2>3. (b - a - 1) * W = b * W - a * W - W
    BY <1>1
  <2> QED BY <1>1, <1>2, <2>2, <2>3
<1> QED BY <1>2, <1>3, <1>4, <1>5

\* The place of a pixel of the view, counted from the first address of a view
\* whose first column is a modulo 4: its plane, an address more in the planes
\* whose first column is the next one, and the place in the plane.
Layer(a, x) == (((3 - a) - (x % 4)) + 4) % 4
Carry(a, x) == IF 3 - a < x % 4 THEN 1 ELSE 0
Place(x, y) == x \div 4 + y * W
Slot(a, x, y) == Layer(a, x) * S + Carry(a, x) + Place(x, y)
First(off, vx, vy) == off + vx \div 4 + vy * W

\* Layer and Carry, case by case.
LEMMA Layers ==
  ASSUME NEW a \in 0 .. 3, NEW x \in Nat
  PROVE  /\ Layer(a, x) \in 0 .. 3 /\ Carry(a, x) \in {0, 1}
         /\ Carry(a, x) = IF 3 - a < Layer(a, x) THEN 1 ELSE 0
         /\ x % 4 = ((3 - a) - Layer(a, x) + 4) % 4
<1>1. x % 4 \in 0 .. 3
  OBVIOUS
<1> DEFINE i == x % 4
<1>2. i \in 0 .. 3 /\ Layer(a, x) = (((3 - a) - i) + 4) % 4 /\ Carry(a, x) = IF 3 - a < i THEN 1 ELSE 0
  BY <1>1 DEF Layer, Carry
<1> HIDE DEF i
<1>3. (((3 - a) - i) + 4) % 4 = IF 3 - a < i THEN 7 - a - i ELSE 3 - a - i
  BY <1>2
<1>4. i = ((3 - a) - Layer(a, x) + 4) % 4
  BY <1>2, <1>3
<1> QED BY <1>2, <1>3, <1>4 DEF i

\* Columns of a plane.
LEMMA PlaceRange ==
  ASSUME NEW x \in Columns, NEW y \in Rows
  PROVE  x \in Nat /\ x \div 4 \in 0 .. W - 1 /\ y \in Nat /\ Place(x, y) \in 0 .. S - 1
<1>1. x \in 0 .. 4 * W - 1 /\ y \in 0 .. H - 1 /\ W \in Nat /\ H \in Nat /\ S = W * H /\ S \in Nat
  BY Sizes DEF Columns, Rows, H
<1>2. x \div 4 \in 0 .. W - 1
  BY <1>1
<1>3. y * W \in Int /\ 0 * W <= y * W /\ y * W + W <= H * W
  BY <1>1, Times
<1>4. 0 * W = 0 /\ H * W = S
  BY <1>1
<1> QED BY <1>1, <1>2, <1>3, <1>4 DEF Place

\* Different pixels of a plane have different places.
LEMMA PlaceInjective ==
  ASSUME NEW x \in Columns, NEW y \in Rows, NEW u \in Columns, NEW v \in Rows, Place(x, y) = Place(u, v)
  PROVE  x \div 4 = u \div 4 /\ y = v
<1>1. x \div 4 \in 0 .. W - 1 /\ u \div 4 \in 0 .. W - 1 /\ y \in Nat /\ v \in Nat /\ W \in Nat
  BY PlaceRange, Sizes
<1>2. /\ y * W \in Int /\ v * W \in Int
      /\ y < v => y * W + W <= v * W
      /\ v < y => v * W + W <= y * W
  BY <1>1, Times
<1> DEFINE c == x \div 4
           d == u \div 4
           s == y * W
           t == v * W
<1>3. c + s = d + t
  BY DEF Place
<1>4. c \in 0 .. W - 1 /\ d \in 0 .. W - 1 /\ s \in Int /\ t \in Int /\ (y < v => s + W <= t) /\ (v < y => t + W <= s)
  BY <1>1, <1>2
<1>5. y = v => s = t
  OBVIOUS
<1> HIDE DEF c, d, s, t
<1>6. y = v
  BY <1>1, <1>3, <1>4
<1>7. c = d
  BY <1>3, <1>4, <1>5, <1>6
<1> QED BY <1>6, <1>7 DEF c, d

\* A view takes four planes of addresses, and one more unless its first
\* column is a multiple of four.
LEMMA SlotRange ==
  ASSUME NEW a \in 0 .. 3, NEW x \in Columns, NEW y \in Rows
  PROVE  Slot(a, x, y) \in Nat /\ Slot(a, x, y) <= 4 * S - (IF a = 0 THEN 1 ELSE 0)
<1> DEFINE k == Layer(a, x)
           e == Carry(a, x)
           t == Place(x, y)
<1>1. x \in Nat /\ t \in 0 .. S - 1 /\ S \in Nat
  BY PlaceRange, Sizes
<1>2. k \in 0 .. 3 /\ e = IF 3 - a < k THEN 1 ELSE 0
  BY <1>1, Layers
<1>3. Slot(a, x, y) = k * S + e + t
  BY DEF Slot
<1> HIDE DEF k, e, t
<1>4. k * S + e + t \in Nat /\ k * S + e + t <= 4 * S - (IF a = 0 THEN 1 ELSE 0)
  <2>1. CASE k = 0
    BY <1>1, <1>2, <2>1
  <2>2. CASE k = 1
    BY <1>1, <1>2, <2>2
  <2>3. CASE k = 2
    BY <1>1, <1>2, <2>3
  <2>4. CASE k = 3
    BY <1>1, <1>2, <2>4
  <2> QED BY <1>2, <2>1, <2>2, <2>3, <2>4
<1> QED BY <1>3, <1>4

\* Planes do not overlap.
LEMMA LayersApart ==
  ASSUME NEW p \in 0 .. 3, NEW k \in 0 .. 3, NEW l \in 0 .. 3, NEW t \in 0 .. S - 1, NEW u \in 0 .. S - 1,
         NEW e \in {0, 1}, e = IF p < k THEN 1 ELSE 0, NEW f \in {0, 1}, f = IF p < l THEN 1 ELSE 0,
         k < l
  PROVE  k * S + e + t < l * S + f + u
<1>1. S \in Nat /\ e <= f
  BY Sizes
<1>2. k * S + S <= l * S /\ k * S \in Int /\ l * S \in Int
  <2>1. CASE k = 0
    BY <1>1, <2>1
  <2>2. CASE k = 1
    BY <1>1, <2>2
  <2>3. CASE k = 2
    BY <1>1, <2>3
  <2> QED BY <2>1, <2>2, <2>3
<1> QED BY <1>1, <1>2

\* Different pixels of a view have different addresses.
LEMMA SlotInjective ==
  ASSUME NEW a \in 0 .. 3, NEW x \in Columns, NEW y \in Rows, NEW u \in Columns, NEW v \in Rows,
         Slot(a, x, y) = Slot(a, u, v)
  PROVE  x = u /\ y = v
<1> DEFINE k == Layer(a, x)
           l == Layer(a, u)
           e == Carry(a, x)
           f == Carry(a, u)
           s == Place(x, y)
           t == Place(u, v)
<1>1. x \in Nat /\ u \in Nat /\ s \in 0 .. S - 1 /\ t \in 0 .. S - 1 /\ S \in Nat /\ 3 - a \in 0 .. 3
  BY PlaceRange, Sizes
<1>2. /\ k \in 0 .. 3 /\ e \in {0, 1} /\ e = (IF 3 - a < k THEN 1 ELSE 0) /\ x % 4 = ((3 - a) - k + 4) % 4
      /\ l \in 0 .. 3 /\ f \in {0, 1} /\ f = (IF 3 - a < l THEN 1 ELSE 0) /\ u % 4 = ((3 - a) - l + 4) % 4
  BY <1>1, Layers
<1>3. k * S + e + s = l * S + f + t
  BY DEF Slot
<1>4. s = t => x \div 4 = u \div 4 /\ y = v
  BY PlaceInjective
<1> HIDE DEF k, l, e, f, s, t
<1>5. ~(k < l)
  <2>1. k < l => k * S + e + s < l * S + f + t
    BY <1>1, <1>2, LayersApart
  <2>2. k * S + e + s \in Int
    BY <1>1, <1>2
  <2> QED BY <1>3, <2>1, <2>2
<1>6. ~(l < k)
  <2>1. l < k => l * S + f + t < k * S + e + s
    BY <1>1, <1>2, LayersApart
  <2>2. k * S + e + s \in Int
    BY <1>1, <1>2
  <2> QED BY <1>3, <2>1, <2>2
<1>7. k = l /\ e = f
  BY <1>2, <1>5, <1>6
<1>8. s = t
  <2>1. k * S \in Int
    BY <1>1, <1>2
  <2> QED BY <1>1, <1>2, <1>3, <1>7, <2>1
<1>9. x % 4 = u % 4
  BY <1>2, <1>7
<1>10. x \div 4 = u \div 4 /\ y = v
  BY <1>8, <1>4
<1>11. x = u
  BY <1>1, <1>9, <1>10
<1> QED BY <1>10, <1>11

\* The address of a pixel of the view at (vx,vy): from the view's first
\* address on, as show_screen goes through the planes.
LEMMA AddressSlot ==
  ASSUME NEW off \in Int, NEW vx \in Nat, NEW vy \in Nat, NEW x \in Columns, NEW y \in Rows
  PROVE  Address(off, vx + x, vy + y) = First(off, vx, vy) + Slot(vx % 4, x, y)
<1>1. x \in Nat /\ y \in Nat /\ W \in Nat /\ S \in Nat
  BY PlaceRange, Sizes
<1> DEFINE a == vx % 4
           i == x % 4
           A == vx \div 4
           c == x \div 4
           z == vx + x
<1>2. a \in 0 .. 3 /\ i \in 0 .. 3 /\ A \in Nat /\ c \in Nat /\ vx = 4 * A + a /\ x = 4 * c + i
  BY <1>1
<1>3. z = 4 * (A + c) + (a + i)
  BY <1>1, <1>2
<1>4. Address(off, z, vy + y) = off + z \div 4 + (vy + y) * W + (3 - (z % 4)) * S
  BY DEF Address, W, S
<1>5. (vy + y) * W = vy * W + y * W /\ vy * W \in Int /\ y * W \in Int
  BY <1>1, Times
<1>6. First(off, vx, vy) = off + A + vy * W
  BY DEF First
<1>7. Slot(a, x, y) = Layer(a, x) * S + Carry(a, x) + (c + y * W)
  BY DEF Slot, Place
<1> DEFINE p == vy * W
           q == y * W
<1>8. p \in Int /\ q \in Int
  BY <1>5
<1>9. z \in Nat /\ Address(off, z, vy + y) = off + z \div 4 + (p + q) + (3 - (z % 4)) * S
  BY <1>1, <1>4, <1>5
<1>10. First(off, vx, vy) = off + A + p
  BY <1>6
<1>11. Slot(a, x, y) = Layer(a, x) * S + Carry(a, x) + (c + q)
  BY <1>7
<1> HIDE DEF a, i, A, c, z, p, q
<1>12. Layer(a, x) = (((3 - a) - i) + 4) % 4 /\ Carry(a, x) = IF 3 - a < i THEN 1 ELSE 0
  BY <1>1, <1>2 DEF Layer, Carry, i
<1>13. CASE a + i <= 3
  <2>1. z \div 4 = A + c /\ z % 4 = a + i
    BY <1>2, <1>3, <1>13
  <2>2. Layer(a, x) = 3 - (a + i) /\ Carry(a, x) = 0
    BY <1>2, <1>12, <1>13
  <2>3. (3 - (a + i)) * S \in Int
    BY <1>1, <1>2
  <2> QED BY <1>2, <1>8, <1>9, <1>10, <1>11, <2>1, <2>2, <2>3 DEF z, a
<1>14. CASE a + i > 3
  <2>1. z \div 4 = A + c + 1 /\ z % 4 = a + i - 4
    BY <1>2, <1>3, <1>14
  <2>2. Layer(a, x) = 3 - (a + i - 4) /\ Carry(a, x) = 1
    BY <1>2, <1>12, <1>14
  <2>3. (3 - (a + i - 4)) * S \in Int
    BY <1>1, <1>2
  <2> QED BY <1>2, <1>8, <1>9, <1>10, <1>11, <2>1, <2>2, <2>3 DEF z, a
<1> QED BY <1>2, <1>13, <1>14

\* The view at (vx,vy) lies in the build buffer, as Fits says of the current
\* offset.
Inside(off, vx, vy) ==
  /\ First(off, vx, vy) >= 0
  /\ off + 3 * S + (vx + SCROLL_X_DIM - 1) \div 4 + (vy + SCROLL_Y_DIM - 1) * W < BUILD_BUF_SIZE

\* The last address of the view.
LEMMA LastAddress ==
  ASSUME NEW off \in Int, NEW vx \in Nat, NEW vy \in Nat
  PROVE  /\ First(off, vx, vy) \in Int
         /\ off + 3 * S + (vx + SCROLL_X_DIM - 1) \div 4 + (vy + SCROLL_Y_DIM - 1) * W
              = First(off, vx, vy) + 4 * S - (IF vx % 4 = 0 THEN 1 ELSE 0)
<1>1. W \in Nat /\ W >= 1 /\ H \in Nat /\ H >= 1 /\ S \in Nat /\ S = W * H /\ SCROLL_X_DIM = 4 * W /\ SCROLL_Y_DIM = H
  BY Sizes DEF H
<1>2. (vx + SCROLL_X_DIM - 1) \div 4 = vx \div 4 + W - (IF vx % 4 = 0 THEN 1 ELSE 0)
  BY <1>1
<1>3. vy * W \in Int /\ (vy + (H - 1)) * W = vy * W + (H - 1) * W /\ (H - 1) * W = H * W - 1 * W
  BY <1>1, Times
<1>4. (vy + SCROLL_Y_DIM - 1) * W = vy * W + S - W
  <2>1. vy + SCROLL_Y_DIM - 1 = vy + (H - 1)
    BY <1>1
  <2>2. H * W = S /\ 1 * W = W
    BY <1>1
  <2> QED BY <1>1, <1>3, <2>1, <2>2
<1>5. vx \div 4 \in Int /\ First(off, vx, vy) = off + vx \div 4 + vy * W
  BY DEF First
<1> DEFINE p == vy * W
           A == vx \div 4
           z == IF vx % 4 = 0 THEN 1 ELSE 0
<1>6. p \in Int /\ A \in Int /\ z \in Int
  BY <1>3, <1>5
<1> QED BY <1>1, <1>2, <1>3, <1>4, <1>5, <1>6

\* Then each of its pixels does.
LEMMA AddressInside ==
  ASSUME NEW off \in Int, NEW vx \in Nat, NEW vy \in Nat, Inside(off, vx, vy), NEW x \in Columns, NEW y \in Rows
  PROVE  Address(off, vx + x, vy + y) \in Buffer
<1>1. /\ First(off, vx, vy) \in Nat
      /\ First(off, vx, vy) + 4 * S - (IF vx % 4 = 0 THEN 1 ELSE 0) < BUILD_BUF_SIZE
  BY LastAddress DEF Inside
<1>2. vx % 4 \in 0 .. 3
  OBVIOUS
<1>3. Slot(vx % 4, x, y) \in Nat /\ Slot(vx % 4, x, y) <= 4 * S - (IF vx % 4 = 0 THEN 1 ELSE 0)
  BY <1>2, SlotRange
<1>4. Address(off, vx + x, vy + y) = First(off, vx, vy) + Slot(vx % 4, x, y)
  BY AddressSlot
<1>5. S \in Nat /\ BUILD_BUF_SIZE \in Nat
  BY Sizes
<1> QED BY <1>1, <1>3, <1>4, <1>5 DEF Buffer

\* Different pixels of a view have different addresses.
LEMMA AddressInjective ==
  ASSUME NEW off \in Int, NEW vx \in Nat, NEW vy \in Nat,
         NEW x \in Columns, NEW y \in Rows, NEW u \in Columns, NEW v \in Rows,
         Address(off, vx + x, vy + y) = Address(off, vx + u, vy + v)
  PROVE  x = u /\ y = v
<1>1. vx % 4 \in 0 .. 3 /\ First(off, vx, vy) \in Int
  BY LastAddress
<1>2. Slot(vx % 4, x, y) \in Nat /\ Slot(vx % 4, u, v) \in Nat
  BY <1>1, SlotRange
<1>3. First(off, vx, vy) + Slot(vx % 4, x, y) = First(off, vx, vy) + Slot(vx % 4, u, v)
  BY AddressSlot
<1>4. Slot(vx % 4, x, y) = Slot(vx % 4, u, v)
  BY <1>1, <1>2, <1>3
<1> QED BY <1>1, <1>4, SlotInjective

-----------------------------------------------------------------------------
(* Lines of pixels. *)

Pixels == Columns \X Rows

\* A pixel of a room with the photo p and the object o, as Scene is for the
\* room in view.
Pixel(p, o, x, y) ==
  IF x \in o.x .. o.x + o.w - 1 /\ y \in o.y .. o.y + o.h - 1
  THEN Covered(PhotoPixel(p, x, y), x - o.x, y - o.y)
  ELSE PhotoPixel(p, x, y)

\* Places in a photo, and of an object.
LEMMA Places ==
  /\ \A p \in Photos : /\ p.w \in Nat /\ p.w >= SCROLL_X_DIM /\ p.h \in Nat /\ p.h >= SCROLL_Y_DIM
  /\ \A o \in Objects : o.x \in Int /\ o.y \in Int /\ o.w \in Nat /\ o.h \in Nat
BY PhotoAssumption, ObjectAssumption

\* No pixel looks like the fence.
LEMMA NotMagic ==
  ASSUME NEW p, NEW o, NEW x, NEW y PROVE Pixel(p, o, x, y) # Magic
<1>1. \A a, b, c : <<"photo", a, b, c>> # Magic
  BY DEF Magic
<1>2. \A a, b : <<"object", a, b>> # Magic
  BY DEF Magic
<1>3. <<"garbage">> # Magic
  BY DEF Magic
<1>4. PhotoPixel(p, x, y) # Magic
  BY <1>1, <1>3 DEF PhotoPixel
<1> QED BY <1>2, <1>4 DEF Pixel, Covered

\* fill_horiz_buffer and fill_vert_buffer compute the pixels of the room,
\* whichever way the line and the object overlap.
LEMMA HorizLine ==
  ASSUME NEW p \in Photos, NEW o \in Objects, NEW vx \in 0 .. p.w - SCROLL_X_DIM, NEW Y \in 0 .. p.h - 1,
         NEW x \in Columns
  PROVE  fill_horiz_buffer(p, o, vx, Y)[x] = Pixel(p, o, vx + x, Y)
<1>1. p.w \in Nat /\ p.h \in Nat /\ o.x \in Int /\ o.y \in Int /\ o.w \in Nat /\ o.h \in Nat
  BY Places
<1>2. SCROLL_X_DIM \in Nat /\ x \in 0 .. SCROLL_X_DIM - 1
  BY Sizes DEF Columns
<1>3. vx \in Int /\ Y \in Int /\ vx + x \in 0 .. p.w - 1
  BY <1>1, <1>2
<1>4. ImageIndex(vx, o.x, x) = vx + x - o.x
  BY <1>1, <1>2, <1>3 DEF ImageIndex
<1> DEFINE under == PhotoPixel(p, vx + x, Y)
           out == \/ Y < o.y \/ Y >= o.y + o.h
                  \/ vx + SCROLL_X_DIM <= o.x \/ vx >= o.x + o.w
                  \/ vx + x - o.x \notin 0 .. o.w - 1
<1>5. fill_horiz_buffer(p, o, vx, Y)[x] = IF out THEN under ELSE Covered(under, vx + x - o.x, Y - o.y)
  BY <1>3, <1>4 DEF fill_horiz_buffer
<1>6. out <=> ~(vx + x \in o.x .. o.x + o.w - 1 /\ Y \in o.y .. o.y + o.h - 1)
  BY <1>1, <1>2, <1>3
<1>7. CASE out
  BY <1>5, <1>6, <1>7 DEF Pixel
<1>8. CASE ~out
  BY <1>1, <1>2, <1>3, <1>5, <1>6, <1>8 DEF Pixel
<1> QED BY <1>7, <1>8

\* The same for a line down.
LEMMA VertLine ==
  ASSUME NEW p \in Photos, NEW o \in Objects, NEW X \in 0 .. p.w - 1, NEW vy \in 0 .. p.h - SCROLL_Y_DIM,
         NEW y \in Rows
  PROVE  fill_vert_buffer(p, o, X, vy)[y] = Pixel(p, o, X, vy + y)
<1>1. p.w \in Nat /\ p.h \in Nat /\ o.x \in Int /\ o.y \in Int /\ o.w \in Nat /\ o.h \in Nat
  BY Places
<1>2. SCROLL_Y_DIM \in Nat /\ y \in 0 .. SCROLL_Y_DIM - 1
  BY Sizes DEF Rows, H
<1>3. vy \in Int /\ X \in Int /\ vy + y \in 0 .. p.h - 1
  BY <1>1, <1>2
<1>4. ImageIndex(vy, o.y, y) = vy + y - o.y
  BY <1>1, <1>2, <1>3 DEF ImageIndex
<1> DEFINE under == PhotoPixel(p, X, vy + y)
           out == \/ X < o.x \/ X >= o.x + o.w
                  \/ vy + SCROLL_Y_DIM <= o.y \/ vy >= o.y + o.h
                  \/ vy + y - o.y \notin 0 .. o.h - 1
<1>5. fill_vert_buffer(p, o, X, vy)[y] = IF out THEN under ELSE Covered(under, X - o.x, vy + y - o.y)
  BY <1>3, <1>4 DEF fill_vert_buffer
<1>6. out <=> ~(X \in o.x .. o.x + o.w - 1 /\ vy + y \in o.y .. o.y + o.h - 1)
  BY <1>1, <1>2, <1>3
<1>7. CASE out
  BY <1>5, <1>6, <1>7 DEF Pixel
<1>8. CASE ~out
  BY <1>1, <1>2, <1>3, <1>5, <1>6, <1>8 DEF Pixel
<1> QED BY <1>7, <1>8

-----------------------------------------------------------------------------
(* Drawing. *)

\* A view inside the build buffer.
View(v) == v.off \in Int /\ v.x \in Nat /\ v.y \in Nat /\ Inside(v.off, v.x, v.y)

Spot(v, q) == Address(v.off, v.x + q[1], v.y + q[2])

\* The fence of the buffer b is intact.
Fenced(b) == DOMAIN b = Memory /\ \A i \in Memory : (b[i] = Magic) <=> (i \notin Buffer)

\* Different pixels of a view have different addresses in the buffer.
LEMMA Spots ==
  ASSUME NEW v, View(v)
  PROVE  /\ \A q \in Pixels : Spot(v, q) \in Buffer /\ Spot(v, q) \in Memory
         /\ \A q, r \in Pixels : Spot(v, q) = Spot(v, r) => q = r
<1>1. Buffer \subseteq Memory
  BY Sizes DEF Buffer, Memory
<1>2. ASSUME NEW q \in Pixels PROVE Spot(v, q) \in Buffer
  <2>1. q[1] \in Columns /\ q[2] \in Rows
    BY DEF Pixels
  <2> QED BY <2>1, AddressInside DEF View, Spot
<1>3. ASSUME NEW q \in Pixels, NEW r \in Pixels, Spot(v, q) = Spot(v, r) PROVE q = r
  <2>1. q[1] \in Columns /\ q[2] \in Rows /\ r[1] \in Columns /\ r[2] \in Rows
    BY DEF Pixels
  <2>2. q[1] = r[1] /\ q[2] = r[2]
    BY <1>3, <2>1, AddressInjective DEF View, Spot
  <2> QED BY <2>2 DEF Pixels
<1> QED BY <1>1, <1>2, <1>3

\* Drawing an image changes its pixels and nothing else.
LEMMA DrawnPixels ==
  ASSUME NEW v, View(v), NEW D, D \subseteq Pixels, NEW image, DOMAIN image = D
  PROVE  /\ DOMAIN Drawn(v, image) = Memory
         /\ \A q \in D : Drawn(v, image)[Spot(v, q)] = image[q]
         /\ \A q \in Pixels \ D : Drawn(v, image)[Spot(v, q)] = v.build[Spot(v, q)]
         /\ \A i \in Memory : \/ Drawn(v, image)[i] = v.build[i]
                              \/ i \in Buffer /\ \E q \in D : Drawn(v, image)[i] = image[q]
<1> DEFINE addr == [q \in D |-> Spot(v, q)]
           b == Drawn(v, image)
<1>1. b = [i \in Memory |-> IF \E q \in D : addr[q] = i
                            THEN image[CHOOSE q \in D : addr[q] = i] ELSE v.build[i]]
  BY DEF Drawn, Spot
<1>2. \A q \in D : addr[q] = Spot(v, q)
  OBVIOUS
<1>3. /\ \A q \in Pixels : Spot(v, q) \in Buffer /\ Spot(v, q) \in Memory
      /\ \A q, r \in Pixels : Spot(v, q) = Spot(v, r) => q = r
  BY Spots
<1> HIDE DEF addr, b
<1>4. DOMAIN b = Memory
  BY <1>1
<1>5. ASSUME NEW q \in D PROVE b[Spot(v, q)] = image[q]
  <2>1. Spot(v, q) \in Memory /\ addr[q] = Spot(v, q)
    BY <1>2, <1>3
  <2>2. b[Spot(v, q)] = image[CHOOSE r \in D : addr[r] = Spot(v, q)]
    BY <1>1, <2>1
  <2>3. \A r \in D : addr[r] = Spot(v, q) => r = q
    BY <1>2, <1>3
  <2>4. (CHOOSE r \in D : addr[r] = Spot(v, q)) = q
    BY <2>1, <2>3
  <2> QED BY <2>2, <2>4
<1>6. ASSUME NEW q \in Pixels \ D PROVE b[Spot(v, q)] = v.build[Spot(v, q)]
  <2>1. ~ \E r \in D : addr[r] = Spot(v, q)
    BY <1>2, <1>3
  <2> QED BY <1>1, <1>3, <2>1
<1>7. ASSUME NEW i \in Memory
      PROVE  b[i] = v.build[i] \/ (i \in Buffer /\ \E q \in D : b[i] = image[q])
  <2>1. CASE \E q \in D : addr[q] = i
    <3>1. PICK q \in D : addr[q] = i
      BY <2>1
    <3>2. i = Spot(v, q) /\ i \in Buffer
      BY <1>2, <1>3, <3>1
    <3> QED BY <1>5, <3>2
  <2>2. CASE ~ \E q \in D : addr[q] = i
    BY <1>1, <2>2
  <2> QED BY <2>1, <2>2
<1> QED BY <1>4, <1>5, <1>6, <1>7 DEF b

\* show_screen shows what the build buffer holds for the view.
LEMMA ScreenPixels ==
  ASSUME NEW v, View(v), NEW b, NEW q \in Pixels
  PROVE  show_screen(v, b)[q] = b[Spot(v, q)]
<1> DEFINE a == v.x % 4
           x == q[1]
           y == q[2]
<1>1. v.off \in Int /\ v.x \in Nat /\ v.y \in Nat /\ x \in Columns /\ y \in Rows
  BY DEF View, Pixels
<1>2. Spot(v, q) = First(v.off, v.x, v.y) + Slot(a, x, y)
  BY <1>1, AddressSlot DEF Spot
<1> DEFINE Index(r) ==
             ((v.off + v.x \div 4 + v.y * SCROLL_X_WIDTH)
                + (((3 - a) - (r[1] % 4) + 4) % 4) * SCROLL_SIZE
                + (IF 3 - a < r[1] % 4 THEN 1 ELSE 0))
             + r[1] \div 4 + r[2] * SCROLL_X_WIDTH
<1>3. show_screen(v, b) = [r \in Columns \X Rows |-> b[Index(r)]]
  BY DEF show_screen
<1> HIDE DEF Index
<1>4. show_screen(v, b)[q] = b[Index(q)]
  BY <1>3 DEF Pixels
<1>5. a \in 0 .. 3
  BY <1>1
<1>6. First(v.off, v.x, v.y) \in Int
  BY <1>1, LastAddress
<1> HIDE DEF a, x, y
<1>7. a \in 0 .. 3 /\ First(v.off, v.x, v.y) \in Int /\ Slot(a, x, y) \in Int /\ x \in Nat /\ Place(x, y) \in Int
  BY <1>1, <1>5, <1>6, SlotRange, PlaceRange
<1>8. Layer(a, x) * S \in Int /\ Carry(a, x) \in Int
  <2>1. Layer(a, x) \in 0 .. 3 /\ Carry(a, x) \in {0, 1} /\ S \in Nat
    BY <1>7, Layers, Sizes
  <2> QED BY <2>1
<1>9. y \in Int /\ x \div 4 \in Int /\ y * W \in Int /\ v.y * W \in Int /\ v.x \div 4 \in Int
  <2>1. y \in Int /\ x \div 4 \in Int
    BY <1>1, PlaceRange
  <2>2. v.y \in Int /\ v.x \div 4 \in Int
    BY <1>1
  <2>3. y * W \in Int
    BY <2>1, Times
  <2>4. v.y * W \in Int
    BY <2>2, Times
  <2> QED BY <2>1, <2>2, <2>3, <2>4
<1>10. Index(q) = First(v.off, v.x, v.y) + Slot(a, x, y)
  <2> DEFINE l == Layer(a, x) * S
             f == v.off + v.x \div 4 + v.y * W
             c == x \div 4
             r == y * W
             e == Carry(a, x)
  <2>1. Index(q) = (f + l + e) + c + r
    <3>1. ((((3 - a) - (q[1] % 4)) + 4) % 4) * SCROLL_SIZE = l
      <4>1. (((3 - a) - (q[1] % 4)) + 4) % 4 = Layer(a, x)
        BY <1>7 DEF Layer, x
      <4> QED BY <4>1 DEF S
    <3>2. (IF 3 - a < q[1] % 4 THEN 1 ELSE 0) = e
      BY DEF Carry, x
    <3>3. v.off + v.x \div 4 + v.y * SCROLL_X_WIDTH = f
      BY DEF W
    <3>4. q[1] \div 4 = c /\ q[2] * SCROLL_X_WIDTH = r
      BY DEF W, x, y
    <3>5. Index(q) = (f + l + e) + q[1] \div 4 + q[2] * SCROLL_X_WIDTH
      <4> HIDE DEF l, e, f
      <4> QED BY <3>1, <3>2, <3>3 DEF Index
    <3> QED BY <3>4, <3>5
  <2>2. First(v.off, v.x, v.y) = f /\ Slot(a, x, y) = l + e + (c + r)
    BY DEF First, Slot, Place
  <2>3. l \in Int /\ f \in Int /\ c \in Int /\ r \in Int /\ e \in Int
    BY <1>1, <1>8, <1>9
  <2> HIDE DEF l, f, c, r, e
  <2> QED BY <2>1, <2>2, <2>3
<1> QED BY <1>2, <1>10, <1>4

-----------------------------------------------------------------------------
(* The inductive invariant, and what a step has to show for it. *)

\* The build buffer holds the view: what the next pan will reuse.
Held ==
  \A x \in Columns, y \in Rows :
    build[Address(img3_off, map_x + x, map_y + y)] = Scene(map_x + x, map_y + y)

IInv == TypeOK /\ img3_off \in Int /\ FenceIntact /\ Held /\ ScreenShowsRoom

\* The view v lies in the photo p.
InPhoto(v, p) == v.x \in 0 .. p.w - SCROLL_X_DIM /\ v.y \in 0 .. p.h - SCROLL_Y_DIM

\* The buffer b holds the room for all the view's pixels in Q.
Holds(b, v, p, o, Q) == \A q \in Q : b[Spot(v, q)] = Pixel(p, o, v.x + q[1], v.y + q[2])

\* Fits is Inside of the current offset.
LEMMA FitsInside ==
  ASSUME NEW x, NEW y PROVE Fits(x, y) <=> Inside(img3_off, x, y)
BY DEF Fits, Inside, First, W, S

\* An image of the room drawn into a buffer that holds the rest of it.
LEMMA Painted ==
  ASSUME NEW v, View(v), NEW p, NEW o, NEW D, D \subseteq Pixels, NEW image, DOMAIN image = D,
         \A q \in D : image[q] = Pixel(p, o, v.x + q[1], v.y + q[2]),
         Holds(v.build, v, p, o, Pixels \ D), Fenced(v.build)
  PROVE  Fenced(Drawn(v, image)) /\ Holds(Drawn(v, image), v, p, o, Pixels)
<1> DEFINE b == Drawn(v, image)
<1>1. /\ DOMAIN b = Memory
      /\ \A q \in D : b[Spot(v, q)] = image[q]
      /\ \A q \in Pixels \ D : b[Spot(v, q)] = v.build[Spot(v, q)]
      /\ \A i \in Memory : \/ b[i] = v.build[i]
                           \/ i \in Buffer /\ \E q \in D : b[i] = image[q]
  BY DrawnPixels
<1> HIDE DEF b
<1>2. ASSUME NEW i \in Memory PROVE (b[i] = Magic) <=> (i \notin Buffer)
  <2>1. CASE b[i] = v.build[i]
    BY <2>1 DEF Fenced
  <2>2. CASE i \in Buffer /\ \E q \in D : b[i] = image[q]
    BY <2>2, NotMagic
  <2> QED BY <1>1, <2>1, <2>2
<1>3. Holds(b, v, p, o, Pixels)
  <2> SUFFICES ASSUME NEW q \in Pixels PROVE b[Spot(v, q)] = Pixel(p, o, v.x + q[1], v.y + q[2])
    BY DEF Holds
  <2>1. CASE q \in D
    BY <1>1, <2>1
  <2>2. CASE q \in Pixels \ D
    BY <1>1, <2>2 DEF Holds
  <2> QED BY <2>1, <2>2
<1> QED BY <1>1, <1>2, <1>3 DEF b, Fenced

\* Showing such a buffer.
LEMMA Shows ==
  ASSUME NEW v, View(v), NEW p \in Photos, NEW o \in Objects, InPhoto(v, p), NEW b, Fenced(b),
         Holds(b, v, p, o, Pixels), Show(v, b), photo' = p, object' = o
  PROVE  IInv'
<1>1. /\ map_x' = v.x /\ map_y' = v.y /\ show_x' = v.x /\ show_y' = v.y /\ img3_off' = v.off
      /\ build' = b /\ screen' = show_screen(v, b)
  BY DEF Show
<1>2. ASSUME NEW x \in Columns, NEW y \in Rows
      PROVE  /\ b[Address(v.off, v.x + x, v.y + y)] = Pixel(p, o, v.x + x, v.y + y)
             /\ show_screen(v, b)[<<x, y>>] = Pixel(p, o, v.x + x, v.y + y)
  <2>1. <<x, y>> \in Pixels /\ <<x, y>>[1] = x /\ <<x, y>>[2] = y
    BY DEF Pixels
  <2>2. b[Spot(v, <<x, y>>)] = Pixel(p, o, v.x + x, v.y + y)
    BY <2>1 DEF Holds
  <2>3. Spot(v, <<x, y>>) = Address(v.off, v.x + x, v.y + y)
    BY <2>1 DEF Spot
  <2>4. show_screen(v, b)[<<x, y>>] = b[Spot(v, <<x, y>>)]
    BY <2>1, ScreenPixels
  <2> QED BY <2>2, <2>3, <2>4
<1>3. \A x, y : Scene(x, y)' = Pixel(p, o, x, y)
  BY DEF Scene, Pixel
<1>4. Held'
  BY <1>1, <1>2, <1>3 DEF Held
<1>5. ScreenShowsRoom'
  BY <1>1, <1>2, <1>3 DEF ScreenShowsRoom
<1>6. FenceIntact'
  BY <1>1 DEF FenceIntact, Fenced
<1>7. Fits(show_x, show_y)'
  BY <1>1 DEF Fits, View, Inside, First, W, S
<1>8. TypeOK'
  BY <1>1, <1>7 DEF TypeOK, InPhoto, Fenced
<1> QED BY <1>1, <1>4, <1>5, <1>6, <1>8 DEF IInv, View

-----------------------------------------------------------------------------
(* set_view_window *)

\* A view moved back to the middle lies in the buffer.
LEMMA CentredInside ==
  ASSUME NEW x \in Nat, NEW y \in Nat
  PROVE  /\ Centred(x, y) \in Int /\ First(Centred(x, y), x, y) = BUILD_BASE_INIT
         /\ Inside(Centred(x, y), x, y)
<1>1. y * W \in Int /\ x \div 4 \in Int /\ BUILD_BASE_INIT \in 0 .. Extra /\ Extra \in Nat /\ S \in Nat
  BY Sizes, Times
<1>2. Centred(x, y) = BUILD_BASE_INIT - x \div 4 - y * W
  BY DEF Centred, W
<1> DEFINE c == x \div 4
           r == y * W
<1>3. c \in Int /\ r \in Int /\ Centred(x, y) = BUILD_BASE_INIT - c - r
  BY <1>1, <1>2
<1>4. First(Centred(x, y), x, y) = Centred(x, y) + c + r
  BY DEF First
<1> HIDE DEF c, r
<1>5. Centred(x, y) \in Int /\ First(Centred(x, y), x, y) = BUILD_BASE_INIT
  BY <1>1, <1>3, <1>4
<1>6. Centred(x, y) + 3 * S + (x + SCROLL_X_DIM - 1) \div 4 + (y + SCROLL_Y_DIM - 1) * W
        = First(Centred(x, y), x, y) + 4 * S - (IF x % 4 = 0 THEN 1 ELSE 0)
  BY <1>5, LastAddress
<1>7. First(Centred(x, y), x, y) + 4 * S - (IF x % 4 = 0 THEN 1 ELSE 0) < BUILD_BUF_SIZE
  BY <1>1, <1>5, Sizes
<1> QED BY <1>1, <1>5, <1>6, <1>7 DEF Inside

\* The addresses two overlapping views share, relative to the offset.
LEMMA SharedRange ==
  ASSUME NEW off \in Int, NEW x \in Nat, NEW y \in Nat, NEW u \in Nat, NEW v \in Nat, Inside(off, x, y)
  PROVE  LET start_off == Larger(x, u) \div 4 + Larger(y, v) * W
             end_x == Smaller(x, u) + SCROLL_X_DIM - 1
             end_y == Smaller(y, v) + SCROLL_Y_DIM - 1
             last == end_x \div 4 + end_y * W + 3 * S
         IN  /\ start_off \in Int /\ last \in Int
             /\ off + start_off >= 0 /\ off + last < BUILD_BUF_SIZE
<1> DEFINE X == Larger(x, u)
           Y == Larger(y, v)
           E == Smaller(x, u) + SCROLL_X_DIM - 1
           F == Smaller(y, v) + SCROLL_Y_DIM - 1
<1>0. SCROLL_X_DIM \in Nat /\ SCROLL_Y_DIM \in Nat /\ S \in Nat /\ BUILD_BUF_SIZE \in Nat
  BY Sizes DEF H
<1>1. X \in Nat /\ Y \in Nat /\ x <= X /\ y <= Y
  BY DEF Larger
<1>2. E \in Int /\ F \in Int /\ E <= x + SCROLL_X_DIM - 1 /\ F <= y + SCROLL_Y_DIM - 1
  BY <1>0 DEF Smaller
<1> HIDE DEF X, Y, E, F
<1>3. X \div 4 >= x \div 4 /\ X \div 4 \in Int /\ x \div 4 \in Int
  BY <1>1
<1>4. E \div 4 <= (x + SCROLL_X_DIM - 1) \div 4 /\ E \div 4 \in Int /\ (x + SCROLL_X_DIM - 1) \div 4 \in Int
  BY <1>0, <1>2
<1>5. y * W <= Y * W /\ y * W \in Int /\ Y * W \in Int
  <2>1. y \in Int /\ Y \in Int
    BY <1>1
  <2>2. y * W <= Y * W /\ y * W \in Int
    BY <1>1, <2>1, Times
  <2>3. Y * W \in Int
    BY <2>1, Times
  <2> QED BY <2>2, <2>3
<1>6. F * W <= (y + SCROLL_Y_DIM - 1) * W /\ F * W \in Int /\ (y + SCROLL_Y_DIM - 1) * W \in Int
  <2>1. y + SCROLL_Y_DIM - 1 \in Int
    BY <1>0
  <2> QED BY <1>2, <2>1, Times
<1>7. /\ off + x \div 4 + y * W >= 0
      /\ off + 3 * S + (x + SCROLL_X_DIM - 1) \div 4 + (y + SCROLL_Y_DIM - 1) * W < BUILD_BUF_SIZE
  BY DEF Inside, First
<1>8. X \div 4 + Y * W \in Int /\ off + (X \div 4 + Y * W) >= 0
  BY <1>3, <1>5, <1>7
<1>9. E \div 4 + F * W + 3 * S \in Int /\ off + (E \div 4 + F * W + 3 * S) < BUILD_BUF_SIZE
  BY <1>0, <1>4, <1>6, <1>7
<1> QED BY <1>8, <1>9 DEF X, Y, E, F

\* A pixel of both views lies in that range.
LEMMA SharedPixel ==
  ASSUME NEW x \in Nat, NEW y \in Nat, NEW u \in Nat, NEW v \in Nat,
         NEW X \in Nat, X >= x, X >= u, X <= x + SCROLL_X_DIM - 1, X <= u + SCROLL_X_DIM - 1,
         NEW Y \in Nat, Y >= y, Y >= v, Y <= y + SCROLL_Y_DIM - 1, Y <= v + SCROLL_Y_DIM - 1
  PROVE  LET start_off == Larger(x, u) \div 4 + Larger(y, v) * W
             end_x == Smaller(x, u) + SCROLL_X_DIM - 1
             end_y == Smaller(y, v) + SCROLL_Y_DIM - 1
             last == end_x \div 4 + end_y * W + 3 * S
             rel == X \div 4 + Y * W + (3 - (X % 4)) * S
         IN  rel \in Int /\ start_off <= rel /\ rel <= last
<1> DEFINE L == Larger(x, u)
           M == Larger(y, v)
           E == Smaller(x, u) + SCROLL_X_DIM - 1
           F == Smaller(y, v) + SCROLL_Y_DIM - 1
<1>0. SCROLL_X_DIM \in Nat /\ SCROLL_Y_DIM \in Nat /\ S \in Nat
  BY Sizes DEF H
<1>1. L \in Nat /\ M \in Nat /\ L <= X /\ M <= Y
  BY DEF Larger
<1>2. E \in Int /\ F \in Int /\ X <= E /\ Y <= F
  BY <1>0 DEF Smaller
<1> HIDE DEF L, M, E, F
<1>3. L \div 4 <= X \div 4 /\ X \div 4 <= E \div 4 /\ L \div 4 \in Int /\ X \div 4 \in Int /\ E \div 4 \in Int
  BY <1>1, <1>2
<1>4. M * W <= Y * W /\ Y * W <= F * W /\ M * W \in Int /\ Y * W \in Int /\ F * W \in Int
  <2>1. M \in Int /\ Y \in Int /\ F \in Int
    BY <1>1, <1>2
  <2>2. M * W <= Y * W /\ M * W \in Int
    BY <1>1, <2>1, Times
  <2>3. Y * W <= F * W /\ Y * W \in Int
    BY <1>2, <2>1, Times
  <2>4. F * W \in Int
    BY <2>1, Times
  <2> QED BY <2>2, <2>3, <2>4
<1>5. (3 - (X % 4)) * S \in Int /\ 0 <= (3 - (X % 4)) * S /\ (3 - (X % 4)) * S <= 3 * S
  <2>1. CASE X % 4 = 0
    BY <1>0, <2>1
  <2>2. CASE X % 4 = 1
    BY <1>0, <2>2
  <2>3. CASE X % 4 = 2
    BY <1>0, <2>3
  <2>4. CASE X % 4 = 3
    BY <1>0, <2>4
  <2> QED BY <2>1, <2>2, <2>3, <2>4
<1> DEFINE k == (3 - (X % 4)) * S
<1>6. k \in Int /\ 0 <= k /\ k <= 3 * S
  BY <1>5
<1> HIDE DEF k
<1>7. /\ X \div 4 + Y * W + k \in Int
      /\ L \div 4 + M * W <= X \div 4 + Y * W + k
      /\ X \div 4 + Y * W + k <= E \div 4 + F * W + 3 * S
  BY <1>0, <1>3, <1>4, <1>6
<1> QED BY <1>7 DEF L, M, E, F, k

\* The view that set_view_window leaves: it is in the buffer, its fence is
\* intact, and a pixel that was in the old view is found at its new address.
LEMMA Moved ==
  ASSUME IInv, NEW x \in Nat, NEW y \in Nat, NEW v, v = set_view_window(x, y)
  PROVE  /\ View(v) /\ v.x = x /\ v.y = y /\ Fenced(v.build)
         /\ \A X, Y \in Nat :
              /\ X >= x /\ X >= map_x /\ X <= x + SCROLL_X_DIM - 1 /\ X <= map_x + SCROLL_X_DIM - 1
              /\ Y >= y /\ Y >= map_y /\ Y <= y + SCROLL_Y_DIM - 1 /\ Y <= map_y + SCROLL_Y_DIM - 1
              => v.build[Address(v.off, X, Y)] = build[Address(img3_off, X, Y)]
<1>1. /\ v.x = x /\ v.y = y
      /\ v.off = IF Fits(x, y) THEN img3_off ELSE Centred(x, y)
      /\ v.build = IF Fits(x, y) \/ Apart(x, y) THEN build ELSE Retained(x, y)
  BY DEF set_view_window
<1>2. /\ img3_off \in Int /\ map_x \in Nat /\ map_y \in Nat /\ show_x = map_x /\ show_y = map_y
      /\ Inside(img3_off, map_x, map_y) /\ Fenced(build)
  <2>1. photo \in Photos /\ map_x \in 0 .. photo.w - SCROLL_X_DIM /\ map_y \in 0 .. photo.h - SCROLL_Y_DIM
    BY DEF IInv, TypeOK
  <2>2. map_x \in Nat /\ map_y \in Nat
    BY <2>1, Places, Sizes DEF H
  <2> QED BY <2>2, FitsInside DEF IInv, TypeOK, FenceIntact, Fenced
<1>3. SCROLL_X_DIM \in Nat /\ SCROLL_Y_DIM \in Nat /\ S \in Nat /\ W \in Nat /\ BUILD_BUF_SIZE \in Nat
  BY Sizes DEF H
<1>4. CASE Fits(x, y)
  <2>1. v.off = img3_off /\ v.build = build
    BY <1>1, <1>4
  <2>2. Inside(img3_off, x, y)
    BY <1>4, FitsInside
  <2> QED BY <1>1, <1>2, <2>1, <2>2 DEF View
<1>5. ASSUME ~Fits(x, y) PROVE v.off = Centred(x, y) /\ v.off \in Int /\ View(v) /\ Inside(v.off, x, y)
  BY <1>1, <1>5, CentredInside DEF View
<1>6. CASE ~Fits(x, y) /\ Apart(x, y)
  <2>1. v.build = build
    BY <1>1, <1>6
  <2>2. ASSUME NEW X \in Nat, NEW Y \in Nat,
               X >= x, X >= map_x, X <= x + SCROLL_X_DIM - 1, X <= map_x + SCROLL_X_DIM - 1,
               Y >= y, Y >= map_y, Y <= y + SCROLL_Y_DIM - 1, Y <= map_y + SCROLL_Y_DIM - 1
        PROVE  FALSE
    BY <1>2, <1>3, <1>6, <2>2 DEF Apart
  <2> QED BY <1>1, <1>2, <1>5, <1>6, <2>1, <2>2
<1>7. CASE ~Fits(x, y) /\ ~Apart(x, y)
  <2> DEFINE start_off == Larger(x, map_x) \div 4 + Larger(y, map_y) * W
             end_x == Smaller(x, map_x) + SCROLL_X_DIM - 1
             end_y == Smaller(y, map_y) + SCROLL_Y_DIM - 1
             last == end_x \div 4 + end_y * W + 3 * S
             length == end_x \div 4 + end_y * W + 1 - start_off + 3 * S
             from == img3_off + start_off
             to == v.off + start_off
  <2>1. v.off \in Int /\ Inside(v.off, x, y) /\ View(v)
    BY <1>5, <1>7
  <2>2. /\ start_off \in Int /\ last \in Int
        /\ v.off + start_off >= 0 /\ v.off + last < BUILD_BUF_SIZE
    BY <1>2, <2>1, SharedRange
  <2>3. img3_off + start_off >= 0 /\ img3_off + last < BUILD_BUF_SIZE
    <3>1. Larger(map_x, x) = Larger(x, map_x) /\ Larger(map_y, y) = Larger(y, map_y)
      BY <1>2 DEF Larger
    <3>2. Smaller(map_x, x) = Smaller(x, map_x) /\ Smaller(map_y, y) = Smaller(y, map_y)
      BY <1>2 DEF Smaller
    <3>3. /\ img3_off + (Larger(map_x, x) \div 4 + Larger(map_y, y) * W) >= 0
          /\ img3_off + ((Smaller(map_x, x) + SCROLL_X_DIM - 1) \div 4
                          + (Smaller(map_y, y) + SCROLL_Y_DIM - 1) * W + 3 * S) < BUILD_BUF_SIZE
      BY <1>2, SharedRange
    <3> QED BY <3>1, <3>2, <3>3
  <2>4. length = last + 1 - start_off
    <3>1. end_x \div 4 \in Int
      BY <1>2, <1>3 DEF Smaller
    <3>2. end_y * W \in Int
      <4>1. end_y \in Int
        BY <1>2, <1>3 DEF Smaller
      <4> HIDE DEF end_y
      <4> QED BY <4>1, Times
    <3> HIDE DEF start_off, end_x, end_y
    <3> QED BY <1>3, <2>2, <3>1, <3>2
  <2>5. v.build = [i \in Memory |-> IF i - to \in 0 .. length - 1 THEN build[from + (i - to)] ELSE build[i]]
    BY <1>1, <1>2, <1>5, <1>7 DEF Retained, CopyBytes, W, S
  <2> HIDE DEF start_off, end_x, end_y, last, length
  <2>6. \A i \in Memory : i \in Int
    BY Sizes DEF Memory
  <2>7. Buffer \subseteq Memory
    BY Sizes DEF Buffer, Memory
  <2>8. ASSUME NEW i \in Memory, i - to \in 0 .. length - 1
        PROVE  i \in Buffer /\ from + (i - to) \in Buffer
    <3>1. i \in Int /\ i - to >= 0 /\ i - to <= last - start_off
      BY <1>2, <2>1, <2>2, <2>4, <2>6, <2>8
    <3> QED BY <1>2, <1>3, <2>1, <2>2, <2>3, <3>1 DEF Buffer
  <2>9. Fenced(v.build)
    <3>1. ASSUME NEW i \in Memory PROVE (v.build[i] = Magic) <=> (i \notin Buffer)
      <4>1. CASE i - to \in 0 .. length - 1
        BY <1>2, <2>5, <2>7, <2>8, <4>1 DEF Fenced
      <4>2. CASE ~(i - to \in 0 .. length - 1)
        BY <1>2, <2>5, <4>2 DEF Fenced
      <4> QED BY <4>1, <4>2
    <3> QED BY <2>5, <3>1 DEF Fenced
  <2>10. ASSUME NEW X \in Nat, NEW Y \in Nat,
                X >= x, X >= map_x, X <= x + SCROLL_X_DIM - 1, X <= map_x + SCROLL_X_DIM - 1,
                Y >= y, Y >= map_y, Y <= y + SCROLL_Y_DIM - 1, Y <= map_y + SCROLL_Y_DIM - 1
         PROVE  v.build[Address(v.off, X, Y)] = build[Address(img3_off, X, Y)]
    <3> DEFINE rel == X \div 4 + Y * W + (3 - (X % 4)) * S
    <3>1. rel \in Int /\ start_off <= rel /\ rel <= last
      BY <1>2, <2>10, SharedPixel DEF start_off, last, end_x, end_y
    <3>2. \A off \in Int : Address(off, X, Y) = off + rel
      <4>1. X \div 4 \in Int /\ Y * W \in Int
        BY Times
      <4>2. (3 - (X % 4)) * S \in Int
        BY <1>3
      <4> QED BY <4>1, <4>2 DEF Address, W, S
    <3> HIDE DEF rel
    <3>3. Address(v.off, X, Y) - to = rel - start_off /\ Address(v.off, X, Y) \in Int
      BY <2>1, <2>2, <3>1, <3>2
    <3>4. Address(v.off, X, Y) - to \in 0 .. length - 1
      BY <2>2, <2>4, <3>1, <3>3
    <3>5. Address(v.off, X, Y) \in Memory
      <4>1. Address(v.off, X, Y) \in Buffer
        BY <1>3, <2>1, <2>2, <3>1, <3>2 DEF Buffer
      <4> QED BY <2>7, <4>1
    <3>6. v.build[Address(v.off, X, Y)] = build[from + (Address(v.off, X, Y) - to)]
      BY <2>5, <3>4, <3>5
    <3>7. from + (Address(v.off, X, Y) - to) = Address(img3_off, X, Y)
      BY <1>2, <2>2, <3>1, <3>2, <3>3
    <3> QED BY <3>6, <3>7
  <2> QED BY <1>1, <2>1, <2>9, <2>10
<1> QED BY <1>4, <1>6, <1>7

-----------------------------------------------------------------------------
(* The steps. *)

\* The invariant's facts about the view.
LEMMA InRoom ==
  ASSUME IInv
  PROVE  /\ photo \in Photos /\ object \in Objects
         /\ photo.w \in Nat /\ photo.h \in Nat /\ SCROLL_X_DIM \in Nat /\ SCROLL_Y_DIM \in Nat
         /\ photo.w >= SCROLL_X_DIM /\ photo.h >= SCROLL_Y_DIM
         /\ map_x \in 0 .. photo.w - SCROLL_X_DIM /\ map_y \in 0 .. photo.h - SCROLL_Y_DIM
         /\ map_x \in Nat /\ map_y \in Nat
<1>1. photo \in Photos /\ object \in Objects /\ SCROLL_X_DIM \in Nat /\ SCROLL_Y_DIM \in Nat
  BY Sizes DEF IInv, TypeOK, H
<1>2. photo.w \in Nat /\ photo.h \in Nat /\ photo.w >= SCROLL_X_DIM /\ photo.h >= SCROLL_Y_DIM
  BY <1>1, Places
<1>3. map_x \in 0 .. photo.w - SCROLL_X_DIM /\ map_y \in 0 .. photo.h - SCROLL_Y_DIM
  BY DEF IInv, TypeOK
<1>4. map_x \in Nat /\ map_y \in Nat
  BY <1>1, <1>2, <1>3
<1> QED BY <1>1, <1>2, <1>3, <1>4

\* A pan to (x,y) draws the pixels in D, and all others were in the old view.
Redrawn(x, y, v, D, image) ==
  /\ v = set_view_window(x, y)
  /\ D \subseteq Pixels /\ DOMAIN image = D
  /\ \A q \in D : image[q] = Pixel(photo, object, x + q[1], y + q[2])
  /\ \A q \in Pixels \ D : (x + q[1]) - map_x \in Columns /\ (y + q[2]) - map_y \in Rows
  /\ Show(v, Drawn(v, image))

\* Then the new view is complete.
LEMMA PanOK ==
  ASSUME IInv, NEW x \in 0 .. photo.w - SCROLL_X_DIM, NEW y \in 0 .. photo.h - SCROLL_Y_DIM,
         NEW v, NEW D, NEW image, Redrawn(x, y, v, D, image), UNCHANGED <<photo, object>>
  PROVE  IInv'
<1>0. /\ v = set_view_window(x, y)
      /\ D \subseteq Pixels /\ DOMAIN image = D
      /\ \A q \in D : image[q] = Pixel(photo, object, x + q[1], y + q[2])
      /\ \A q \in Pixels \ D : (x + q[1]) - map_x \in Columns /\ (y + q[2]) - map_y \in Rows
      /\ Show(v, Drawn(v, image))
  BY DEF Redrawn
<1>1. /\ photo \in Photos /\ object \in Objects /\ photo.w \in Nat /\ photo.h \in Nat
      /\ SCROLL_X_DIM \in Nat /\ SCROLL_Y_DIM \in Nat /\ map_x \in Nat /\ map_y \in Nat
  BY InRoom
<1>2. x \in Nat /\ y \in Nat
  BY <1>1
<1>3. /\ View(v) /\ v.x = x /\ v.y = y /\ Fenced(v.build)
      /\ \A X, Y \in Nat :
           /\ X >= x /\ X >= map_x /\ X <= x + SCROLL_X_DIM - 1 /\ X <= map_x + SCROLL_X_DIM - 1
           /\ Y >= y /\ Y >= map_y /\ Y <= y + SCROLL_Y_DIM - 1 /\ Y <= map_y + SCROLL_Y_DIM - 1
           => v.build[Address(v.off, X, Y)] = build[Address(img3_off, X, Y)]
  BY <1>0, <1>2, Moved
<1>4. ASSUME NEW q \in Pixels \ D PROVE v.build[Spot(v, q)] = Pixel(photo, object, v.x + q[1], v.y + q[2])
  <2> DEFINE X == x + q[1]
             Y == y + q[2]
             a == X - map_x
             b == Y - map_y
  <2>1. q[1] \in 0 .. SCROLL_X_DIM - 1 /\ q[2] \in 0 .. SCROLL_Y_DIM - 1
    BY DEF Pixels, Columns, Rows
  <2>2. a \in Columns /\ b \in Rows
    BY <1>0, <1>4
  <2>3. X \in Nat /\ Y \in Nat /\ a \in 0 .. SCROLL_X_DIM - 1 /\ b \in 0 .. SCROLL_Y_DIM - 1
    BY <1>1, <1>2, <2>1, <2>2 DEF Columns, Rows
  <2>4. map_x + a = X /\ map_y + b = Y
    BY <1>1, <2>3
  <2>5. Spot(v, q) = Address(v.off, X, Y)
    BY <1>3 DEF Spot
  <2>6. /\ X >= x /\ X >= map_x /\ X <= x + SCROLL_X_DIM - 1 /\ X <= map_x + SCROLL_X_DIM - 1
        /\ Y >= y /\ Y >= map_y /\ Y <= y + SCROLL_Y_DIM - 1 /\ Y <= map_y + SCROLL_Y_DIM - 1
    BY <1>1, <1>2, <2>1, <2>3
  <2>7. v.x + q[1] = X /\ v.y + q[2] = Y
    BY <1>3
  <2> HIDE DEF a, b, X, Y
  <2>8. v.build[Address(v.off, X, Y)] = build[Address(img3_off, X, Y)]
    BY <1>3, <2>3, <2>6
  <2>9. build[Address(img3_off, map_x + a, map_y + b)] = Scene(map_x + a, map_y + b)
    BY <2>2 DEF IInv, Held
  <2>10. Scene(X, Y) = Pixel(photo, object, X, Y)
    BY DEF Scene, Pixel
  <2> QED BY <2>4, <2>5, <2>7, <2>8, <2>9, <2>10
<1>5. Holds(v.build, v, photo, object, Pixels \ D)
  BY <1>4 DEF Holds
<1>6. \A q \in D : image[q] = Pixel(photo, object, v.x + q[1], v.y + q[2])
  BY <1>0, <1>3
<1>7. Fenced(Drawn(v, image)) /\ Holds(Drawn(v, image), v, photo, object, Pixels)
  <2>1. PICK p, o : p = photo /\ o = object
    OBVIOUS
  <2>2. /\ Holds(v.build, v, p, o, Pixels \ D) /\ Fenced(v.build) /\ View(v)
        /\ D \subseteq Pixels /\ DOMAIN image = D
        /\ \A q \in D : image[q] = Pixel(p, o, v.x + q[1], v.y + q[2])
    BY <1>0, <1>3, <1>5, <1>6, <2>1
  <2>3. Fenced(Drawn(v, image)) /\ Holds(Drawn(v, image), v, p, o, Pixels)
    BY <2>2, Painted
  <2> QED BY <2>1, <2>3
<1>8. InPhoto(v, photo)
  BY <1>3 DEF InPhoto
<1> QED BY <1>0, <1>1, <1>3, <1>7, <1>8, Shows

\* Drawing some rows of a view is drawing the pixels of the room in them,
LEMMA HorizImage ==
  ASSUME NEW p \in Photos, NEW o \in Objects, NEW v, InPhoto(v, p), NEW lines
  PROVE  \E D, image : /\ D = Columns \X (lines \cap Rows) /\ D \subseteq Pixels /\ DOMAIN image = D
                       /\ draw_horiz_line(v, p, o, lines) = Drawn(v, image)
                       /\ \A q \in D : image[q] = Pixel(p, o, v.x + q[1], v.y + q[2])
<1> DEFINE D == Columns \X (lines \cap Rows)
           image == [q \in D |-> fill_horiz_buffer(p, o, v.x, v.y + q[2])[q[1]]]
<1>1. D \subseteq Pixels /\ DOMAIN image = D
  BY DEF Pixels
<1>2. draw_horiz_line(v, p, o, lines) = Drawn(v, image)
  BY DEF draw_horiz_line
<1>3. ASSUME NEW q \in D PROVE image[q] = Pixel(p, o, v.x + q[1], v.y + q[2])
  <2>1. q[1] \in Columns /\ q[2] \in Rows
    BY <1>3
  <2>2. v.y + q[2] \in 0 .. p.h - 1
    BY <2>1, Places, Sizes DEF InPhoto, Rows, H
  <2>3. fill_horiz_buffer(p, o, v.x, v.y + q[2])[q[1]] = Pixel(p, o, v.x + q[1], v.y + q[2])
    BY <2>1, <2>2, HorizLine DEF InPhoto
  <2> QED BY <2>3
<1> HIDE DEF D, image
<1>4. D = Columns \X (lines \cap Rows)
  BY DEF D
<1> QED BY <1>1, <1>2, <1>3, <1>4

\* and so is drawing some columns.
LEMMA VertImage ==
  ASSUME NEW p \in Photos, NEW o \in Objects, NEW v, InPhoto(v, p), NEW lines
  PROVE  \E D, image : /\ D = (lines \cap Columns) \X Rows /\ D \subseteq Pixels /\ DOMAIN image = D
                       /\ draw_vert_line(v, p, o, lines) = Drawn(v, image)
                       /\ \A q \in D : image[q] = Pixel(p, o, v.x + q[1], v.y + q[2])
<1> DEFINE D == (lines \cap Columns) \X Rows
           image == [q \in D |-> fill_vert_buffer(p, o, v.x + q[1], v.y)[q[2]]]
<1>1. D \subseteq Pixels /\ DOMAIN image = D
  BY DEF Pixels
<1>2. draw_vert_line(v, p, o, lines) = Drawn(v, image)
  BY DEF draw_vert_line
<1>3. ASSUME NEW q \in D PROVE image[q] = Pixel(p, o, v.x + q[1], v.y + q[2])
  <2>1. q[1] \in Columns /\ q[2] \in Rows
    BY <1>3
  <2>2. v.x + q[1] \in 0 .. p.w - 1
    BY <2>1, Places, Sizes DEF InPhoto, Columns
  <2>3. fill_vert_buffer(p, o, v.x + q[1], v.y)[q[2]] = Pixel(p, o, v.x + q[1], v.y + q[2])
    BY <2>1, <2>2, VertLine DEF InPhoto
  <2> QED BY <2>3
<1> HIDE DEF D, image
<1>4. D = (lines \cap Columns) \X Rows
  BY DEF D
<1> QED BY <1>1, <1>2, <1>3, <1>4

\* A pan by rows: those that are not drawn were in view before,
LEMMA RowsOK ==
  ASSUME IInv, NEW y \in 0 .. photo.h - SCROLL_Y_DIM, NEW lines,
         \A r \in Rows \ lines : (y + r) - map_y \in Rows,
         Show(set_view_window(map_x, y),
              draw_horiz_line(set_view_window(map_x, y), photo, object, lines)),
         UNCHANGED <<photo, object>>
  PROVE  IInv'
<1>1. PICK v : v = set_view_window(map_x, y)
  OBVIOUS
<1>2. /\ photo \in Photos /\ object \in Objects /\ map_x \in 0 .. photo.w - SCROLL_X_DIM /\ map_x \in Nat
  BY InRoom
<1>3. v.x = map_x /\ v.y = y
  BY <1>1 DEF set_view_window
<1>4. InPhoto(v, photo)
  BY <1>2, <1>3 DEF InPhoto
<1>5. PICK D, image : /\ D = Columns \X (lines \cap Rows) /\ D \subseteq Pixels /\ DOMAIN image = D
                      /\ draw_horiz_line(v, photo, object, lines) = Drawn(v, image)
                      /\ \A q \in D : image[q] = Pixel(photo, object, v.x + q[1], v.y + q[2])
  BY <1>2, <1>4, HorizImage
<1>6. ASSUME NEW q \in Pixels \ D PROVE (map_x + q[1]) - map_x \in Columns /\ (y + q[2]) - map_y \in Rows
  <2>1. q[1] \in Columns /\ q[2] \in Rows \ lines
    BY <1>5, <1>6 DEF Pixels
  <2>2. q[1] \in Nat
    BY <2>1, Sizes DEF Columns
  <2>3. (map_x + q[1]) - map_x = q[1]
    BY <1>2, <2>2
  <2> QED BY <2>1, <2>3
<1>7. Show(v, Drawn(v, image))
  BY <1>1, <1>5
<1>8. \A q \in D : image[q] = Pixel(photo, object, map_x + q[1], y + q[2])
  BY <1>3, <1>5
<1>9. Redrawn(map_x, y, v, D, image)
  BY <1>1, <1>5, <1>6, <1>7, <1>8 DEF Redrawn
<1> QED BY <1>2, <1>9, PanOK

\* and a pan by columns.
LEMMA ColumnsOK ==
  ASSUME IInv, NEW x \in 0 .. photo.w - SCROLL_X_DIM, NEW lines,
         \A c \in Columns \ lines : (x + c) - map_x \in Columns,
         Show(set_view_window(x, map_y),
              draw_vert_line(set_view_window(x, map_y), photo, object, lines)),
         UNCHANGED <<photo, object>>
  PROVE  IInv'
<1>1. PICK v : v = set_view_window(x, map_y)
  OBVIOUS
<1>2. /\ photo \in Photos /\ object \in Objects /\ map_y \in 0 .. photo.h - SCROLL_Y_DIM /\ map_y \in Nat
  BY InRoom
<1>3. v.x = x /\ v.y = map_y
  BY <1>1 DEF set_view_window
<1>4. InPhoto(v, photo)
  BY <1>2, <1>3 DEF InPhoto
<1>5. PICK D, image : /\ D = (lines \cap Columns) \X Rows /\ D \subseteq Pixels /\ DOMAIN image = D
                      /\ draw_vert_line(v, photo, object, lines) = Drawn(v, image)
                      /\ \A q \in D : image[q] = Pixel(photo, object, v.x + q[1], v.y + q[2])
  BY <1>2, <1>4, VertImage
<1>6. ASSUME NEW q \in Pixels \ D PROVE (x + q[1]) - map_x \in Columns /\ (map_y + q[2]) - map_y \in Rows
  <2>1. q[1] \in Columns \ lines /\ q[2] \in Rows
    BY <1>5, <1>6 DEF Pixels
  <2>2. q[2] \in Nat
    BY <2>1, Sizes DEF Rows, H
  <2>3. (map_y + q[2]) - map_y = q[2]
    BY <1>2, <2>2
  <2> QED BY <2>1, <2>3
<1>7. Show(v, Drawn(v, image))
  BY <1>1, <1>5
<1>8. \A q \in D : image[q] = Pixel(photo, object, x + q[1], map_y + q[2])
  BY <1>3, <1>5
<1>9. Redrawn(x, map_y, v, D, image)
  BY <1>1, <1>5, <1>6, <1>7, <1>8 DEF Redrawn
<1> QED BY <1>2, <1>9, PanOK

\* Drawing all of the view.
LEMMA RedrawOK ==
  ASSUME NEW p \in Photos, NEW o \in Objects, NEW v, View(v), InPhoto(v, p), Fenced(v.build)
  PROVE  Fenced(redraw_room(v, p, o)) /\ Holds(redraw_room(v, p, o), v, p, o, Pixels)
<1>1. PICK D, image : /\ D = Columns \X (Rows \cap Rows) /\ D \subseteq Pixels /\ DOMAIN image = D
                      /\ draw_horiz_line(v, p, o, Rows) = Drawn(v, image)
                      /\ \A q \in D : image[q] = Pixel(p, o, v.x + q[1], v.y + q[2])
  BY HorizImage
<1>2. D = Pixels /\ D \subseteq Pixels /\ DOMAIN image = D
  BY <1>1 DEF Pixels
<1>3. Holds(v.build, v, p, o, Pixels \ D)
  BY <1>2 DEF Holds
<1>4. \A q \in D : image[q] = Pixel(p, o, v.x + q[1], v.y + q[2])
  BY <1>1
<1>5. Fenced(Drawn(v, image)) /\ Holds(Drawn(v, image), v, p, o, Pixels)
  BY <1>2, <1>3, <1>4, Painted
<1> QED BY <1>1, <1>5 DEF redraw_room

\* The four ways to pan: delta is limited so that the view stays in the photo,
\* and a pan by more than the screen draws all of it.
LEMMA DownOK ==
  ASSUME IInv, NEW s \in Speeds, move_photo_down(s) PROVE IInv'
<1> DEFINE delta == Smaller(s, map_y)
           y == map_y - delta
           lines == 0 .. delta - 1
<1>1. /\ s \in Nat /\ photo.h \in Nat /\ SCROLL_Y_DIM \in Nat
      /\ map_y \in 0 .. photo.h - SCROLL_Y_DIM /\ map_y \in Nat
  BY InRoom, ScreenAssumption
<1>2. delta \in 0 .. map_y
  BY <1>1 DEF Smaller
<1>3. /\ Show(set_view_window(map_x, y), draw_horiz_line(set_view_window(map_x, y), photo, object, lines))
      /\ UNCHANGED <<photo, object>>
  BY DEF move_photo_down
<1> HIDE DEF delta
<1>4. y \in 0 .. photo.h - SCROLL_Y_DIM
  BY <1>1, <1>2
<1>5. \A r \in Rows \ lines : (y + r) - map_y \in Rows
  BY <1>1, <1>2 DEF Rows
<1> HIDE DEF y, lines
<1> QED BY <1>3, <1>4, <1>5, RowsOK

\* The photo moves up.
LEMMA UpOK ==
  ASSUME IInv, NEW s \in Speeds, move_photo_up(s) PROVE IInv'
<1> DEFINE delta == Smaller(s, photo.h - SCROLL_Y_DIM - map_y)
           y == map_y + delta
           lines == SCROLL_Y_DIM - delta .. SCROLL_Y_DIM - 1
<1>1. /\ s \in Nat /\ photo.h \in Nat /\ SCROLL_Y_DIM \in Nat
      /\ map_y \in 0 .. photo.h - SCROLL_Y_DIM /\ map_y \in Nat
  BY InRoom, ScreenAssumption
<1>2. delta \in 0 .. photo.h - SCROLL_Y_DIM - map_y
  BY <1>1 DEF Smaller
<1>3. /\ Show(set_view_window(map_x, y), draw_horiz_line(set_view_window(map_x, y), photo, object, lines))
      /\ UNCHANGED <<photo, object>>
  BY DEF move_photo_up
<1> HIDE DEF delta
<1>4. y \in 0 .. photo.h - SCROLL_Y_DIM
  BY <1>1, <1>2
<1>5. \A r \in Rows \ lines : (y + r) - map_y \in Rows
  BY <1>1, <1>2 DEF Rows
<1> HIDE DEF y, lines
<1> QED BY <1>3, <1>4, <1>5, RowsOK

\* The photo moves right.
LEMMA RightOK ==
  ASSUME IInv, NEW s \in Speeds, move_photo_right(s) PROVE IInv'
<1> DEFINE delta == Smaller(s, map_x)
           x == map_x - delta
           lines == 0 .. delta - 1
<1>1. /\ s \in Nat /\ photo.w \in Nat /\ SCROLL_X_DIM \in Nat
      /\ map_x \in 0 .. photo.w - SCROLL_X_DIM /\ map_x \in Nat
  BY InRoom, ScreenAssumption
<1>2. delta \in 0 .. map_x
  BY <1>1 DEF Smaller
<1>3. /\ Show(set_view_window(x, map_y), draw_vert_line(set_view_window(x, map_y), photo, object, lines))
      /\ UNCHANGED <<photo, object>>
  BY DEF move_photo_right
<1> HIDE DEF delta
<1>4. x \in 0 .. photo.w - SCROLL_X_DIM
  BY <1>1, <1>2
<1>5. \A c \in Columns \ lines : (x + c) - map_x \in Columns
  BY <1>1, <1>2 DEF Columns
<1> HIDE DEF x, lines
<1> QED BY <1>3, <1>4, <1>5, ColumnsOK

\* The photo moves left.
LEMMA LeftOK ==
  ASSUME IInv, NEW s \in Speeds, move_photo_left(s) PROVE IInv'
<1> DEFINE delta == Smaller(s, photo.w - SCROLL_X_DIM - map_x)
           x == map_x + delta
           lines == SCROLL_X_DIM - delta .. SCROLL_X_DIM - 1
<1>1. /\ s \in Nat /\ photo.w \in Nat /\ SCROLL_X_DIM \in Nat
      /\ map_x \in 0 .. photo.w - SCROLL_X_DIM /\ map_x \in Nat
  BY InRoom, ScreenAssumption
<1>2. delta \in 0 .. photo.w - SCROLL_X_DIM - map_x
  BY <1>1 DEF Smaller
<1>3. /\ Show(set_view_window(x, map_y), draw_vert_line(set_view_window(x, map_y), photo, object, lines))
      /\ UNCHANGED <<photo, object>>
  BY DEF move_photo_left
<1> HIDE DEF delta
<1>4. x \in 0 .. photo.w - SCROLL_X_DIM
  BY <1>1, <1>2
<1>5. \A c \in Columns \ lines : (x + c) - map_x \in Columns
  BY <1>1, <1>2 DEF Columns
<1> HIDE DEF x, lines
<1> QED BY <1>3, <1>4, <1>5, ColumnsOK

\* The corner of every photo is a view of it.
LEMMA Corner ==
  ASSUME NEW p \in Photos PROVE 0 \in 0 .. p.w - SCROLL_X_DIM /\ 0 \in 0 .. p.h - SCROLL_Y_DIM
BY Places, Sizes DEF H

\* The player enters a room.
LEMMA EnterOK ==
  ASSUME IInv, NEW p \in Photos, NEW o \in Objects, EnterRoom(p, o) PROVE IInv'
<1>1. PICK v : v = set_view_window(0, 0)
  OBVIOUS
<1>2. photo' = p /\ object' = o /\ Show(v, redraw_room(v, p, o))
  BY <1>1 DEF EnterRoom
<1>3. View(v) /\ v.x = 0 /\ v.y = 0 /\ Fenced(v.build)
  <2>1. 0 \in Nat
    OBVIOUS
  <2> QED BY <1>1, <2>1, Moved
<1>4. InPhoto(v, p)
  BY <1>3, Corner DEF InPhoto
<1>5. Fenced(redraw_room(v, p, o)) /\ Holds(redraw_room(v, p, o), v, p, o, Pixels)
  BY <1>3, <1>4, RedrawOK
<1> QED BY <1>2, <1>3, <1>4, <1>5, Shows

\* An object is moved while the view stays.
LEMMA MoveObjectOK ==
  ASSUME IInv, NEW o \in Objects, MoveObject(o) PROVE IInv'
<1>1. PICK v, p : v = [x |-> show_x, y |-> show_y, off |-> img3_off, build |-> build] /\ p = photo
  OBVIOUS
<1>2. photo' = p /\ object' = o /\ Show(v, redraw_room(v, p, o))
  BY <1>1 DEF MoveObject
<1>3. v.x = map_x /\ v.y = map_y /\ v.off = img3_off /\ v.build = build
  BY <1>1 DEF IInv, TypeOK
<1>4. View(v)
  <2>1. map_x \in Nat /\ map_y \in Nat
    BY InRoom
  <2>2. Inside(img3_off, map_x, map_y)
    BY FitsInside DEF IInv, TypeOK
  <2> QED BY <1>3, <2>1, <2>2 DEF IInv, View
<1>5. InPhoto(v, p) /\ p \in Photos
  BY <1>1, <1>3, InRoom DEF InPhoto
<1>6. Fenced(v.build)
  BY <1>3 DEF IInv, TypeOK, FenceIntact, Fenced
<1>7. Fenced(redraw_room(v, p, o)) /\ Holds(redraw_room(v, p, o), v, p, o, Pixels)
  BY <1>4, <1>5, <1>6, RedrawOK
<1> QED BY <1>2, <1>4, <1>5, <1>7, Shows

\* The first room, drawn into the empty buffer.
LEMMA InitOK ==
  ASSUME Init PROVE IInv
<1>1. PICK p \in Photos, o \in Objects :
        LET empty == [i \in Memory |-> IF i \in Buffer THEN Black ELSE Magic]
            v == [x |-> 0, y |-> 0, off |-> BUILD_BASE_INIT, build |-> empty]
        IN  /\ photo = p /\ object = o
            /\ map_x = 0 /\ map_y = 0 /\ show_x = 0 /\ show_y = 0
            /\ img3_off = BUILD_BASE_INIT
            /\ build = redraw_room(v, p, o)
            /\ screen = show_screen(v, build)
  BY DEF Init
<1>2. PICK v : v = [x |-> 0, y |-> 0, off |-> BUILD_BASE_INIT,
                    build |-> [i \in Memory |-> IF i \in Buffer THEN Black ELSE Magic]]
  OBVIOUS
<1>3. /\ photo = p /\ object = o /\ map_x = 0 /\ map_y = 0 /\ show_x = 0 /\ show_y = 0
      /\ img3_off = BUILD_BASE_INIT /\ build = redraw_room(v, p, o) /\ screen = show_screen(v, build)
  BY <1>1, <1>2
<1>4. /\ v.x = 0 /\ v.y = 0 /\ v.off = BUILD_BASE_INIT
      /\ v.build = [i \in Memory |-> IF i \in Buffer THEN Black ELSE Magic]
  BY <1>2
<1>5. Fenced(v.build)
  <2>1. Black # Magic
    BY DEF Black, Magic
  <2> QED BY <1>4, <2>1 DEF Fenced
<1>6. View(v)
  <2>1. Centred(0, 0) = BUILD_BASE_INIT
    <3>1. 0 \div 4 = 0 /\ 0 * W = 0 /\ BUILD_BASE_INIT \in Int
      BY Sizes
    <3> QED BY <3>1 DEF Centred, W
  <2>2. Centred(0, 0) \in Int /\ Inside(Centred(0, 0), 0, 0)
    <3>1. 0 \in Nat
      OBVIOUS
    <3> QED BY <3>1, CentredInside
  <2> QED BY <1>4, <2>1, <2>2 DEF View
<1>7. InPhoto(v, p)
  BY <1>4, Corner DEF InPhoto
<1>8. Fenced(build) /\ Holds(build, v, p, o, Pixels)
  BY <1>3, <1>5, <1>6, <1>7, RedrawOK
<1>9. ASSUME NEW x \in Columns, NEW y \in Rows
      PROVE  /\ build[Address(img3_off, map_x + x, map_y + y)] = Scene(map_x + x, map_y + y)
             /\ screen[<<x, y>>] = Scene(map_x + x, map_y + y)
  <2>1. <<x, y>> \in Pixels /\ <<x, y>>[1] = x /\ <<x, y>>[2] = y
    BY DEF Pixels
  <2>2. build[Spot(v, <<x, y>>)] = Pixel(p, o, map_x + x, map_y + y)
    BY <1>3, <1>4, <1>8, <2>1 DEF Holds
  <2>3. Spot(v, <<x, y>>) = Address(img3_off, map_x + x, map_y + y)
    BY <1>3, <1>4, <2>1 DEF Spot
  <2>4. screen[<<x, y>>] = build[Spot(v, <<x, y>>)]
    BY <1>3, <1>6, <2>1, ScreenPixels
  <2>5. Scene(map_x + x, map_y + y) = Pixel(p, o, map_x + x, map_y + y)
    BY <1>3 DEF Scene, Pixel
  <2> QED BY <2>2, <2>3, <2>4, <2>5
<1>10. Held /\ ScreenShowsRoom
  BY <1>9 DEF Held, ScreenShowsRoom
<1>11. Fits(show_x, show_y) /\ img3_off \in Int
  BY <1>3, <1>4, <1>6, FitsInside DEF View
<1>12. TypeOK /\ FenceIntact
  BY <1>3, <1>4, <1>7, <1>8, <1>11 DEF TypeOK, InPhoto, FenceIntact, Fenced
<1> QED BY <1>10, <1>11, <1>12 DEF IInv

\* A step that changes nothing.
LEMMA StutterOK ==
  ASSUME IInv, UNCHANGED vars PROVE IInv'
<1>1. UNCHANGED <<photo, object, map_x, map_y, show_x, show_y, img3_off, build, screen>>
  BY DEF vars
<1>2. Fits(show_x, show_y)' <=> Fits(show_x, show_y)
  BY <1>1 DEF Fits
<1>3. \A x, y : Scene(x, y)' = Scene(x, y)
  BY <1>1 DEF Scene
<1>4. TypeOK' /\ img3_off' \in Int /\ FenceIntact'
  BY <1>1, <1>2 DEF IInv, TypeOK, FenceIntact
<1>5. Held' /\ ScreenShowsRoom'
  BY <1>1, <1>3 DEF IInv, Held, ScreenShowsRoom
<1> QED BY <1>4, <1>5 DEF IInv

-----------------------------------------------------------------------------
(* Sums over finite sets. *)

\* The sum of g over T, as the palette takes it, and the recursion it is
\* defined by.
SumOf(g, T) == MapThenSumSet(LAMBDA n : g[n], T)
Picked(s) == CHOOSE x \in s : TRUE
SumStep(g, f, s) == IF s = {} THEN 0 ELSE g[Picked(s)] + f[s \ {Picked(s)}]
Recurs(g, U, f) == f = [s \in SUBSET U |-> SumStep(g, f, s)]
Iter(g, U) == CHOOSE f : Recurs(g, U, f)

\* The fold of the community modules is that recursion.
LEMMA SumIter == ASSUME NEW g, NEW T PROVE SumOf(g, T) = Iter(g, T)[T]
BY DEF SumOf, MapThenSumSet, MapThenFoldSet, Iter, Recurs, SumStep, Picked

\* A set of subsets of a finite set has a smallest one.
LEMMA SmallestSet ==
  ASSUME NEW U, IsFiniteSet(U), NEW Q, Q \subseteq SUBSET U, Q # {}
  PROVE  \E A \in Q : \A B \in Q : B \subseteq A => B = A
<1>1. IsWellFoundedOn(StrictSubsetOrdering(U), SUBSET U)
  BY FS_StrictSubsetOrderingWellFounded, FS_FiniteSubsetsOfFinite
<1>2. PICK A \in Q : \A B \in Q : ~(<<B, A>> \in StrictSubsetOrdering(U))
  BY <1>1, WFMin
<1>3. ASSUME NEW B \in Q, B \subseteq A PROVE B = A
  BY <1>2, <1>3 DEF StrictSubsetOrdering
<1> QED BY <1>3

\* The element the fold takes out next.
LEMMA PickedIn == ASSUME NEW s, s # {} PROVE Picked(s) \in s
BY DEF Picked

\* Two functions that follow the recursion agree where both are defined.
LEMMA SumUnique ==
  ASSUME NEW g, NEW A, NEW B, NEW e, NEW f, Recurs(g, A, e), Recurs(g, B, f),
         NEW T, IsFiniteSet(T), T \subseteq A, T \subseteq B
  PROVE  e[T] = f[T]
<1> DEFINE Q == {s \in SUBSET T : e[s] # f[s]}
<1> SUFFICES ASSUME Q # {} PROVE FALSE
  OBVIOUS
<1>0. Q \subseteq SUBSET T
  OBVIOUS
<1>1. PICK s \in Q : \A t \in Q : t \subseteq s => t = s
  <2> HIDE DEF Q
  <2> QED BY <1>0, SmallestSet
<1>2. s \in SUBSET A /\ s \in SUBSET B /\ e[s] = SumStep(g, e, s) /\ f[s] = SumStep(g, f, s)
  BY DEF Recurs
<1>3. s # {}
  BY <1>2 DEF SumStep
<1> DEFINE t == s \ {Picked(s)}
<1>4. t \subseteq s /\ t # s
  BY <1>3, PickedIn
<1>5. t \notin Q /\ t \in SUBSET T
  BY <1>1, <1>4
<1>6. e[t] = f[t]
  BY <1>5
<1> QED BY <1>2, <1>3, <1>6 DEF SumStep

\* There is such a function.
LEMMA SumExists ==
  ASSUME NEW g, NEW U, IsFiniteSet(U)
  PROVE  Recurs(g, U, Iter(g, U))
<1> SUFFICES \E f : Recurs(g, U, f)
  BY DEF Iter
<1> DEFINE Q == {A \in SUBSET U : ~\E f : Recurs(g, A, f)}
<1> SUFFICES ASSUME Q # {} PROVE FALSE
  OBVIOUS
<1>0. Q \subseteq SUBSET U
  OBVIOUS
<1>1. PICK A \in Q : \A B \in Q : B \subseteq A => B = A
  <2> HIDE DEF Q
  <2> QED BY <1>0, SmallestSet
<1>2. ASSUME NEW B \in SUBSET A, B # A PROVE Recurs(g, B, Iter(g, B))
  <2>1. \E f : Recurs(g, B, f)
    BY <1>1, <1>2
  <2> QED BY <2>1 DEF Iter
<1> DEFINE Less(s) == s \ {Picked(s)}
           f == [s \in SUBSET A |-> IF s = {} THEN 0 ELSE g[Picked(s)] + Iter(g, Less(s))[Less(s)]]
<1>3. ASSUME NEW s \in SUBSET A, s # {} PROVE Less(s) \in SUBSET A /\ Less(s) # A /\ Less(s) \subseteq s
  BY <1>3, PickedIn
<1>4. ASSUME NEW s \in SUBSET A, s # A PROVE f[s] = Iter(g, s)[s]
  <2>1. Iter(g, s)[s] = SumStep(g, Iter(g, s), s)
    BY <1>2, <1>4 DEF Recurs
  <2>2. CASE s = {}
    BY <2>1, <2>2 DEF SumStep
  <2>3. CASE s # {}
    <3>1. Less(s) \in SUBSET A /\ Less(s) # A /\ Less(s) \subseteq s
      BY <1>3, <2>3
    <3>2. Recurs(g, Less(s), Iter(g, Less(s))) /\ Recurs(g, s, Iter(g, s))
      BY <1>2, <1>4, <3>1
    <3>3. IsFiniteSet(Less(s))
      BY <3>1, FS_Subset
    <3>4. Iter(g, s)[Less(s)] = Iter(g, Less(s))[Less(s)]
      BY <3>1, <3>2, <3>3, SumUnique
    <3> QED BY <2>1, <2>3, <3>4 DEF SumStep
  <2> QED BY <2>2, <2>3
<1>5. ASSUME NEW s \in SUBSET A PROVE f[s] = SumStep(g, f, s)
  <2>1. CASE s = {}
    BY <2>1 DEF SumStep
  <2>2. CASE s # {}
    <3>1. f[Less(s)] = Iter(g, Less(s))[Less(s)]
      BY <1>3, <1>4, <2>2
    <3>2. f[s] = g[Picked(s)] + Iter(g, Less(s))[Less(s)]
      BY <2>2
    <3> HIDE DEF f
    <3> QED BY <2>2, <3>1, <3>2 DEF SumStep
  <2> QED BY <2>1, <2>2
<1>6. f = [s \in SUBSET A |-> SumStep(g, f, s)]
  <2>1. f = [s \in SUBSET A |-> f[s]]
    OBVIOUS
  <2> HIDE DEF f
  <2> QED BY <1>5, <2>1
<1>7. Recurs(g, A, f)
  <2> HIDE DEF f
  <2> QED BY <1>6 DEF Recurs
<1> QED BY <1>1, <1>7

\* The recursion, between sums.
LEMMA SumPicked ==
  ASSUME NEW g, NEW T, IsFiniteSet(T)
  PROVE  SumOf(g, T) = IF T = {} THEN 0 ELSE g[Picked(T)] + SumOf(g, T \ {Picked(T)})
<1>1. SumOf(g, T) = SumStep(g, Iter(g, T), T)
  <2> DEFINE f == Iter(g, T)
  <2>0. Recurs(g, T, f)
    BY SumExists
  <2> HIDE DEF f
  <2>1. f = [s \in SUBSET T |-> SumStep(g, f, s)]
    BY <2>0 DEF Recurs
  <2>2. f[T] = SumStep(g, f, T)
    BY <2>1
  <2> QED BY <2>2, SumIter DEF f
<1>2. CASE T = {}
  BY <1>1, <1>2 DEF SumStep
<1>3. CASE T # {}
  <2> DEFINE B == T \ {Picked(T)}
  <2>1. IsFiniteSet(B)
    BY FS_Subset
  <2>2. Recurs(g, T, Iter(g, T)) /\ Recurs(g, B, Iter(g, B))
    BY <2>1, SumExists
  <2>3. Iter(g, T)[B] = Iter(g, B)[B]
    BY <2>1, <2>2, SumUnique
  <2> QED BY <1>1, <1>3, <2>3, SumIter DEF SumStep
<1> QED BY <1>2, <1>3

\* Nothing sums up to nothing.
LEMMA SumEmpty == ASSUME NEW g PROVE SumOf(g, {}) = 0
BY SumPicked, FS_EmptySet

\* A sum of integers is an integer.
LEMMA SumType ==
  ASSUME NEW g, NEW T, IsFiniteSet(T), \A x \in T : g[x] \in Int
  PROVE  SumOf(g, T) \in Int
<1> DEFINE Q == {A \in SUBSET T : SumOf(g, A) \notin Int}
<1> SUFFICES ASSUME Q # {} PROVE FALSE
  OBVIOUS
<1>0. Q \subseteq SUBSET T
  OBVIOUS
<1>1. PICK A \in Q : \A B \in Q : B \subseteq A => B = A
  <2> HIDE DEF Q
  <2> QED BY <1>0, SmallestSet
<1>2. A # {} /\ IsFiniteSet(A)
  <2>1. SumOf(g, A) # 0
    OBVIOUS
  <2> QED BY <1>0, <2>1, SumEmpty, FS_Subset
<1> DEFINE B == A \ {Picked(A)}
<1>3. Picked(A) \in T /\ B \subseteq A /\ B # A
  BY <1>2, PickedIn
<1>4. SumOf(g, B) \in Int
  BY <1>1, <1>3
<1>5. SumOf(g, A) = g[Picked(A)] + SumOf(g, B)
  BY <1>2, SumPicked
<1> QED BY <1>3, <1>4, <1>5

\* Any element may be taken out first.
LEMMA SumWithout ==
  ASSUME NEW g, NEW T, IsFiniteSet(T), \A x \in T : g[x] \in Int, NEW y \in T
  PROVE  SumOf(g, T) = g[y] + SumOf(g, T \ {y})
<1> DEFINE Q == {A \in SUBSET T : \E x \in A : SumOf(g, A) # g[x] + SumOf(g, A \ {x})}
<1> SUFFICES ASSUME Q # {} PROVE FALSE
  OBVIOUS
<1>0. Q \subseteq SUBSET T
  OBVIOUS
<1>1. PICK A \in Q : \A B \in Q : B \subseteq A => B = A
  <2> HIDE DEF Q
  <2> QED BY <1>0, SmallestSet
<1>2. PICK x \in A : SumOf(g, A) # g[x] + SumOf(g, A \ {x})
  OBVIOUS
<1>3. A # {} /\ IsFiniteSet(A) /\ A \subseteq T
  BY <1>0, FS_Subset
<1> DEFINE z == Picked(A)
           B == A \ {z}
           C == A \ {x}
           D == A \ {x, z}
<1>4. z \in A
  BY <1>3, PickedIn
<1>5. SumOf(g, A) = g[z] + SumOf(g, B)
  BY <1>3, SumPicked
<1>6. z # x
  BY <1>2, <1>5
<1>7. B \ {x} = D /\ C \ {z} = D /\ x \in B /\ z \in C /\ B \notin Q /\ C \notin Q
  <2>1. B \ {x} = D /\ C \ {z} = D /\ x \in B /\ z \in C
    BY <1>4, <1>6
  <2>2. B \subseteq A /\ B # A /\ C \subseteq A /\ C # A
    BY <1>4
  <2> QED BY <1>1, <2>1, <2>2
<1>8. SumOf(g, B) = g[x] + SumOf(g, D)
  BY <1>3, <1>7
<1>9. SumOf(g, C) = g[z] + SumOf(g, D)
  BY <1>3, <1>7
<1>10. SumOf(g, D) \in Int /\ g[x] \in Int /\ g[z] \in Int
  <2>1. IsFiniteSet(D)
    BY <1>3, FS_Subset
  <2>2. \A u \in D : g[u] \in Int
    BY <1>3
  <2> HIDE DEF D, z
  <2>3. SumOf(g, D) \in Int
    BY <2>1, <2>2, SumType
  <2> QED BY <1>3, <1>4, <2>3
<1> HIDE DEF B, C, D, z
<1>11. g[x] + SumOf(g, C) = g[z] + SumOf(g, B)
  BY <1>8, <1>9, <1>10
<1> QED BY <1>2, <1>5, <1>11 DEF C

\* A sum over two disjoint sets.
LEMMA SumUnion ==
  ASSUME NEW g, NEW T, NEW U, IsFiniteSet(T), IsFiniteSet(U), T \cap U = {},
         \A x \in T \cup U : g[x] \in Int
  PROVE  SumOf(g, T \cup U) = SumOf(g, T) + SumOf(g, U)
<1> DEFINE Q == {A \in SUBSET T : SumOf(g, A \cup U) # SumOf(g, A) + SumOf(g, U)}
<1> SUFFICES ASSUME Q # {} PROVE FALSE
  OBVIOUS
<1>0. Q \subseteq SUBSET T
  OBVIOUS
<1>1. PICK A \in Q : \A B \in Q : B \subseteq A => B = A
  <2> HIDE DEF Q
  <2> QED BY <1>0, SmallestSet
<1>2. A \subseteq T /\ IsFiniteSet(A) /\ SumOf(g, A \cup U) # SumOf(g, A) + SumOf(g, U)
  BY <1>0, FS_Subset
<1>3. SumOf(g, U) \in Int
  BY SumType
<1>4. A # {}
  <2> SUFFICES ASSUME A = {} PROVE FALSE
    OBVIOUS
  <2>1. A \cup U = U /\ SumOf(g, A) = 0
    BY SumEmpty
  <2>2. SumOf(g, U) # 0 + SumOf(g, U)
    BY <1>2, <2>1
  <2> HIDE DEF Q
  <2> QED BY <1>3, <2>2
<1>5. PICK x \in A : TRUE
  BY <1>4
<1> DEFINE B == A \ {x}
<1>6. B \notin Q /\ B \in SUBSET T /\ IsFiniteSet(B)
  BY <1>1, <1>2, FS_Subset
<1>7. SumOf(g, B \cup U) = SumOf(g, B) + SumOf(g, U)
  BY <1>6
<1>8. SumOf(g, A) = g[x] + SumOf(g, B)
  BY <1>2, SumWithout
<1>9. SumOf(g, A \cup U) = g[x] + SumOf(g, B \cup U)
  <2>1. IsFiniteSet(A \cup U)
    BY <1>2, FS_Union
  <2>2. (A \cup U) \ {x} = B \cup U /\ x \in A \cup U /\ \A z \in A \cup U : g[z] \in Int
    BY <1>2
  <2> HIDE DEF B
  <2> QED BY <2>1, <2>2, SumWithout
<1>10. g[x] \in Int /\ SumOf(g, B) \in Int
  BY <1>2, <1>6, SumType
<1> HIDE DEF B
<1> QED BY <1>2, <1>3, <1>7, <1>8, <1>9, <1>10

\* Only the values in the set matter.
LEMMA SumSame ==
  ASSUME NEW g, NEW h, NEW T, IsFiniteSet(T), \A x \in T : g[x] = h[x]
  PROVE  SumOf(g, T) = SumOf(h, T)
<1> DEFINE Q == {A \in SUBSET T : SumOf(g, A) # SumOf(h, A)}
<1> SUFFICES ASSUME Q # {} PROVE FALSE
  OBVIOUS
<1>0. Q \subseteq SUBSET T
  OBVIOUS
<1>1. PICK A \in Q : \A B \in Q : B \subseteq A => B = A
  <2> HIDE DEF Q
  <2> QED BY <1>0, SmallestSet
<1>2. A \subseteq T /\ IsFiniteSet(A) /\ SumOf(g, A) # SumOf(h, A)
  BY <1>0, FS_Subset
<1>3. A # {}
  BY <1>2, SumEmpty
<1> DEFINE B == A \ {Picked(A)}
<1>4. Picked(A) \in A /\ B \notin Q /\ B \in SUBSET T
  BY <1>1, <1>2, <1>3, PickedIn
<1>5. SumOf(g, B) = SumOf(h, B) /\ g[Picked(A)] = h[Picked(A)]
  BY <1>2, <1>4
<1>6. SumOf(g, A) = g[Picked(A)] + SumOf(g, B) /\ SumOf(h, A) = h[Picked(A)] + SumOf(h, B)
  BY <1>2, <1>3, SumPicked
<1> QED BY <1>2, <1>5, <1>6

\* A sum of small values is small.
LEMMA SumBound ==
  ASSUME NEW g, NEW T, IsFiniteSet(T), NEW m \in Nat, \A x \in T : g[x] \in 0 .. m
  PROVE  SumOf(g, T) \in 0 .. m * Cardinality(T)
<1> DEFINE Q == {A \in SUBSET T : SumOf(g, A) \notin 0 .. m * Cardinality(A)}
<1> SUFFICES ASSUME Q # {} PROVE FALSE
  OBVIOUS
<1>0. Q \subseteq SUBSET T
  OBVIOUS
<1>1. PICK A \in Q : \A B \in Q : B \subseteq A => B = A
  <2> HIDE DEF Q
  <2> QED BY <1>0, SmallestSet
<1>2. A \subseteq T /\ IsFiniteSet(A) /\ SumOf(g, A) \notin 0 .. m * Cardinality(A)
  BY <1>0, FS_Subset
<1>3. A # {}
  <2>1. A = {} => SumOf(g, A) = 0 /\ Cardinality(A) = 0
    BY SumEmpty, FS_EmptySet
  <2> QED BY <1>2, <2>1
<1>4. PICK x \in A : TRUE
  BY <1>3
<1> DEFINE B == A \ {x}
<1>5. B \notin Q /\ B \in SUBSET T
  BY <1>1, <1>2
<1>6. SumOf(g, B) \in 0 .. m * Cardinality(B)
  BY <1>5
<1>7. SumOf(g, A) = g[x] + SumOf(g, B) /\ g[x] \in 0 .. m
  <2>1. \A z \in A : g[z] \in Int
    BY <1>2
  <2> QED BY <1>2, <2>1, SumWithout
<1>8. PICK a \in Nat, b \in Nat : a = Cardinality(A) /\ b = Cardinality(B) /\ b = a - 1
  <2>1. Cardinality(A) \in Nat /\ Cardinality(B) = Cardinality(A) - 1 /\ IsFiniteSet(B)
    BY <1>2, FS_RemoveElement, FS_CardinalityType
  <2>2. Cardinality(B) \in Nat
    BY <2>1, FS_CardinalityType
  <2> QED BY <2>1, <2>2
<1>9. m * b = m * a - m
  BY <1>8
<1>10. PICK c \in Int : c = m * a
  OBVIOUS
<1> HIDE DEF B
<1> QED BY <1>2, <1>6, <1>7, <1>8, <1>9, <1>10

\* The number of elements is a sum of ones.
LEMMA SumOnes ==
  ASSUME NEW g, NEW T, IsFiniteSet(T), \A x \in T : g[x] = 1
  PROVE  SumOf(g, T) = Cardinality(T)
<1> DEFINE Q == {A \in SUBSET T : SumOf(g, A) # Cardinality(A)}
<1> SUFFICES ASSUME Q # {} PROVE FALSE
  OBVIOUS
<1>0. Q \subseteq SUBSET T
  OBVIOUS
<1>1. PICK A \in Q : \A B \in Q : B \subseteq A => B = A
  <2> HIDE DEF Q
  <2> QED BY <1>0, SmallestSet
<1>2. A \subseteq T /\ IsFiniteSet(A) /\ SumOf(g, A) # Cardinality(A)
  BY <1>0, FS_Subset
<1>3. A # {}
  BY <1>2, SumEmpty, FS_EmptySet
<1>4. PICK x \in A : TRUE
  BY <1>3
<1> DEFINE B == A \ {x}
<1>5. B \notin Q /\ B \in SUBSET T
  BY <1>1, <1>2
<1>6. SumOf(g, B) = Cardinality(B)
  BY <1>5
<1>7. SumOf(g, A) = g[x] + SumOf(g, B) /\ g[x] = 1
  <2>1. \A z \in A : g[z] \in Int
    BY <1>2
  <2> QED BY <1>2, <2>1, SumWithout
<1>8. Cardinality(B) = Cardinality(A) - 1 /\ Cardinality(A) \in Nat
  BY <1>2, FS_RemoveElement, FS_CardinalityType
<1> HIDE DEF B
<1> QED BY <1>2, <1>6, <1>7, <1>8

\* The elements of the sets P[i], for the indices i in J.
Over(P, J) == UNION {P[i] : i \in J}

\* A sum over disjoint sets is the sum of the sums over them.
LEMMA SumFamily ==
  ASSUME NEW g, NEW P, NEW J, IsFiniteSet(J), IsFiniteSet(Over(P, J)),
         \A i, j \in J : i # j => P[i] \cap P[j] = {},
         \A x \in Over(P, J) : g[x] \in Int,
         NEW t, \A i \in J : t[i] = SumOf(g, P[i])
  PROVE  SumOf(t, J) = SumOf(g, Over(P, J))
<1> DEFINE Q == {A \in SUBSET J : SumOf(t, A) # SumOf(g, Over(P, A))}
<1> SUFFICES ASSUME Q # {} PROVE FALSE
  OBVIOUS
<1>0. Q \subseteq SUBSET J
  OBVIOUS
<1>1. PICK A \in Q : \A B \in Q : B \subseteq A => B = A
  <2> HIDE DEF Q
  <2> QED BY <1>0, SmallestSet
<1>2. A \subseteq J /\ IsFiniteSet(A) /\ SumOf(t, A) # SumOf(g, Over(P, A))
  BY <1>0, FS_Subset
<1>3. A # {}
  <2>1. A = {} => Over(P, A) = {}
    BY DEF Over
  <2> QED BY <1>2, <2>1, SumEmpty
<1>4. PICK i \in A : TRUE
  BY <1>3
<1> DEFINE B == A \ {i}
<1>5. B \notin Q /\ B \in SUBSET J
  BY <1>1, <1>2
<1>6. SumOf(t, B) = SumOf(g, Over(P, B))
  BY <1>5
<1>7. \A j \in J : P[j] \subseteq Over(P, J)
  BY DEF Over
<1>8. \A j \in J : IsFiniteSet(P[j]) /\ SumOf(g, P[j]) \in Int
  <2> TAKE j \in J
  <2>1. IsFiniteSet(P[j])
    BY <1>7, FS_Subset
  <2> QED BY <1>7, <2>1, SumType
<1>9. SumOf(t, A) = t[i] + SumOf(t, B) /\ t[i] = SumOf(g, P[i])
  <2>1. \A z \in A : t[z] \in Int
    BY <1>2, <1>8
  <2> QED BY <1>2, <2>1, SumWithout
<1>10. Over(P, A) = P[i] \cup Over(P, B) /\ P[i] \cap Over(P, B) = {}
  <2>1. Over(P, A) = P[i] \cup Over(P, B)
    BY DEF Over
  <2>2. ASSUME NEW x, x \in P[i], x \in Over(P, B) PROVE FALSE
    <3>1. PICK j \in B : x \in P[j]
      BY <2>2 DEF Over
    <3> QED BY <1>2, <2>2, <3>1
  <2> QED BY <2>1, <2>2
<1>11. Over(P, B) \subseteq Over(P, J)
  BY <1>5 DEF Over
<1>12. IsFiniteSet(Over(P, B)) /\ IsFiniteSet(P[i]) /\ \A x \in P[i] \cup Over(P, B) : g[x] \in Int
  BY <1>2, <1>7, <1>8, <1>11, FS_Subset
<1>13. SumOf(g, Over(P, A)) = SumOf(g, P[i]) + SumOf(g, Over(P, B))
  <2> HIDE DEF Q, B
  <2> QED BY <1>10, <1>12, SumUnion
<1> QED BY <1>2, <1>6, <1>9, <1>13

-----------------------------------------------------------------------------
(* The sorting of the fourth level. *)

\* The class that is taken next from a set of them.
Best(lev, left) ==
  LET most == Max({lev[c].counter : c \in left})
  IN  Min({c \in left : lev[c].counter = most})
Left(lev, f, i) == DOMAIN lev \ {f[j] : j \in 0 .. i - 1}
Sorts(lev, f, n) == f = [i \in 0 .. n - 1 |-> Best(lev, Left(lev, f, i))]

\* qsort follows its recursion if anything does.
LEMMA qsortIs ==
  ASSUME NEW lev, \E f : Sorts(lev, f, Kept)
  PROVE  Sorts(lev, qsort(lev), Kept)
<1> DEFINE f == CHOOSE g : g = [i \in 0 .. Kept - 1 |-> Best(lev, Left(lev, g, i))]
<1>1. f = [i \in 0 .. Kept - 1 |-> Best(lev, Left(lev, f, i))]
  BY DEF Sorts
<1>2. qsort(lev) = [i \in 0 .. Kept - 1 |-> f[i]]
  BY DEF qsort, Best, Left
<1> HIDE DEF f
<1>3. qsort(lev) = f
  BY <1>1, <1>2
<1> QED BY <1>1, <1>3 DEF Sorts

\* Every set of natural numbers has a least one, and a bounded one a greatest.
LEMMA LeastNumber ==
  ASSUME NEW T, T \subseteq Nat, T # {} PROVE \E k \in T : \A j \in T : k <= j
<1> DEFINE R == OpToRel(<, Nat)
<1>1. IsWellFoundedOn(R, Nat)
  BY NatLessThanWellFounded
<1>2. R = {ss \in Nat \X Nat : ss[1] < ss[2]}
  BY DEF OpToRel
<1> HIDE DEF R
<1>3. PICK k \in T : \A j \in T : ~(<<j, k>> \in R)
  BY <1>1, WFMin
<1>4. \A j \in T : ~(j < k)
  BY <1>2, <1>3
<1> QED BY <1>4

LEMMA MinIs ==
  ASSUME NEW T, T \subseteq Nat, T # {}
  PROVE  Min(T) \in T /\ \A x \in T : Min(T) <= x
BY LeastNumber DEF Min

LEMMA MaxIs ==
  ASSUME NEW T, T \subseteq Nat, T # {}, NEW n \in Nat, \A x \in T : x <= n
  PROVE  Max(T) \in T /\ \A x \in T : x <= Max(T)
<1> DEFINE U == {n - x : x \in T}
<1>1. PICK k \in U : \A j \in U : k <= j
  <2>0. PICK x \in T : TRUE
    OBVIOUS
  <2>1. n - x \in U
    BY <2>0
  <2>2. \A u \in U : u \in Nat
    OBVIOUS
  <2> HIDE DEF U
  <2> QED BY <2>1, <2>2, LeastNumber
<1>2. PICK y \in T : k = n - y
  OBVIOUS
<1>3. \A x \in T : y >= x
  <2> TAKE x \in T
  <2>1. k <= n - x
    BY <1>1
  <2> QED BY <1>2, <2>1
<1>4. \E z \in T : \A x \in T : z >= x
  BY <1>3
<1>5. Max(T) \in T /\ \A x \in T : Max(T) >= x
  BY <1>4 DEF Max
<1> QED BY <1>5

\* The next class is one of those left, and no other one has more pixels.
LEMMA BestIs ==
  ASSUME NEW lev, NEW left, left \subseteq Nat, left # {}, NEW n \in Nat,
         \A c \in left : lev[c].counter \in 0 .. n
  PROVE  /\ Best(lev, left) \in left
         /\ \A d \in left : lev[d].counter <= lev[Best(lev, left)].counter
<1> DEFINE T == {lev[c].counter : c \in left}
           most == Max(T)
           U == {c \in left : lev[c].counter = most}
<1>0. PICK c \in left : TRUE
  OBVIOUS
<1>1. T \subseteq Nat /\ T # {} /\ \A x \in T : x <= n
  <2>1. lev[c].counter \in T
    BY <1>0
  <2>2. \A x \in T : x \in Nat /\ x <= n
    OBVIOUS
  <2> HIDE DEF T
  <2> QED BY <2>1, <2>2
<1>2. most \in T /\ \A x \in T : x <= most
  <2> HIDE DEF T
  <2> QED BY <1>1, MaxIs
<1>3. U \subseteq Nat /\ U # {}
  BY <1>2
<1>4. Min(U) \in U
  <2> HIDE DEF U
  <2> QED BY <1>3, MinIs
<1>5. Best(lev, left) = Min(U)
  BY DEF Best
<1>6. Best(lev, left) \in left /\ lev[Best(lev, left)].counter = most
  BY <1>4, <1>5
<1>7. \A d \in left : lev[d].counter <= most
  BY <1>2
<1> QED BY <1>6, <1>7

\* There is such an order.
LEMMA SortsExists == ASSUME NEW lev, NEW m \in Nat PROVE \E f : Sorts(lev, f, m)
<1> DEFINE Q == {k \in Nat : ~\E f : Sorts(lev, f, k)}
<1> SUFFICES ASSUME Q # {} PROVE FALSE
  OBVIOUS
<1>1. PICK n \in Q : \A j \in Q : n <= j
  <2>1. Q \subseteq Nat
    OBVIOUS
  <2> HIDE DEF Q
  <2> QED BY <2>1, LeastNumber
<1>2. n # 0
  <2>1. [i \in 0 .. -1 |-> {}] = [i \in 0 .. 0 - 1 |-> Best(lev, Left(lev, [k \in 0 .. -1 |-> {}], i))]
    OBVIOUS
  <2>2. Sorts(lev, [i \in 0 .. -1 |-> {}], 0)
    BY <2>1 DEF Sorts
  <2> QED BY <2>2
<1>3. n \in Nat /\ n - 1 \in Nat /\ ~(n <= n - 1)
  BY <1>2
<1>4. PICK f : Sorts(lev, f, n - 1)
  BY <1>1, <1>3
<1> DEFINE last == Best(lev, Left(lev, f, n - 1))
           g == [i \in 0 .. n - 1 |-> IF i = n - 1 THEN last ELSE f[i]]
<1>5. \A i \in 0 .. n - 1 : Left(lev, g, i) = Left(lev, f, i)
  <2> TAKE i \in 0 .. n - 1
  <2>1. \A j \in 0 .. i - 1 : g[j] = f[j]
    BY <1>3
  <2> HIDE DEF g
  <2> QED BY <2>1 DEF Left
<1>6. \A i \in 0 .. n - 1 : g[i] = Best(lev, Left(lev, g, i))
  <2> TAKE i \in 0 .. n - 1
  <2>1. CASE i = n - 1
    <3>1. g[i] = last
      BY <2>1
    <3> HIDE DEF g
    <3> QED BY <1>5, <2>1, <3>1
  <2>2. CASE i # n - 1
    <3>1. g[i] = f[i] /\ i \in 0 .. (n - 1) - 1
      BY <1>3, <2>2
    <3>2. f[i] = Best(lev, Left(lev, f, i))
      BY <1>4, <3>1 DEF Sorts
    <3> HIDE DEF g
    <3> QED BY <1>5, <3>1, <3>2
  <2> QED BY <2>1, <2>2
<1>7. g = [i \in 0 .. n - 1 |-> g[i]]
  OBVIOUS
<1> HIDE DEF g
<1>8. Sorts(lev, g, n)
  BY <1>6, <1>7 DEF Sorts
<1> QED BY <1>8

\* Each class is one of those still left, and none of them is more frequent.
LEMMA Sorted ==
  ASSUME NEW lev, DOMAIN lev \subseteq Nat, IsFiniteSet(DOMAIN lev),
         Cardinality(DOMAIN lev) >= Kept, NEW n \in Nat,
         \A c \in DOMAIN lev : lev[c].counter \in 0 .. n
  PROVE  /\ DOMAIN qsort(lev) = 0 .. Kept - 1
         /\ \A i \in 0 .. Kept - 1 :
              /\ qsort(lev)[i] \in Left(lev, qsort(lev), i)
              /\ \A d \in Left(lev, qsort(lev), i) : lev[d].counter <= lev[qsort(lev)[i]].counter
<1> DEFINE f == qsort(lev)
<1>0. Kept \in Nat
  BY KeptAssumption
<1>1. Sorts(lev, f, Kept)
  BY <1>0, SortsExists, qsortIs
<1> HIDE DEF f
<1>2. DOMAIN f = 0 .. Kept - 1
  BY <1>1 DEF Sorts
<1>3. ASSUME NEW i \in 0 .. Kept - 1
      PROVE  f[i] \in Left(lev, f, i) /\ \A d \in Left(lev, f, i) : lev[d].counter <= lev[f[i]].counter
  <2> DEFINE taken == {f[j] : j \in 0 .. i - 1}
             g == [j \in 0 .. i - 1 |-> f[j]]
  <2>1. g \in Surjection(0 .. i - 1, taken)
    BY DEF Surjection
  <2>2. i \in Int /\ i \in Nat /\ i < Kept
    BY <1>0
  <2>3. IsFiniteSet(0 .. i - 1) /\ Cardinality(0 .. i - 1) = i
    BY <2>2, FS_Interval
  <2>4. IsFiniteSet(taken) /\ Cardinality(taken) <= i
    <3> HIDE DEF taken, g
    <3> QED BY <2>1, <2>3, FS_Surjection
  <2>5. Left(lev, f, i) # {}
    <3> SUFFICES ASSUME Left(lev, f, i) = {} PROVE FALSE
      OBVIOUS
    <3>1. DOMAIN lev \subseteq taken
      BY DEF Left
    <3> HIDE DEF taken
    <3>2. Cardinality(DOMAIN lev) <= Cardinality(taken)
      BY <2>4, <3>1, FS_Subset
    <3>3. Cardinality(DOMAIN lev) \in Nat /\ Cardinality(taken) \in Nat
      BY <2>4, FS_CardinalityType
    <3> QED BY <1>0, <2>2, <2>4, <3>2, <3>3
  <2>6. Left(lev, f, i) \subseteq DOMAIN lev
    BY DEF Left
  <2>7. f[i] = Best(lev, Left(lev, f, i))
    BY <1>1 DEF Sorts
  <2> HIDE DEF taken, g
  <2>8. Left(lev, f, i) \subseteq Nat /\ \A c \in Left(lev, f, i) : lev[c].counter \in 0 .. n
    BY <2>6
  <2>9. /\ Best(lev, Left(lev, f, i)) \in Left(lev, f, i)
        /\ \A d \in Left(lev, f, i) : lev[d].counter <= lev[Best(lev, Left(lev, f, i))].counter
    BY <2>5, <2>8, BestIs
  <2> QED BY <2>7, <2>9
<1> QED BY <1>2, <1>3 DEF f

-----------------------------------------------------------------------------
(* The palette of a photo. *)

\* The values of one colour, the pixels of a fourth-level class, the classes
\* that have pixels, and the pixels of a second-level class without an own one.
Chan(pixels, k) == [n \in DOMAIN pixels |-> Rgb(pixels[n])[k]]
Members(pixels, c) == {n \in DOMAIN pixels : FourthOf(pixels[n]) = c}
Classes(pixels) == {FourthOf(pixels[n]) : n \in DOMAIN pixels}
Others(pixels, own, c) ==
  {n \in DOMAIN pixels : SecondOf(pixels[n]) = c /\ FourthOf(pixels[n]) \notin own}
\* The largest value of a colour.
Level(k) == IF k = 2 THEN 63 ELSE 31

\* The classes of a colour, and the second-level class of the first one.
FourthIs(r, g, b) == (r \div 2) * 256 + (g \div 4) * 16 + b \div 2
SecondIs(r, g, b) == (r \div 8) * 16 + (g \div 16) * 4 + b \div 8

\* A fourth-level class is part of one second-level class.
LEMMA Bits ==
  ASSUME NEW r \in 0 .. 31, NEW g \in 0 .. 63, NEW b \in 0 .. 31
  PROVE  /\ FourthIs(r, g, b) \in Nat /\ SecondIs(r, g, b) \in 0 .. 63
         /\ Parent(FourthIs(r, g, b)) = SecondIs(r, g, b)
<1>1. PICK r8 \in 0 .. 3, r2 \in 0 .. 3 : r \div 8 = r8 /\ r \div 2 = 4 * r8 + r2
  <2>1. r \div 8 \in 0 .. 3 /\ (r \div 2) - 4 * (r \div 8) \in 0 .. 3
    OBVIOUS
  <2> QED BY <2>1
<1>2. PICK g8 \in 0 .. 3, g2 \in 0 .. 3 : g \div 16 = g8 /\ g \div 4 = 4 * g8 + g2
  <2>1. g \div 16 \in 0 .. 3 /\ (g \div 4) - 4 * (g \div 16) \in 0 .. 3
    OBVIOUS
  <2> QED BY <2>1
<1>3. PICK b8 \in 0 .. 3, b2 \in 0 .. 3 : b \div 8 = b8 /\ b \div 2 = 4 * b8 + b2
  <2>1. b \div 8 \in 0 .. 3 /\ (b \div 2) - 4 * (b \div 8) \in 0 .. 3
    OBVIOUS
  <2> QED BY <2>1
<1>4. FourthIs(r, g, b) = r8 * 1024 + r2 * 256 + g8 * 64 + g2 * 16 + b8 * 4 + b2
  BY <1>1, <1>2, <1>3 DEF FourthIs
<1>5. PICK c \in Nat : c = FourthIs(r, g, b)
  BY <1>4
<1>6. c \div 1024 = r8
  BY <1>4, <1>5
<1>7. c \div 64 = 16 * r8 + 4 * r2 + g8
  BY <1>4, <1>5
<1>8. c \div 4 = 256 * r8 + 64 * r2 + 16 * g8 + 4 * g2 + b8
  BY <1>4, <1>5
<1>9. (c \div 1024) % 4 = r8 /\ (c \div 64) % 4 = g8 /\ (c \div 4) % 4 = b8
  BY <1>6, <1>7, <1>8
<1>10. Parent(c) = r8 * 16 + g8 * 4 + b8
  BY <1>9 DEF Parent
<1>11. SecondIs(r, g, b) = r8 * 16 + g8 * 4 + b8
  BY <1>1, <1>2, <1>3 DEF SecondIs
<1> QED BY <1>5, <1>10, <1>11

\* The colours of a pixel have five, six and five bits; its class of the
\* fourth level is part of its class of the second level.
LEMMA PixelBits ==
  ASSUME NEW p \in Nat
  PROVE  /\ \A k \in 1 .. 3 : Rgb(p)[k] \in 0 .. Level(k)
         /\ FourthOf(p) \in Nat
         /\ SecondOf(p) \in 0 .. 63
         /\ Parent(FourthOf(p)) = SecondOf(p)
<1>1. PICK r \in 0 .. 31, g \in 0 .. 63, b \in 0 .. 31 :
        r = (p \div 2048) % 32 /\ g = (p \div 32) % 64 /\ b = p % 32
  <2>1. \A q \in Nat : q % 32 \in 0 .. 31 /\ q % 64 \in 0 .. 63
    OBVIOUS
  <2>2. p \div 2048 \in Nat /\ p \div 32 \in Nat
    OBVIOUS
  <2> DEFINE u == p \div 2048
             v == p \div 32
  <2> HIDE DEF u, v
  <2>3. u % 32 \in 0 .. 31 /\ v % 64 \in 0 .. 63 /\ p % 32 \in 0 .. 31
    BY <2>1, <2>2 DEF u, v
  <2>4. \E r \in 0 .. 31, g \in 0 .. 63, b \in 0 .. 31 : r = u % 32 /\ g = v % 64 /\ b = p % 32
    BY <2>3
  <2> QED BY <2>4 DEF u, v
<1>2. Rgb(p) = <<r, g, b>>
  BY <1>1 DEF Rgb
<1>3. Rgb(p)[1] = r /\ Rgb(p)[2] = g /\ Rgb(p)[3] = b
  BY <1>2
<1>4. FourthOf(p) = FourthIs(r, g, b) /\ SecondOf(p) = SecondIs(r, g, b)
  BY <1>3, Zenon DEF FourthOf, SecondOf, FourthIs, SecondIs
<1>5. \A k \in 1 .. 3 : Rgb(p)[k] \in 0 .. Level(k)
  <2>1. Rgb(p)[1] \in 0 .. Level(1) /\ Rgb(p)[2] \in 0 .. Level(2) /\ Rgb(p)[3] \in 0 .. Level(3)
    BY <1>3 DEF Level
  <2>2. \A k \in 1 .. 3 : k = 1 \/ k = 2 \/ k = 3
    OBVIOUS
  <2> QED BY <2>1, <2>2
<1> QED BY <1>4, <1>5, Bits

\* A sequence of pixels.
LEMMA PixelType ==
  ASSUME NEW pixels \in Seq(Nat)
  PROVE  /\ IsFiniteSet(DOMAIN pixels)
         /\ \A n \in DOMAIN pixels : pixels[n] \in Nat
         /\ \A k \in 1 .. 3 : \A n \in DOMAIN pixels : Chan(pixels, k)[n] \in 0 .. Level(k)
<1>1. DOMAIN pixels = 1 .. Len(pixels) /\ Len(pixels) \in Nat
  OBVIOUS
<1>2. \A n \in DOMAIN pixels : pixels[n] \in Nat
  OBVIOUS
<1>3. IsFiniteSet(DOMAIN pixels)
  BY <1>1, FS_Interval
<1>4. \A k \in 1 .. 3 : \A n \in DOMAIN pixels : Chan(pixels, k)[n] \in 0 .. Level(k)
  BY <1>2, PixelBits DEF Chan
<1> QED BY <1>2, <1>3, <1>4

\* insert_values sums one colour over the places of a node.
LEMMA ChanSum ==
  ASSUME NEW pixels \in Seq(Nat), NEW places, places \subseteq DOMAIN pixels, NEW k
  PROVE  MapThenSumSet(LAMBDA n : Rgb(pixels[n])[k], places) = SumOf(Chan(pixels, k), places)
<1> DEFINE g == [n \in places |-> Rgb(pixels[n])[k]]
<1>1. MapThenSumSet(LAMBDA n : Rgb(pixels[n])[k], places) = SumOf(g, places)
  BY DEF SumOf, MapThenSumSet, MapThenFoldSet
<1>2. \A n \in places : g[n] = Chan(pixels, k)[n]
  BY DEF Chan
<1>3. IsFiniteSet(places)
  BY PixelType, FS_Subset
<1> HIDE DEF g
<1> QED BY <1>1, <1>2, <1>3, SumSame

\* A node counts the pixels of some places.
Counts(node, pixels, places) ==
  /\ \A k \in 1 .. 3 : node.total[k] = SumOf(Chan(pixels, k), places)
  /\ node.counter = Cardinality(places)

\* So does a node of either level.
LEMMA NodeCounts ==
  ASSUME NEW pixels \in Seq(Nat), NEW places, places \subseteq DOMAIN pixels
  PROVE  Counts(Node(pixels, places), pixels, places)
<1>1. \A k \in 1 .. 3 : Node(pixels, places).total[k] = MapThenSumSet(LAMBDA n : Rgb(pixels[n])[k], places)
  BY DEF Node
<1>2. Node(pixels, places).counter = Cardinality(places)
  BY DEF Node
<1> QED BY <1>1, <1>2, ChanSum DEF Counts

\* An average is at most the largest value.
LEMMA DivBound ==
  ASSUME NEW m \in Nat, NEW n \in Nat, n > 0, NEW a \in 0 .. m * n
  PROVE  a \div n \in 0 .. m
<1>1. PICK q \in Int : q = a \div n
  OBVIOUS
<1>2. q * n <= a /\ a < q * n + n
  BY <1>1
<1>3. q >= 0
  <2> SUFFICES ASSUME q <= -1 PROVE FALSE
    OBVIOUS
  <2>1. q * n <= -n
    OBVIOUS
  <2> QED BY <1>2, <2>1
<1>4. q <= m
  <2> SUFFICES ASSUME q >= m + 1 PROVE FALSE
    OBVIOUS
  <2>1. q * n >= (m + 1) * n
    OBVIOUS
  <2>2. (m + 1) * n = m * n + n
    OBVIOUS
  <2> QED BY <1>2, <2>1, <2>2
<1> QED BY <1>1, <1>3, <1>4

\* The average of a node is displayed as the mean of its pixels.
LEMMA ShownMean ==
  ASSUME NEW pixels \in Seq(Nat), NEW places, places \subseteq DOMAIN pixels, places # {},
         NEW node, Counts(node, pixels, places)
  PROVE  Shown(Average(node)) = Mean(pixels, places)
<1> DEFINE n == Cardinality(places)
           c(k) == SumOf(Chan(pixels, k), places) \div n
<1>1. IsFiniteSet(places)
  BY PixelType, FS_Subset
<1>2. n \in Nat /\ n > 0
  BY <1>1, FS_CardinalityType, FS_EmptySet
<1>3. ASSUME NEW k \in 1 .. 3 PROVE c(k) \in 0 .. Level(k)
  <2>1. Level(k) \in Nat
    BY DEF Level
  <2>2. \A x \in places : Chan(pixels, k)[x] \in 0 .. Level(k)
    BY PixelType
  <2>3. SumOf(Chan(pixels, k), places) \in 0 .. Level(k) * n
    BY <1>1, <2>1, <2>2, SumBound
  <2> HIDE DEF n
  <2> QED BY <1>2, <2>1, <2>3, DivBound
<1>4. Average(node) = [k \in 1 .. 3 |-> c(k)]
  BY <1>2 DEF Average, Counts
<1>5. Mean(pixels, places) = <<2 * c(1), c(2), 2 * c(3)>>
  BY ChanSum DEF Mean
<1>6. c(1) \in 0 .. 31 /\ c(2) \in 0 .. 63 /\ c(3) \in 0 .. 31
  BY <1>3 DEF Level
<1> HIDE DEF c, n
<1> DEFINE f == [k \in 1 .. 3 |-> c(k)]
<1>7. f # <<"uninitialized">>
  <2>1. DOMAIN f = 1 .. 3
    OBVIOUS
  <2>2. DOMAIN <<"uninitialized">> = 1 .. 1
    OBVIOUS
  <2>3. 2 \in 1 .. 3 /\ 2 \notin 1 .. 1
    OBVIOUS
  <2> QED BY <2>1, <2>2, <2>3, Zenon
<1>8. f[1] = c(1) /\ f[2] = c(2) /\ f[3] = c(3)
  OBVIOUS
<1>9. (c(1) * 2) % 64 = 2 * c(1) /\ c(2) % 64 = c(2) /\ (c(3) * 2) % 64 = 2 * c(3)
  <2>1. PICK r \in 0 .. 31, g \in 0 .. 63, b \in 0 .. 31 : r = c(1) /\ g = c(2) /\ b = c(3)
    BY <1>6
  <2>2. (r * 2) % 64 = 2 * r /\ g % 64 = g /\ (b * 2) % 64 = 2 * b
    OBVIOUS
  <2> QED BY <2>1, <2>2
<1> HIDE DEF f
<1>10. Shown(f) = <<(f[1] * 2) % 64, f[2] % 64, (f[3] * 2) % 64>>
  BY <1>7 DEF Shown
<1>11. Shown(f) = <<2 * c(1), c(2), 2 * c(3)>>
  BY <1>8, <1>9, <1>10
<1> QED BY <1>4, <1>5, <1>11 DEF f

\* The kept classes in their order, as a set, and what their order must obey.
SortOf(pixels) == qsort(fourth_lev(pixels))
Own(s) == {s[i] : i \in 0 .. Kept - 1}
Ordered(pixels, s) ==
  /\ DOMAIN s = 0 .. Kept - 1
  /\ \A i \in 0 .. Kept - 1 : s[i] \in Classes(pixels)
  /\ \A i, j \in 0 .. Kept - 1 : i # j => s[i] # s[j]

\* The nodes of both levels.
LEMMA Levels ==
  ASSUME NEW pixels \in Seq(Nat)
  PROVE  /\ DOMAIN fourth_lev(pixels) = Classes(pixels)
         /\ \A c \in Classes(pixels) : Counts(fourth_lev(pixels)[c], pixels, Members(pixels, c))
         /\ \A c \in 0 .. 63 : Counts(second_lev(pixels)[c], pixels,
                                      {n \in DOMAIN pixels : SecondOf(pixels[n]) = c})
<1>1. fourth_lev(pixels) = [c \in Classes(pixels) |-> Node(pixels, Members(pixels, c))]
  BY DEF fourth_lev, Classes, Members
<1>2. second_lev(pixels) = [c \in 0 .. 63 |-> Node(pixels, {n \in DOMAIN pixels : SecondOf(pixels[n]) = c})]
  BY DEF second_lev, SECOND
<1>3. \A c : Members(pixels, c) \subseteq DOMAIN pixels
  BY DEF Members
<1>4. DOMAIN fourth_lev(pixels) = Classes(pixels)
  BY <1>1
<1>5. ASSUME NEW c \in Classes(pixels)
      PROVE  Counts(fourth_lev(pixels)[c], pixels, Members(pixels, c))
  <2>1. fourth_lev(pixels)[c] = Node(pixels, Members(pixels, c))
    BY <1>1
  <2> QED BY <1>3, <2>1, NodeCounts
<1>6. ASSUME NEW c \in 0 .. 63
      PROVE  Counts(second_lev(pixels)[c], pixels, {n \in DOMAIN pixels : SecondOf(pixels[n]) = c})
  <2> DEFINE A == {n \in DOMAIN pixels : SecondOf(pixels[n]) = c}
  <2>1. second_lev(pixels)[c] = Node(pixels, A) /\ A \subseteq DOMAIN pixels
    BY <1>2
  <2> HIDE DEF A
  <2>2. Counts(second_lev(pixels)[c], pixels, A)
    BY <2>1, NodeCounts
  <2> QED BY <2>2 DEF A
<1> QED BY <1>4, <1>5, <1>6

\* The classes that are kept: as many as there is room for, and no other one
\* has more pixels.
LEMMA KeptClasses ==
  ASSUME NEW pixels \in Seq(Nat), Cardinality(Classes(pixels)) >= Kept
  PROVE  /\ Ordered(pixels, SortOf(pixels))
         /\ Own(SortOf(pixels)) \subseteq Classes(pixels)
         /\ Cardinality(Own(SortOf(pixels))) = Kept
         /\ \A c \in Own(SortOf(pixels)), d \in Classes(pixels) \ Own(SortOf(pixels)) :
              Cardinality(Members(pixels, c)) >= Cardinality(Members(pixels, d))
<1> DEFINE lev == fourth_lev(pixels)
           s == SortOf(pixels)
           m == Cardinality(DOMAIN pixels)
<1>0. Kept \in Nat /\ Kept >= 1
  BY KeptAssumption
<1>1. IsFiniteSet(DOMAIN pixels) /\ m \in Nat
  BY PixelType, FS_CardinalityType
<1>2. IsFiniteSet(Classes(pixels)) /\ Classes(pixels) \subseteq Nat
  <2> DEFINE g == [n \in DOMAIN pixels |-> FourthOf(pixels[n])]
  <2>1. g \in Surjection(DOMAIN pixels, Classes(pixels))
    BY DEF Surjection, Classes
  <2> HIDE DEF g
  <2>2. IsFiniteSet(Classes(pixels))
    BY <1>1, <2>1, FS_Surjection
  <2>3. \A n \in DOMAIN pixels : FourthOf(pixels[n]) \in Nat
    BY PixelType, PixelBits
  <2> QED BY <2>2, <2>3 DEF Classes
<1>3. \A c : IsFiniteSet(Members(pixels, c)) /\ Cardinality(Members(pixels, c)) \in 0 .. m
  <2> TAKE c
  <2>1. Members(pixels, c) \subseteq DOMAIN pixels
    BY DEF Members
  <2>2. IsFiniteSet(Members(pixels, c)) /\ Cardinality(Members(pixels, c)) <= m
    BY <1>1, <2>1, FS_Subset
  <2>3. Cardinality(Members(pixels, c)) \in Nat
    BY <2>2, FS_CardinalityType
  <2> QED BY <1>1, <2>2, <2>3
<1>4. DOMAIN lev = Classes(pixels) /\ \A c \in DOMAIN lev : lev[c].counter = Cardinality(Members(pixels, c))
  BY Levels DEF Counts
<1> HIDE DEF lev, m
<1>5. s = qsort(lev)
  BY DEF SortOf, lev
<1> HIDE DEF s
<1>6. /\ DOMAIN s = 0 .. Kept - 1
      /\ \A i \in 0 .. Kept - 1 :
           /\ s[i] \in Left(lev, s, i)
           /\ \A d \in Left(lev, s, i) : lev[d].counter <= lev[s[i]].counter
  <2>1. \A c \in DOMAIN lev : lev[c].counter \in 0 .. m
    BY <1>3, <1>4
  <2> QED BY <1>1, <1>2, <1>4, <1>5, <2>1, Sorted
<1>7. \A i \in 0 .. Kept - 1 : s[i] \in Classes(pixels)
  BY <1>4, <1>6 DEF Left
<1>8. ASSUME NEW i \in 0 .. Kept - 1, NEW j \in 0 .. Kept - 1, i < j PROVE s[i] # s[j]
  <2>1. i \in 0 .. j - 1
    BY <1>0, <1>8
  <2> QED BY <1>6, <2>1 DEF Left
<1>9. \A i, j \in 0 .. Kept - 1 : i # j => s[i] # s[j]
  <2> TAKE i, j \in 0 .. Kept - 1
  <2>1. i < j \/ j < i \/ i = j
    BY <1>0
  <2> QED BY <1>8, <2>1
<1>10. Ordered(pixels, s)
  BY <1>6, <1>7, <1>9 DEF Ordered
<1>11. Own(s) \subseteq Classes(pixels)
  BY <1>7 DEF Own
<1>12. Cardinality(Own(s)) = Kept
  <2> DEFINE g == [i \in 0 .. Kept - 1 |-> s[i]]
  <2>1. g \in Surjection(0 .. Kept - 1, Own(s))
    BY DEF Surjection, Own
  <2>2. g \in Injection(0 .. Kept - 1, Own(s))
    <3>1. g \in [0 .. Kept - 1 -> Own(s)]
      BY DEF Own
    <3>2. \A i, j \in 0 .. Kept - 1 : g[i] = g[j] => i = j
      BY <1>9
    <3> HIDE DEF g
    <3> QED BY <3>1, <3>2 DEF Injection, IsInjective
  <2>3. IsFiniteSet(0 .. Kept - 1) /\ Cardinality(0 .. Kept - 1) = Kept
    BY <1>0, FS_Interval
  <2> HIDE DEF g
  <2> QED BY <2>1, <2>2, <2>3, FS_Surjection
<1>13. ASSUME NEW c \in Own(s), NEW d \in Classes(pixels) \ Own(s)
       PROVE  Cardinality(Members(pixels, c)) >= Cardinality(Members(pixels, d))
  <2>1. PICK i \in 0 .. Kept - 1 : c = s[i]
    BY DEF Own
  <2>2. d \in Left(lev, s, i)
    <3>1. \A j \in 0 .. i - 1 : s[j] \in Own(s)
      BY <1>0 DEF Own
    <3> QED BY <1>4, <3>1 DEF Left
  <2>3. lev[d].counter <= lev[c].counter
    BY <1>6, <2>1, <2>2
  <2>4. lev[d].counter = Cardinality(Members(pixels, d)) /\ lev[c].counter = Cardinality(Members(pixels, c))
    BY <1>4, <1>11
  <2> QED BY <1>1, <1>3, <2>3, <2>4
<1> QED BY <1>10, <1>11, <1>12, <1>13 DEF s

\* What is left of a class of the second level counts the pixels of it that
\* have no class of their own.
LEMMA RestCounts ==
  ASSUME NEW pixels \in Seq(Nat), NEW s, Ordered(pixels, s), NEW c \in 0 .. 63
  PROVE  Counts(Rest(second_lev(pixels), fourth_lev(pixels), s, c), pixels,
                Others(pixels, Own(s), c))
<1> DEFINE gone == {i \in 0 .. Kept - 1 : Parent(s[i]) = c}
           P == [i \in gone |-> Members(pixels, s[i])]
           whole == {n \in DOMAIN pixels : SecondOf(pixels[n]) = c}
           out == Over(P, gone)
           rest == Others(pixels, Own(s), c)
           fourth == fourth_lev(pixels)
           second == second_lev(pixels)
           total(k) == [i \in gone |-> fourth[s[i]].total[k]]
           counter == [i \in gone |-> fourth[s[i]].counter]
<1>0. Kept \in Nat /\ DOMAIN s = 0 .. Kept - 1
  BY KeptAssumption DEF Ordered
<1>1. IsFiniteSet(gone)
  <2>1. IsFiniteSet(0 .. Kept - 1)
    BY <1>0, FS_Interval
  <2> QED BY <2>1, FS_Subset
<1>2. ASSUME NEW n PROVE n \in out <=> n \in DOMAIN pixels /\ SecondOf(pixels[n]) = c
                                         /\ FourthOf(pixels[n]) \in Own(s)
  <2>1. ASSUME n \in out PROVE n \in DOMAIN pixels /\ SecondOf(pixels[n]) = c /\ FourthOf(pixels[n]) \in Own(s)
    <3>1. PICK i \in gone : n \in P[i]
      BY <2>1 DEF Over
    <3>2. n \in DOMAIN pixels /\ FourthOf(pixels[n]) = s[i] /\ i \in 0 .. Kept - 1 /\ Parent(s[i]) = c
      BY <3>1 DEF Members
    <3>3. Parent(FourthOf(pixels[n])) = SecondOf(pixels[n])
      BY <3>2, PixelType, PixelBits
    <3> QED BY <3>2, <3>3 DEF Own
  <2>2. ASSUME n \in DOMAIN pixels, SecondOf(pixels[n]) = c, FourthOf(pixels[n]) \in Own(s) PROVE n \in out
    <3>1. PICK i \in 0 .. Kept - 1 : s[i] = FourthOf(pixels[n])
      BY <2>2 DEF Own
    <3>2. Parent(FourthOf(pixels[n])) = SecondOf(pixels[n])
      BY <2>2, PixelType, PixelBits
    <3>3. i \in gone /\ n \in P[i]
      BY <2>2, <3>1, <3>2 DEF Members
    <3> HIDE DEF P, gone
    <3> QED BY <3>3 DEF Over
  <2> QED BY <2>1, <2>2
<1>3. whole = out \cup rest /\ out \cap rest = {}
  BY <1>2 DEF Others
<1>4. IsFiniteSet(out) /\ IsFiniteSet(rest) /\ IsFiniteSet(whole)
  <2>1. out \subseteq DOMAIN pixels /\ rest \subseteq DOMAIN pixels /\ whole \subseteq DOMAIN pixels
    BY <1>2 DEF Others
  <2> HIDE DEF out, rest, whole
  <2> QED BY <2>1, PixelType, FS_Subset
<1>5. \A i, j \in gone : i # j => P[i] \cap P[j] = {}
  BY DEF Members, Ordered
<1>6. \A i \in gone : s[i] \in Classes(pixels) /\ P[i] = Members(pixels, s[i])
  BY DEF Ordered
<1>7. Counts(second[c], pixels, whole)
  BY Levels
<1>8. \A i \in gone : Counts(fourth[s[i]], pixels, P[i])
  BY <1>6, Levels
<1>9. Rest(second, fourth, s, c) =
        [total |-> [k \in 1 .. 3 |-> second[c].total[k]
                      - MapThenSumSet(LAMBDA i : fourth[s[i]].total[k], gone)],
         counter |-> second[c].counter - MapThenSumSet(LAMBDA i : fourth[s[i]].counter, gone)]
  BY <1>0 DEF Rest
<1>10. \A k \in 1 .. 3 : MapThenSumSet(LAMBDA i : fourth[s[i]].total[k], gone) = SumOf(total(k), gone)
  <2> TAKE k \in 1 .. 3
  <2> HIDE DEF gone, fourth
  <2> QED BY DEF SumOf, MapThenSumSet, MapThenFoldSet
<1>11. MapThenSumSet(LAMBDA i : fourth[s[i]].counter, gone) = SumOf(counter, gone)
  <2> HIDE DEF gone, fourth
  <2> QED BY DEF SumOf, MapThenSumSet, MapThenFoldSet
<1>12. \A n \in whole : n \in DOMAIN pixels
  OBVIOUS
<1>13. \A k \in 1 .. 3 : \A i \in gone : total(k)[i] = SumOf(Chan(pixels, k), P[i])
  <2> HIDE DEF P, gone, fourth
  <2> QED BY <1>8 DEF Counts
<1>14. \A i \in gone : counter[i] = Cardinality(P[i]) /\ P[i] \subseteq out
  <2>1. \A i \in gone : counter[i] = Cardinality(P[i])
    <3> HIDE DEF P, gone, fourth
    <3> QED BY <1>8 DEF Counts
  <2> QED BY <2>1 DEF Over
<1>15. \A k \in 1 .. 3 : second[c].total[k] = SumOf(Chan(pixels, k), whole)
  BY <1>7 DEF Counts
<1>16. second[c].counter = Cardinality(whole)
  BY <1>7 DEF Counts
<1> HIDE DEF gone, P, whole, out, rest, fourth, second, total, counter
<1>17. ASSUME NEW k \in 1 .. 3
       PROVE  second[c].total[k] - SumOf(total(k), gone) = SumOf(Chan(pixels, k), rest)
  <2> DEFINE g == Chan(pixels, k)
  <2>1. \A n \in out \cup rest : g[n] \in Int
    <3>1. Level(k) \in Nat
      BY DEF Level
    <3>2. \A n \in whole : g[n] \in 0 .. Level(k)
      BY <1>12, PixelType
    <3> QED BY <1>3, <3>1, <3>2
  <2> HIDE DEF g
  <2>2. SumOf(total(k), gone) = SumOf(g, out)
    BY <1>1, <1>4, <1>5, <1>13, <2>1, SumFamily DEF out, g
  <2>3. SumOf(g, whole) = SumOf(g, out) + SumOf(g, rest)
    BY <1>3, <1>4, <2>1, SumUnion
  <2>4. SumOf(g, out) \in Int /\ SumOf(g, rest) \in Int
    BY <1>4, <2>1, SumType
  <2>5. second[c].total[k] = SumOf(g, whole)
    BY <1>15 DEF g
  <2>6. second[c].total[k] - SumOf(total(k), gone) = SumOf(g, rest)
    BY <2>2, <2>3, <2>4, <2>5
  <2> QED BY <2>6 DEF g
<1>18. second[c].counter - SumOf(counter, gone) = Cardinality(rest)
  <2> DEFINE g == [n \in out \cup rest |-> 1]
  <2>1. \A n \in out \cup rest : g[n] = 1 /\ g[n] \in Int
    OBVIOUS
  <2> HIDE DEF g
  <2>2. \A i \in gone : counter[i] = SumOf(g, P[i])
    <3> TAKE i \in gone
    <3>1. IsFiniteSet(P[i]) /\ \A n \in P[i] : g[n] = 1
      BY <1>4, <1>14, <2>1, FS_Subset
    <3> QED BY <1>14, <3>1, SumOnes
  <2>3. SumOf(counter, gone) = SumOf(g, out)
    BY <1>1, <1>4, <1>5, <2>1, <2>2, SumFamily DEF out
  <2>4. SumOf(g, whole) = SumOf(g, out) + SumOf(g, rest)
    BY <1>3, <1>4, <2>1, SumUnion
  <2>5. SumOf(g, out) \in Int /\ SumOf(g, rest) \in Int
    BY <1>4, <2>1, SumType
  <2>6. SumOf(g, whole) = Cardinality(whole) /\ SumOf(g, rest) = Cardinality(rest)
    BY <1>3, <1>4, <2>1, SumOnes
  <2> QED BY <1>16, <2>3, <2>4, <2>5, <2>6
<1>19. /\ \A k \in 1 .. 3 : Rest(second, fourth, s, c).total[k] = SumOf(Chan(pixels, k), rest)
       /\ Rest(second, fourth, s, c).counter = Cardinality(rest)
  BY <1>9, <1>10, <1>11, <1>17, <1>18
<1> QED BY <1>19 DEF Counts, rest, fourth, second

\* The pixels that decide the colour of a word.
Alike(pixels, own, word) ==
  IF FourthOf(word) \in own THEN Members(pixels, FourthOf(word))
                            ELSE Others(pixels, own, SecondOf(word))

\* calculate_vga finds the entry that counts the pixels like the word.
LEMMA WordColour ==
  ASSUME NEW pixels \in Seq(Nat), NEW s, Ordered(pixels, s), NEW word \in Nat,
         Alike(pixels, Own(s), word) # {}
  PROVE  /\ calculate_vga(s, word) \in 64 .. 127 + Kept
         /\ Shown(set_plt_values(second_lev(pixels), fourth_lev(pixels), s)
                    [calculate_vga(s, word) - 64]) = Mean(pixels, Alike(pixels, Own(s), word))
<1> DEFINE fourth == fourth_lev(pixels)
           second == second_lev(pixels)
           k == calculate_vga(s, word) - 64
           at == {i \in DOMAIN s : s[i] = FourthOf(word)}
           node == IF k < 64 THEN Rest(second, fourth, s, k) ELSE fourth[s[k - 64]]
           like == Alike(pixels, Own(s), word)
<1>0. Kept \in Nat /\ Kept >= 1 /\ DOMAIN s = 0 .. Kept - 1
  BY KeptAssumption DEF Ordered
<1>1. calculate_vga(s, word) = IF at # {} THEN Min(at) + 64 + 64 ELSE SecondOf(word) + 64
  BY DEF calculate_vga
<1>2. FourthOf(word) \in Own(s) <=> at # {}
  BY <1>0 DEF Own
<1>3. at \subseteq Nat
  BY <1>0
<1>4. at # {} => Min(at) \in at
  <2> HIDE DEF at
  <2> QED BY <1>3, MinIs
<1>5. like \subseteq DOMAIN pixels
  BY DEF Alike, Members, Others
<1>6. k \in 0 .. 63 + Kept /\ k + 64 = calculate_vga(s, word) /\ Counts(node, pixels, like)
  <2>1. CASE at # {}
    <3>1. Min(at) \in 0 .. Kept - 1 /\ s[Min(at)] = FourthOf(word)
      BY <1>0, <1>4, <2>1
    <3>2. PICK m \in 0 .. Kept - 1 : m = Min(at)
      BY <3>1
    <3>3. calculate_vga(s, word) = m + 64 + 64
      BY <1>1, <2>1, <3>2
    <3>4. k = m + 64 /\ ~(k < 64) /\ k - 64 = m /\ k \in 0 .. 63 + Kept
      BY <1>0, <3>3
    <3> HIDE DEF k
    <3>5. node = fourth[FourthOf(word)] /\ like = Members(pixels, FourthOf(word))
      BY <1>2, <2>1, <3>1, <3>2, <3>4 DEF Alike
    <3>6. FourthOf(word) \in Classes(pixels)
      BY <3>1 DEF Ordered
    <3> QED BY <1>0, <3>3, <3>4, <3>5, <3>6, Levels
  <2>2. CASE at = {}
    <3>1. PICK c \in 0 .. 63 : c = SecondOf(word)
      BY PixelBits
    <3>2. calculate_vga(s, word) = c + 64
      BY <1>1, <2>2, <3>1
    <3>3. k = c /\ k < 64 /\ k \in 0 .. 63 + Kept
      BY <1>0, <3>2
    <3> HIDE DEF k
    <3>4. node = Rest(second, fourth, s, c) /\ like = Others(pixels, Own(s), c)
      BY <1>2, <2>2, <3>1, <3>3 DEF Alike
    <3> QED BY <1>0, <3>2, <3>3, <3>4, RestCounts
  <2> QED BY <2>1, <2>2
<1>7. set_plt_values(second, fourth, s)[k] = Average(node)
  <2> HIDE DEF k
  <2> QED BY <1>6 DEF set_plt_values
<1>8. Shown(Average(node)) = Mean(pixels, like)
  <2> HIDE DEF node
  <2> QED BY <1>5, <1>6, ShownMean
<1>9. calculate_vga(s, word) \in 64 .. 127 + Kept
  <2> HIDE DEF k
  <2> QED BY <1>0, <1>6
<1> QED BY <1>7, <1>8, <1>9

\* Listed changes nothing.
LEMMA ListedIs ==
  ASSUME NEW n \in Nat, NEW s, s = [i \in 1 .. n |-> s[i]]
  PROVE  Listed(s) = s
<1> DEFINE A == {s[i] : i \in 1 .. n}
<1>1. s \in Seq(A)
  <2>1. s \in [1 .. n -> A]
    OBVIOUS
  <2> HIDE DEF A
  <2> QED BY <2>1
<1> HIDE DEF A
<1> QED BY <1>1, ConcatEmptySeq DEF Listed

-----------------------------------------------------------------------------
(* The photos. *)

\* The pixels of a file, as the first pass reads them.
PixelsOf(f) == SubSeq(f, 3, 2 + f[1] * f[2])
\* The colour of every word of a file, when own are the kept classes.
ColourOf(f, own) ==
  [i \in DOMAIN f |-> IF Alike(PixelsOf(f), own, f[i]) = {} THEN <<"any">>
                      ELSE Mean(PixelsOf(f), Alike(PixelsOf(f), own, f[i]))]

\* A file that read_photo accepts.
Valid(f) ==
  /\ f \in Seq(Nat) /\ Len(f) >= 2 + f[1] * f[2]
  /\ f[1] \in Nat /\ f[1] >= 1 /\ f[2] \in Nat /\ f[2] >= 1
  /\ Cardinality({FourthOf(f[n]) : n \in 3 .. 2 + f[1] * f[2]}) >= Kept

\* They are pixels of enough classes.
LEMMA FilePixels ==
  ASSUME NEW f, Valid(f)
  PROVE  PixelsOf(f) \in Seq(Nat) /\ Cardinality(Classes(PixelsOf(f))) >= Kept
<1> DEFINE n == f[1] * f[2]
           p == PixelsOf(f)
<1>1. n \in Nat /\ Len(f) \in Nat /\ Len(f) >= 2 + n /\ f \in Seq(Nat)
  BY DEF Valid
<1> HIDE DEF n
<1>2. p = SubSeq(f, 3, 2 + n)
  BY DEF PixelsOf, n
<1>3. p \in Seq(Nat) /\ Len(p) = n /\ \A i \in 1 .. n : p[i] = f[2 + i]
  BY <1>1, <1>2
<1>4. DOMAIN p = 1 .. n
  BY <1>3
<1> HIDE DEF p
<1>5. Classes(p) = {FourthOf(f[i]) : i \in 3 .. 2 + n}
  <2>1. ASSUME NEW c \in Classes(p) PROVE c \in {FourthOf(f[i]) : i \in 3 .. 2 + n}
    <3>1. PICK i \in 1 .. n : c = FourthOf(p[i])
      BY <1>4, <2>1 DEF Classes
    <3>2. c = FourthOf(f[2 + i]) /\ 2 + i \in 3 .. 2 + n
      BY <1>1, <1>3, <3>1
    <3> QED BY <3>2
  <2>2. ASSUME NEW c \in {FourthOf(f[i]) : i \in 3 .. 2 + n} PROVE c \in Classes(p)
    <3>1. PICK i \in 3 .. 2 + n : c = FourthOf(f[i])
      BY <2>2
    <3>2. PICK j \in 1 .. n : i = 2 + j
      <4>1. i - 2 \in 1 .. n /\ i = 2 + (i - 2)
        BY <1>1
      <4> QED BY <4>1
    <3>3. c = FourthOf(p[j])
      BY <1>3, <3>1, <3>2
    <3> QED BY <1>4, <3>3 DEF Classes
  <2> QED BY <2>1, <2>2
<1>6. Cardinality({FourthOf(f[i]) : i \in 3 .. 2 + n}) >= Kept
  BY DEF Valid, n
<1>7. p \in Seq(Nat) /\ Cardinality(Classes(p)) >= Kept
  BY <1>3, <1>5, <1>6
<1> QED BY <1>7 DEF p

\* The colours that follow from the classes read_photo keeps.
LEMMA ColouringsHas ==
  ASSUME NEW f, Valid(f)
  PROVE  ColourOf(f, Own(SortOf(PixelsOf(f)))) \in Colourings(f)
<1> DEFINE p == PixelsOf(f)
           own == Own(SortOf(p))
           owners == {o \in SUBSET Classes(p) :
                        /\ Cardinality(o) = Kept
                        /\ \A c \in o, d \in Classes(p) \ o :
                             Cardinality(Members(p, c)) >= Cardinality(Members(p, d))}
<1>1. p \in Seq(Nat) /\ Cardinality(Classes(p)) >= Kept
  BY FilePixels
<1>2. own \in owners
  <2> HIDE DEF p
  <2> QED BY <1>1, KeptClasses
<1>3. Colourings(f) = {Listed(ColourOf(f, o)) : o \in owners}
  BY DEF Colourings, ColourOf, PixelsOf, Classes, Members, Alike, Others
<1>4. Listed(ColourOf(f, own)) = ColourOf(f, own)
  <2>1. DOMAIN f = 1 .. Len(f) /\ Len(f) \in Nat
    BY DEF Valid
  <2>2. ColourOf(f, own) = [i \in 1 .. Len(f) |-> ColourOf(f, own)[i]]
    BY <2>1 DEF ColourOf
  <2> HIDE DEF own
  <2> QED BY <2>1, <2>2, ListedIs
<1> HIDE DEF owners
<1> QED BY <1>2, <1>3, <1>4

\* The colours of a file that read_photo accepts.
LEMMA ReadIs ==
  ASSUME NEW f, Valid(f), read_photo(f) # NULL
  PROVE  LET p == PixelsOf(f)
             s == SortOf(p)
             r == read_photo(f)
         IN  /\ \A n \in 1 .. f[1] * f[2] : r.img[n] = calculate_vga(s, f[Reread(f[1], f[2], n - 1)])
             /\ r.palette = set_plt_values(second_lev(p), fourth_lev(p), s)
<1> DEFINE p == PixelsOf(f)
           s == SortOf(p)
           r == read_photo(f)
           g == [n \in 1 .. f[1] * f[2] |-> calculate_vga(s, f[Reread(f[1], f[2], n - 1)])]
<1>1. read_photo(f) =
        [w |-> f[1], h |-> f[2], img |-> Listed(g),
         palette |-> set_plt_values(second_lev(p), fourth_lev(p), s)]
  BY DEF read_photo, PixelsOf, SortOf
<1>2. Listed(g) = g
  <2>1. f[1] * f[2] \in Nat
    BY DEF Valid
  <2>2. g = [n \in 1 .. f[1] * f[2] |-> g[n]]
    OBVIOUS
  <2> HIDE DEF g
  <2> QED BY <2>1, <2>2, ListedIs
<1>3. r.img = g /\ r.palette = set_plt_values(second_lev(p), fourth_lev(p), s)
  <2> HIDE DEF g
  <2> QED BY <1>1, <1>2
<1>4. \A n \in 1 .. f[1] * f[2] : r.img[n] = calculate_vga(s, f[Reread(f[1], f[2], n - 1)])
  <2>1. \A n \in 1 .. f[1] * f[2] : g[n] = calculate_vga(s, f[Reread(f[1], f[2], n - 1)])
    OBVIOUS
  <2> HIDE DEF g, r
  <2> QED BY <1>3, <2>1
<1> QED BY <1>3, <1>4

\* The place of pixel (x, y) in the photo's memory, the place in the file of
\* the word that read_photo takes for it.
InMemory(w, x, y) == w * y + x + 1
InFile(w, h, x, y) == 1 + (h - 1 - y) * w + x

\* The second pass over a file stays within it.
LEMMA Indices ==
  ASSUME NEW w \in Nat, w >= 1, NEW h \in Nat, NEW x \in 0 .. w - 1, NEW y \in 0 .. h - 1
  PROVE  /\ InMemory(w, x, y) \in 1 .. w * h
         /\ Reread(w, h, InMemory(w, x, y) - 1) = InFile(w, h, x, y)
         /\ InFile(w, h, x, y) \in 1 .. w * h
<1>1. y \in Nat /\ x \in Nat /\ x <= w - 1 /\ h - 1 - y \in Nat
  OBVIOUS
<1>2. PICK a \in Int, b \in Int, c \in Int : a = w * y /\ b = w * h /\ c = (h - 1 - y) * w
  OBVIOUS
<1>3. c = b - w - a
  BY <1>1, <1>2
<1>4. a >= 0 /\ c >= 0
  BY <1>1, <1>2
<1>5. a + x + 1 \in 1 .. b /\ 1 + c + x \in 1 .. b
  BY <1>1, <1>3, <1>4
<1>6. (a + x) \div w = y /\ (a + x) % w = x
  <2>1. PICK q \in Int, m \in Int : q = (a + x) \div w /\ m = (a + x) % w
    BY <1>1
  <2>2. a + x = q * w + m /\ m >= 0 /\ m <= w - 1
    BY <1>1, <2>1
  <2>3. q * w - y * w = (q - y) * w /\ y * w = a
    BY <1>1, <1>2
  <2>4. q = y
    <3>1. ASSUME q >= y + 1 PROVE FALSE
      <4>1. (q - y) * w >= w
        BY <1>1, <3>1
      <4> QED BY <1>1, <2>2, <2>3, <4>1
    <3>2. ASSUME q <= y - 1 PROVE FALSE
      <4>1. (q - y) * w <= -w
        BY <1>1, <3>2
      <4> QED BY <1>1, <2>2, <2>3, <4>1
    <3> QED BY <1>1, <3>1, <3>2
  <2>5. m = x
    BY <1>1, <2>2, <2>3, <2>4
  <2> QED BY <2>1, <2>4, <2>5
<1>7. InMemory(w, x, y) - 1 = a + x
  BY <1>1, <1>2 DEF InMemory
<1>8. Reread(w, h, a + x) = c + x + 1
  BY <1>2, <1>6 DEF Reread
<1>9. InFile(w, h, x, y) = 1 + c + x /\ InMemory(w, x, y) = a + x + 1
  BY <1>2 DEF InFile, InMemory
<1>10. Reread(w, h, InMemory(w, x, y) - 1) = InFile(w, h, x, y)
  BY <1>1, <1>7, <1>8, <1>9
<1> QED BY <1>2, <1>5, <1>9, <1>10

\* Every pixel of a photo has the colour that is right for its word.
LEMMA PhotoColours ==
  ASSUME NEW f, Valid(f), read_photo(f) # NULL,
         NEW x \in 0 .. f[1] - 1, NEW y \in 0 .. f[2] - 1,
         ColourOf(f, Own(SortOf(PixelsOf(f))))[1 + (f[2] - 1 - y) * f[1] + x] # <<"any">>
  PROVE  LET v == read_photo(f).img[f[1] * y + x + 1]
         IN  /\ v \in 64 .. 127 + Kept
             /\ Shown(read_photo(f).palette[v - 64])
                  = ColourOf(f, Own(SortOf(PixelsOf(f))))[1 + (f[2] - 1 - y) * f[1] + x]
<1> DEFINE p == PixelsOf(f)
           s == SortOf(p)
           w == f[1]
           h == f[2]
           i == InFile(w, h, x, y)
           n == InMemory(w, x, y)
           r == read_photo(f)
           like == Alike(p, Own(s), f[i])
<1>0. x \in 0 .. w - 1 /\ y \in 0 .. h - 1
  OBVIOUS
<1>1. p \in Seq(Nat) /\ Ordered(p, s)
  BY FilePixels, KeptClasses
<1>2. w \in Nat /\ w >= 1 /\ h \in Nat /\ h >= 1 /\ f \in Seq(Nat) /\ Len(f) >= 2 + w * h
  BY DEF Valid
<1>3. /\ \A k \in 1 .. w * h : r.img[k] = calculate_vga(s, f[Reread(w, h, k - 1)])
      /\ r.palette = set_plt_values(second_lev(p), fourth_lev(p), s)
  BY ReadIs
<1> HIDE DEF w, h, r, s, p
<1>4. n \in 1 .. w * h /\ Reread(w, h, n - 1) = i /\ i \in 1 .. w * h
  BY <1>0, <1>2, Indices
<1> HIDE DEF n, i
<1>5. r.img[n] = calculate_vga(s, f[i])
  BY <1>3, <1>4
<1>6. i \in DOMAIN f /\ f[i] \in Nat
  <2>1. PICK a \in Nat : a = w * h
    BY <1>2
  <2>2. i \in 1 .. Len(f)
    BY <1>2, <1>4, <2>1
  <2>3. DOMAIN f = 1 .. Len(f) /\ \A k \in 1 .. Len(f) : f[k] \in Nat
    BY <1>2
  <2> QED BY <2>2, <2>3
<1>7. ColourOf(f, Own(s))[i] = IF like = {} THEN <<"any">> ELSE Mean(p, like)
  BY <1>6 DEF ColourOf, p
<1>8. ColourOf(f, Own(s))[i] # <<"any">>
  BY DEF s, p, i, w, h, InFile
<1>9. like # {} /\ ColourOf(f, Own(s))[i] = Mean(p, like)
  BY <1>7, <1>8
<1>10. /\ calculate_vga(s, f[i]) \in 64 .. 127 + Kept
       /\ Shown(set_plt_values(second_lev(p), fourth_lev(p), s)[calculate_vga(s, f[i]) - 64]) = Mean(p, like)
  BY <1>1, <1>6, <1>9, WordColour
<1>11. /\ r.img[n] \in 64 .. 127 + Kept
       /\ Shown(r.palette[r.img[n] - 64]) = ColourOf(f, Own(s))[i]
  BY <1>3, <1>5, <1>9, <1>10
<1> QED BY <1>11 DEF r, n, i, w, h, s, p, InFile, InMemory

-----------------------------------------------------------------------------
(* The display's colours. *)

\* What is assumed of the files of the game.
LEMMA FilesValid ==
  ASSUME NEW id \in DOMAIN Files
  PROVE  /\ Valid(Files[id]) /\ read_photo(Files[id]) # NULL
         /\ Read[id] = read_photo(Files[id]) /\ Proper[id] = Colourings(Files[id])
<1> DEFINE f == Files[id]
           p == [id |-> id, w |-> f[1], h |-> f[2]]
<1>1. Files \in Seq(Seq(WORD)) /\ Read[id] # NULL
  BY PhotoAssumption
<1>2. Len(Files) \in Nat /\ DOMAIN Files = 1 .. Len(Files) /\ f \in Seq(WORD)
  BY <1>1
<1>3. Read[id] = read_photo(f)
  <2> DEFINE g == [j \in DOMAIN Files |-> read_photo(Files[j])]
  <2>1. g = [j \in 1 .. Len(Files) |-> g[j]] /\ g[id] = read_photo(f)
    BY <1>2
  <2>2. Read = Listed(g)
    BY DEF Read
  <2> HIDE DEF g
  <2> QED BY <1>2, <2>1, <2>2, ListedIs
<1>4. Proper[id] = Colourings(f)
  <2> DEFINE g == [j \in DOMAIN Files |-> Colourings(Files[j])]
  <2>1. g = [j \in 1 .. Len(Files) |-> g[j]] /\ g[id] = Colourings(f)
    BY <1>2
  <2>2. Proper = Listed(g)
    BY DEF Proper
  <2> HIDE DEF g
  <2> QED BY <1>2, <2>1, <2>2, ListedIs
<1>5. f \in Seq(Nat)
  <2>1. WORD \subseteq Nat
    BY DEF WORD
  <2> HIDE DEF f
  <2> QED BY <1>2, <2>1, SeqMonotonic
<1>6. f[1] \in Nat /\ f[1] >= 1 /\ f[2] \in Nat /\ f[2] >= 1
  <2>1. p \in Photos
    BY DEF Photos
  <2>2. p.w = f[1] /\ p.h = f[2]
    OBVIOUS
  <2> HIDE DEF p, f
  <2> QED BY <2>1, <2>2, Places, Sizes DEF H
<1>7. Len(f) >= 2 + f[1] * f[2]
  <2>1. ~(Len(f) < 2 + f[1] * f[2])
    BY <1>1, <1>3 DEF read_photo
  <2>2. Len(f) \in Nat /\ f[1] * f[2] \in Nat
    BY <1>5, <1>6
  <2> HIDE DEF f
  <2> QED BY <2>1, <2>2
<1>8. Cardinality({FourthOf(f[n]) : n \in 3 .. 2 + f[1] * f[2]}) >= Kept
  BY PhotoAssumption
<1>9. Valid(f)
  <2> HIDE DEF f
  <2> QED BY <1>5, <1>6, <1>7, <1>8 DEF Valid
<1> QED BY <1>1, <1>3, <1>4, <1>9

\* The display has the colours of the photo in view.
Prepared == dac = prep_room(photo)

\* Then the colours on the screen are right.
LEMMA PreparedRight == ASSUME IInv, Prepared PROVE ColoursConsistent
<1> DEFINE id == photo.id
           f == Files[id]
           colour == ColourOf(f, Own(SortOf(PixelsOf(f))))
<1>1. photo \in Photos /\ map_x \in 0 .. photo.w - SCROLL_X_DIM /\ map_y \in 0 .. photo.h - SCROLL_Y_DIM
  BY DEF IInv, TypeOK
<1>2. id \in DOMAIN Files /\ photo.w = f[1] /\ photo.h = f[2]
  <2>1. PICK j \in DOMAIN Files : photo = [id |-> j, w |-> Files[j][1], h |-> Files[j][2]]
    BY <1>1 DEF Photos
  <2> QED BY <2>1
<1>3. /\ Valid(f) /\ read_photo(f) # NULL
      /\ Read[id] = read_photo(f) /\ Proper[id] = Colourings(f)
  BY <1>2, FilesValid
<1>4. colour \in Proper[id]
  BY <1>3, ColouringsHas
<1>5. dac = [c \in 64 .. 127 + Kept |-> Shown(Read[id].palette[c - 64])]
  BY DEF Prepared, prep_room
<1> DEFINE Is(c, q, x, y, i) ==
             screen[q] = <<"photo", photo.id, x, y>> /\ c[i] # <<"any">>
               => dac[Read[photo.id].img[photo.w * y + x + 1]] = c[i]
           Matches(c) == \A q \in Columns \X Rows :
             Is(c, q, map_x + q[1], map_y + q[2],
                Reread(photo.w, photo.h, photo.w * (map_y + q[2]) + (map_x + q[1])))
<1>6. ASSUME NEW q \in Columns \X Rows
      PROVE  Is(colour, q, map_x + q[1], map_y + q[2],
                Reread(photo.w, photo.h, photo.w * (map_y + q[2]) + (map_x + q[1])))
  <2> DEFINE x == map_x + q[1]
             y == map_y + q[2]
             i == Reread(photo.w, photo.h, photo.w * y + x)
  <2> HIDE DEF colour
  <2>1. SUFFICES ASSUME colour[i] # <<"any">>
                 PROVE  dac[Read[id].img[photo.w * y + x + 1]] = colour[i]
    OBVIOUS
  <2> USE DEF colour
  <2>2. x = map_x + q[1] /\ y = map_y + q[2] /\ i = Reread(photo.w, photo.h, photo.w * y + x)
    OBVIOUS
  <2> HIDE DEF x, y, i
  <2>3. x \in 0 .. photo.w - 1 /\ y \in 0 .. photo.h - 1
    <3>1. q[1] \in 0 .. 4 * W - 1 /\ q[2] \in 0 .. H - 1
      BY Sizes DEF Columns, Rows, H
    <3> QED BY <1>1, <2>2, <3>1, Places, Sizes DEF H
  <2>4. x \in 0 .. f[1] - 1 /\ y \in 0 .. f[2] - 1
    BY <1>2, <2>3
  <2>5. i = 1 + (f[2] - 1 - y) * f[1] + x
    <3> DEFINE w == f[1]
               h == f[2]
    <3>1. w \in Nat /\ w >= 1 /\ h \in Nat
      BY <1>3 DEF Valid
    <3>2. i = Reread(w, h, w * y + x)
      BY <1>2, <2>2
    <3> HIDE DEF w, h
    <3>3. x \in 0 .. w - 1 /\ y \in 0 .. h - 1
      BY <2>4 DEF w, h
    <3>4. Reread(w, h, InMemory(w, x, y) - 1) = InFile(w, h, x, y)
      BY <3>1, <3>3, Indices
    <3>5. InMemory(w, x, y) - 1 = w * y + x
      <4>1. PICK a \in Int : a = w * y
        BY <3>1, <3>3
      <4> QED BY <3>3, <4>1 DEF InMemory
    <3>6. i = InFile(w, h, x, y)
      BY <3>2, <3>4, <3>5
    <3> QED BY <3>6 DEF InFile, w, h
  <2> DEFINE v == read_photo(f).img[f[1] * y + x + 1]
  <2>6. colour[1 + (f[2] - 1 - y) * f[1] + x] # <<"any">>
    BY <2>1, <2>5
  <2>7. /\ v \in 64 .. 127 + Kept
        /\ Shown(read_photo(f).palette[v - 64]) = colour[1 + (f[2] - 1 - y) * f[1] + x]
    <3> HIDE DEF f
    <3> QED BY <1>3, <2>4, <2>6, PhotoColours
  <2>8. dac[v] = Shown(read_photo(f).palette[v - 64])
    <3> HIDE DEF v, f
    <3> QED BY <1>3, <1>5, <2>7
  <2>9. dac[v] = colour[i]
    <3> HIDE DEF v, f, colour
    <3> QED BY <2>5, <2>7, <2>8
  <2> QED BY <1>2, <1>3, <2>9
<1> HIDE DEF colour
<1>7. Matches(colour)
  BY <1>6
<1>8. ColoursConsistent <=> \E c \in Proper[photo.id] : Matches(c)
  BY DEF ColoursConsistent, ColouredAs
<1> HIDE DEF Matches
<1> QED BY <1>4, <1>7, <1>8

\* Only entering a room changes the photo, and it loads its palette.
LEMMA PreparedStep == ASSUME Prepared, [Next]_vars PROVE Prepared'
<1>1. ASSUME NEW p \in Photos, NEW o \in Objects, EnterRoom(p, o) PROVE Prepared'
  BY <1>1 DEF EnterRoom, Prepared, prep_room
<1>2. ASSUME UNCHANGED <<photo, dac>> PROVE Prepared'
  BY <1>2 DEF Prepared, prep_room
<1>3. ASSUME NEW d \in Speeds,
             move_photo_down(d) \/ move_photo_left(d) \/ move_photo_right(d) \/ move_photo_up(d)
      PROVE  UNCHANGED <<photo, dac>>
  BY <1>3 DEF move_photo_down, move_photo_left, move_photo_right, move_photo_up
<1>4. ASSUME NEW o \in Objects, MoveObject(o) PROVE UNCHANGED <<photo, dac>>
  BY <1>4 DEF MoveObject
<1>5. ASSUME UNCHANGED vars PROVE UNCHANGED <<photo, dac>>
  BY <1>5 DEF vars
<1> QED BY <1>1, <1>2, <1>3, <1>4, <1>5 DEF Next

-----------------------------------------------------------------------------
(* The theorems. *)

\* IInv holds after every command.
THEOREM Inductive == Spec => []IInv
<1>1. Init => IInv
  BY InitOK
<1>2. IInv /\ [Next]_vars => IInv'
  BY DownOK, UpOK, RightOK, LeftOK, EnterOK, MoveObjectOK, StutterOK DEF Next
<1> QED BY <1>1, <1>2, PTL DEF Spec

\* The view stays inside the photo and inside the build buffer, however the
\* player pans.
THEOREM ViewStaysInside == Spec => []TypeOK
<1>1. IInv => TypeOK
  BY DEF IInv
<1> QED BY <1>1, Inductive, PTL

\* Neither drawing nor copying writes to the fence, and the fence is never
\* copied into the buffer.
THEOREM FenceKept == Spec => []FenceIntact
<1>1. IInv => FenceIntact
  BY DEF IInv
<1> QED BY <1>1, Inductive, PTL

\* The screen shows the room after any sequence of pans, although a pan draws
\* only the lines that come into view.
THEOREM ScreenFollowsView == Spec => []ScreenShowsRoom
<1>1. IInv => ScreenShowsRoom
  BY DEF IInv
<1> QED BY <1>1, Inductive, PTL

\* After any sequence of rooms and pans, every pixel of the photo on the
\* screen has the colour read_photo promises it: the mean of its own class
\* when that is one of the most frequent ones, else the mean of the pixels of
\* its second-level class that have no class of their own.
THEOREM ColoursFollowRoom == Spec => []ColoursConsistent
<1>1. Init => Prepared
  BY DEF Init, Prepared
<1>2. Prepared /\ [Next]_vars => Prepared'
  BY PreparedStep
<1>3. IInv /\ Prepared => ColoursConsistent
  BY PreparedRight
<1> QED BY <1>1, <1>2, <1>3, Inductive, PTL DEF Spec
=============================================================================
