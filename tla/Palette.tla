------------------------------ MODULE Palette -------------------------------
(***************************************************************************)
(* How photo.c of mp2 chooses the colours of a photo (read_photo and the   *)
(* functions after it).  The pixels of the file, 16-bit words with five    *)
(* bits of red, six of green and five of blue, are sorted into 4096        *)
(* classes of the fourth level of an octree and 64 of the second level.    *)
(* The Kept most frequent classes of the fourth level get a colour of      *)
(* their own, all other pixels the colour of their second-level class.     *)
(* Palette entry k becomes colour 64 + k of the display.                   *)
(***************************************************************************)
EXTENDS Integers, Sequences, FiniteSetsExt

CONSTANTS
  Kept,               \* fourth-level classes with a colour (128)
  MAX_PHOTO_WIDTH, MAX_PHOTO_HEIGHT

ASSUME KeptAssumption == Kept \in 1 .. 128

WORD == 0 .. 65535    \* what fread reads, a uint16_t
SECOND == 0 .. 63

\* A sequence as it is, written so that TLC computes it once.
Listed(s) == <<>> \o s

\* The colours of a pixel, and its classes: the upper bits of each.
Rgb(pixel) == <<(pixel \div 2048) % 32, (pixel \div 32) % 64, pixel % 32>>
FourthOf(pixel) == LET c == Rgb(pixel) IN
  (c[1] \div 2) * 256 + (c[2] \div 4) * 16 + c[3] \div 2
SecondOf(pixel) == LET c == Rgb(pixel) IN
  (c[1] \div 8) * 16 + (c[2] \div 16) * 4 + c[3] \div 8

\* The second-level class that a fourth-level class is part of.
Parent(color) == ((color \div 1024) % 4) * 16 + ((color \div 64) % 4) * 4
                   + ((color \div 4) % 4)

\* A node_t after arr_initialize and insert_values of the pixels at places.
Node(pixels, places) ==
  [total |-> [k \in 1 .. 3 |-> MapThenSumSet(LAMBDA n : Rgb(pixels[n])[k], places)],
   counter |-> Cardinality(places)]

\* Only the classes some pixel is in: the other ones are sorted behind them.
fourth_lev(pixels) ==
  [c \in {FourthOf(pixels[n]) : n \in DOMAIN pixels} |->
     Node(pixels, {n \in DOMAIN pixels : FourthOf(pixels[n]) = c})]
second_lev(pixels) ==
  [c \in SECOND |-> Node(pixels, {n \in DOMAIN pixels : SecondOf(pixels[n]) = c})]

\* The first Kept classes after qsort with sort_cmp: the larger counter first
\* and, the C library's merge sort being stable, equal ones by their index.
qsort(lev) ==
  LET first[i \in 0 .. Kept - 1] ==
        LET left == DOMAIN lev \ {first[j] : j \in 0 .. i - 1}
            most == Max({lev[c].counter : c \in left})
        IN  Min({c \in left : lev[c].counter = most})
  IN  [i \in 0 .. Kept - 1 |-> first[i]]

\* What second_lev[c] holds once the kept classes are taken out of it.
Rest(second, fourth, sorted, c) ==
  LET gone == {i \in DOMAIN sorted : Parent(sorted[i]) = c}
  IN  [total |-> [k \in 1 .. 3 |-> second[c].total[k]
         - MapThenSumSet(LAMBDA i : fourth[sorted[i]].total[k], gone)],
       counter |-> second[c].counter
         - MapThenSumSet(LAMBDA i : fourth[sorted[i]].counter, gone)]

\* An entry nobody writes keeps what malloc left there.
Average(node) == IF node.counter = 0 THEN <<"uninitialized">>
                 ELSE [k \in 1 .. 3 |-> node.total[k] \div node.counter]

set_plt_values(second, fourth, sorted) ==
  [k \in 0 .. 63 + Kept |->
     Average(IF k < 64 THEN Rest(second, fourth, sorted, k)
                       ELSE fourth[sorted[k - 64]])]

calculate_vga(sorted, pixel) ==
  LET own == {i \in DOMAIN sorted : sorted[i] = FourthOf(pixel)}
  IN  IF own # {} THEN Min(own) + 64 + 64 ELSE SecondOf(pixel) + 64

NULL == [w |-> 0, h |-> 0, img |-> <<>>, palette |-> <<>>]

\* The word of the file that the second pass reads for place n of the image.
\* It starts at the beginning of the file (fseek) and not behind the header,
\* and goes through the rows from the last one, y = h - 1, to the first.
Reread(w, h, n) == (h - 1 - n \div w) * w + (n % w) + 1

\* The file is a sequence of words: width, height, and the rows of pixels
\* from the bottom up.
read_photo(words) ==
  LET w == words[1]
      h == words[2]
  IN  IF w > MAX_PHOTO_WIDTH \/ h > MAX_PHOTO_HEIGHT \/ Len(words) < 2 + w * h
      THEN NULL
      ELSE LET pixels == SubSeq(words, 3, 2 + w * h)
               fourth == fourth_lev(pixels)
               sorted == qsort(fourth)
           IN  [w |-> w, h |-> h,
                img |-> Listed([n \in 1 .. w * h |->
                                  calculate_vga(sorted, words[Reread(w, h, n - 1)])]),
                palette |-> set_plt_values(second_lev(pixels), fourth, sorted)]

\* The colour prep_room gives palette_print: six bits each.
Shown(c) == IF c = <<"uninitialized">> THEN c
            ELSE <<(c[1] * 2) % 64, c[2] % 64, (c[3] * 2) % 64>>
=============================================================================
