------------------------------ MODULE MCModeX -------------------------------
(* ModeX with a screen of eight by two pixels, one photo that is larger and
   one that just fills it, and an object that is moved.  The pixels have
   seven colours, of which two share a class of the fourth level and more
   one of the second level. *)
EXTENDS ModeX

Word(r, g, b) == r * 2048 + g * 32 + b
Paint == << Word(31, 63, 31), Word(30, 60, 31), Word(28, 50, 27),
            Word(26, 63, 25), Word(0, 0, 0), Word(3, 14, 6), Word(1, 3, 7) >>

\* A file of w by h pixels in which the colours repeat irregularly.
File(w, h, m) == <<w, h>> \o [n \in 1 .. w * h |->
                            Paint[((n * n + m * (n \div 2)) % 7) + 1]]

SomeFiles == << File(13, 4, 1), File(8, 2, 3) >>
SomeObjects == { [x |-> 5, y |-> 1, w |-> 4, h |-> 2],
                 [x |-> 1, y |-> 0, w |-> 2, h |-> 2] }
=============================================================================
