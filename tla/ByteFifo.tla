------------------------------ MODULE ByteFifo ------------------------------
(***************************************************************************)
(* What the ring buffers of the line discipline promise: a bounded queue   *)
(* of bytes.  A step appends one byte to a queue that is not full, or      *)
(* removes the oldest byte of one that is not empty; bytes are never       *)
(* dropped, duplicated, overwritten or reordered inside the queue.         *)
(***************************************************************************)
EXTENDS Naturals, Sequences

CONSTANT Capacity

VARIABLE q

Init == q = << >>

Enqueue == /\ Len(q) < Capacity
           /\ Len(q') = Len(q) + 1
           /\ q' = Append(q, q'[Len(q) + 1])

Dequeue == /\ q # << >>
           /\ q' = Tail(q)

Next == Enqueue \/ Dequeue

Spec == Init /\ [][Next]_q
=============================================================================
