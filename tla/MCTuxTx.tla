------------------------------ MODULE MCTuxTx -------------------------------
(***************************************************************************)
(* TLC instances of TuxTx, and the properties of it that only TLC checks.  *)
(***************************************************************************)
EXTENDS TuxTx

\* Every byte put into the ring leaves it and reaches the controller or is
\* reported lost; a put that found no room is completed by later wakeups.
AllLeave == (enq > Len(wire) + Cardinality(lost))
              ~> (enq = Len(wire) + Cardinality(lost))
=============================================================================
