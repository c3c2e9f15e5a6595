----------------------------- MODULE MCTschQueue -----------------------------
(* A schedule with one shared broadcast link, on which packets and frames    *)
(* from others meet, and one link to a neighbor of its own.                  *)
EXTENDS TschQueue

CONSTANTS n1, n2, shared, own

MCUnicast == {n1, n2}
MCLinks ==
  {[addr |-> Broadcast, cell |-> shared, tx |-> TRUE, rx |-> TRUE, shared |-> TRUE],
   [addr |-> n1, cell |-> own, tx |-> TRUE, rx |-> FALSE, shared |-> FALSE]}
=============================================================================
