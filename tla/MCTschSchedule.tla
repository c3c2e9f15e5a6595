--------------------------- MODULE MCTschSchedule ---------------------------
(* A small schedule of two slotframes for TLC. *)
EXTENDS TschSchedule, TLC

MCSize == [s \in Handles |-> s]
MCLink(s, t, opts, a) ==
  [sf |-> s, ts |-> t, tx |-> "t" \in opts, rx |-> "r" \in opts,
   shared |-> "s" \in opts, addr |-> a, chan |-> s - 1]
CONSTANTS n1, n2
\* Links that replace one another, overlap within and across slotframes, and
\* come with each combination of options that the comparisons look at.
MCRequests ==
  {MCLink(1, 0, {"r"}, n1), MCLink(2, 1, {"t", "r", "s"}, Broadcast),
   MCLink(2, 1, {"t"}, n1)}
Symmetry == Permutations(Blocks)
=============================================================================
