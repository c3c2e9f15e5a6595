----------------------------- MODULE MCEaseNode -----------------------------
(***************************************************************************)
(* EaseNode for TLC.  Any two peers may be exchanged: no action tells them *)
(* apart.                                                                  *)
(***************************************************************************)
EXTENDS EaseNode, TLC

Exchange == Permutations(Peers)
=============================================================================
