------------------------------ MODULE EaseCusum ------------------------------
(***************************************************************************)
(* The CUSUM predictor of ease.c: what a slotframe with D packets does to  *)
(* the mean mu and the cumulative sum s, both in hundredths of a packet,   *)
(* and to the predicted number of cells.  ease_cusum_update applies it to  *)
(* a child; ease_slotframe_update repeats it inline for the node itself.   *)
(***************************************************************************)
EXTENDS Integers

CONSTANTS
  Threshold,  \* EASE_CUSUM_THRESHOLD
  Rho         \* EASE_CUSUM_RHO

ASSUME CusumAssumption == Threshold \in Nat /\ Rho \in 0 .. 100

NoPrediction == [mu |-> 0, s |-> 0, predicted |-> 0]

AdjustedAlways(D, predicted) == D + 1
\* The demand is at least one more than what was received when that filled
\* the predicted cells.
Adjusted(D, predicted) ==
  LET cells == IF predicted > 0 THEN predicted ELSE 1
  IN  IF D >= cells THEN D + 1 ELSE D

CusumKeepsSum(c, D) ==
  LET dt == 100 * Adjusted(D, c.predicted)
      s == IF c.s + dt - c.mu < 0 THEN 0 ELSE c.s + dt - c.mu
      mu == IF s > Threshold THEN dt ELSE (Rho * c.mu + (100 - Rho) * dt) \div 100
  IN  [mu |-> mu, s |-> s, predicted |-> (mu + 99) \div 100]
\* The predictor after a slotframe with D packets.  A sum above the threshold
\* is a burst: the mean jumps to the demand.  Else the mean follows slowly.
Cusum(c, D) ==
  LET dt == 100 * Adjusted(D, c.predicted)
      s == IF c.s + dt - c.mu < 0 THEN 0 ELSE c.s + dt - c.mu
      burst == s > Threshold
      mu == IF burst THEN dt ELSE (Rho * c.mu + (100 - Rho) * dt) \div 100
  IN  [mu |-> mu, s |-> IF burst THEN 0 ELSE s,
       predicted |-> IF mu > 0 THEN (mu + 99) \div 100 ELSE 0]
=============================================================================
