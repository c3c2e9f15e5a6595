---------------------------- MODULE EasePredictor ----------------------------
(***************************************************************************)
(* The predictor of EASE over many slotframes.  Traffic first varies, then *)
(* may settle on a constant number of packets per slotframe.  A parent     *)
(* caps the prediction of a child by its quota, which stays the same here; *)
(* the cap is part of the same update.  Names say that they are of the     *)
(* predictor where a module may extend this one next to another.           *)
(***************************************************************************)
EXTENDS EaseCusum

CONSTANTS
  Demands,    \* numbers of packets of a child in a slotframe
  Quota       \* the child's quota

ASSUME PredictorAssumption == Demands \subseteq Nat /\ Quota \in Nat

VARIABLES
  estimate,   \* mu, cusum_s and predicted of a child
  demand,     \* packets in the last slotframe
  steady      \* whether the traffic has settled

predictorVars == <<estimate, demand, steady>>

\* The cap on a prediction; mean and sum stay.
Capped(p) == IF p.predicted > Quota THEN [p EXCEPT !.predicted = Quota] ELSE p

PredictorInit ==
  /\ estimate = NoPrediction
  /\ demand \in Demands
  /\ steady = FALSE

\* ease_slotframe_update after a slotframe with D packets.
Update(D) ==
  /\ steady => D = demand
  /\ estimate' = Capped(Cusum(estimate, D))
  /\ demand' = D
  /\ UNCHANGED steady

Settle ==
  /\ ~steady
  /\ steady' = TRUE
  /\ UNCHANGED <<estimate, demand>>

PredictorNext == Settle \/ \E D \in Demands : Update(D)

\* A node that has traffic handles packets and so passes slotframe boundaries.
PredictorSpec ==
  /\ PredictorInit /\ [][PredictorNext]_predictorVars
  /\ WF_predictorVars(\E D \in Demands : Update(D))

-----------------------------------------------------------------------------
(* Properties *)

\* The state of the predictor stays within what the traffic can cause: the mean
\* never exceeds the largest demand by more than one packet, nor the prediction,
\* and the sum never exceeds the threshold.
Bounded ==
  /\ \E D \in Demands :
       estimate.mu \in 0 .. 100 * (D + 1) /\ estimate.predicted \in 0 .. D + 1
  /\ estimate.s \in 0 .. Threshold
  /\ demand \in Demands /\ steady \in BOOLEAN

Least(a, b) == IF a < b THEN a ELSE b

\* The predictions that suit d packets per slotframe: no cell for no packet, else
\* one for each packet and at most one to spare, up to the quota.
Suitable(d) == IF d = 0 THEN {0} ELSE {Least(d, Quota), Least(d + 1, Quota)}

\* Under constant traffic the prediction becomes suitable and stays so, whatever
\* the traffic was before: the upward adjustment of saturated cells and the
\* sums that it piles up lead neither to growth nor to starvation.
Settles ==
  \A d \in Demands :
    <>[](steady /\ demand = d) => <>[](estimate.predicted \in Suitable(d))
=============================================================================
