------------------------------ MODULE EaseQuota ------------------------------
(***************************************************************************)
(* The game-theoretic part of ease_slotframe_update in ease.c: what a      *)
(* child demands at a price lambda, and the bisection for the price at     *)
(* which the children together demand what the duty cycle budget allows.   *)
(* EaseBisection is the loop, step by step.                                *)
(***************************************************************************)
EXTENDS Integers

CONSTANTS
  Scale,        \* EASE_LAMBDA_SCALE
  Weight,       \* EASE_DEFAULT_WEIGHT
  MaxCells,     \* EASE_MAX_CELLS_PER_CHILD
  Iterations    \* EASE_BISECTION_ITERATIONS

ASSUME QuotaAssumption ==
  /\ Scale \in Nat \ {0} /\ Weight \in Nat \ {0}
  /\ MaxCells \in Nat /\ Iterations \in Nat

DemandUncapped(price) ==
  LET k == (Weight * Scale) \div price - 1
  IN  IF k < 0 THEN 0 ELSE k
\* The cells one child demands at a price.
Demand(price) ==
  LET k == (Weight * Scale) \div price - 1
  IN  IF k < 0 THEN 0 ELSE IF k > MaxCells THEN MaxCells ELSE k

\* All children have the same weight, so the loop over them is a product.
Total(n, price) == n * Demand(price)

\* The middle of an interval of prices; no price is 0.
Middle(i) == IF (i.lo + i.hi) \div 2 = 0 THEN 1 ELSE (i.lo + i.hi) \div 2

\* The interval before the first iteration, for n children.
FirstInterval(n) == [lo |-> 1, hi |-> n * Weight * Scale]

NarrowAtEquality(n, B, i) ==
  IF Total(n, Middle(i)) >= B THEN [i EXCEPT !.lo = Middle(i)]
                              ELSE [i EXCEPT !.hi = Middle(i)]
NarrowForOneChild(n, B, i) ==
  IF Demand(Middle(i)) > B THEN [i EXCEPT !.lo = Middle(i)]
                           ELSE [i EXCEPT !.hi = Middle(i)]
\* One iteration: too much demand raises the lower end, else the upper one falls.
Narrow(n, B, i) ==
  IF Total(n, Middle(i)) > B THEN [i EXCEPT !.lo = Middle(i)]
                             ELSE [i EXCEPT !.hi = Middle(i)]

\* The quota of each of n children: what it demands at the price in the middle
\* of the interval left after all iterations.
Quota(n, B) ==
  LET interval[k \in 0 .. Iterations] ==
        IF k = 0 THEN FirstInterval(n) ELSE Narrow(n, B, interval[k - 1])
  IN  Demand(Middle(interval[Iterations]))
=============================================================================
