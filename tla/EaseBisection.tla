---------------------------- MODULE EaseBisection ----------------------------
(***************************************************************************)
(* The bisection loop of ease_slotframe_update as a machine that takes one *)
(* iteration per step, for every number of children and a choice of        *)
(* budgets.  It shows what the quota of EaseQuota is: the demand next to   *)
(* the least price that the budget covers.                                 *)
(***************************************************************************)
EXTENDS EaseQuota

CONSTANTS
  MaxChildren,  \* EASE_MAX_CHILDREN
  Budgets,      \* values of B = EASE_RDC_BUDGET_PCT * EASE_UNICAST_PERIOD / 100
  NoQuota       \* before the loop has ended

ASSUME BisectionAssumption ==
  MaxChildren \in Nat /\ Budgets \subseteq Nat /\ NoQuota \notin Nat

VARIABLES
  children,   \* ease_num_children
  budget,     \* B
  interval,   \* lo and hi
  iter,       \* the loop counter
  quota       \* the quota of each child

vars == <<children, budget, interval, iter, quota>>

\* The code searches only if it has children and a budget.
Init ==
  /\ children \in 1 .. MaxChildren
  /\ budget \in Budgets \ {0}
  /\ interval = FirstInterval(children)
  /\ iter = 0
  /\ quota = NoQuota

Iterate ==
  /\ iter < Iterations
  /\ interval' = Narrow(children, budget, interval)
  /\ iter' = iter + 1
  /\ UNCHANGED <<children, budget, quota>>

SetQuota ==
  /\ iter = Iterations /\ quota = NoQuota
  /\ quota' = Demand(Middle(interval))
  /\ UNCHANGED <<children, budget, interval, iter>>

Next == Iterate \/ SetQuota

Spec == Init /\ [][Next]_vars

-----------------------------------------------------------------------------
(* Properties *)

\* The variables keep their types: prices are positive, quotas within the most
\* cells a child may have.
TypeOK ==
  /\ children \in 1 .. MaxChildren /\ budget \in Budgets \ {0}
  /\ interval \in [lo : Nat \ {0}, hi : Nat \ {0}]
  /\ iter \in 0 .. Iterations
  /\ quota \in 0 .. MaxCells \cup {NoQuota}

\* The loop invariant: the upper end is always a price that the budget covers,
\* and the lower end, once raised, is one that it does not.
Bracketed ==
  /\ interval.lo <= interval.hi
  /\ Total(children, interval.hi) <= budget
  /\ interval.lo = 1 \/ Total(children, interval.lo) > budget

\* The upper end of the search is the least price that the budget covers, though
\* the search looks at 16 of up to 30000 prices.
LeastPriceFound ==
  iter = Iterations => \A p \in 1 .. interval.hi - 1 : Total(children, p) > budget

\* The quotas exceed the budget by at most one cell per child.
OvershootBounded == quota # NoQuota => children * quota <= budget + children

\* The quotas together are within the budget: "Game theory caps predictions within
\* the RDC budget" (ease.c).
WithinBudget == quota # NoQuota => children * quota <= budget
=============================================================================
