CONSTANTS
  Scale = 1000
  Weight = 1
  MaxCells = 10
  Iterations = 16
  MaxChildren = 30
  Budgets = {20, 33}
  NoQuota = NoQuota
SPECIFICATION Spec
INVARIANTS
  WithinBudget
CHECK_DEADLOCK FALSE
