CONSTANTS
  Scale = 1000
  Weight = 1
  MaxCells = 10
  Iterations = 16
  MaxChildren = 30
  Budgets = {1, 2, 5, 10, 20, 33, 50, 100, 167}
  NoQuota = NoQuota
SPECIFICATION Spec
INVARIANTS
  TypeOK
  Bracketed
  LeastPriceFound
  OvershootBounded
CHECK_DEADLOCK FALSE
