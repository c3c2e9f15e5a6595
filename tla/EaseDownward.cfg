CONSTANTS
  Threshold = 500
  Rho = 80
  Scale = 1000
  Weight = 1
  MaxCells = 4
  Iterations = 16
  Self = me
  Peers = {a}
  NoAddr = none
  MaxChildren = 1
  Budget = 3
  FirstAsfn = 1
  LastAsfn = 3
  MaxPkts = 2
  MaxOwn = 2
  MaxQueued = 1
SPECIFICATION Spec
INVARIANT DownwardServed
CHECK_DEADLOCK FALSE
