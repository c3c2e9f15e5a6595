CONSTANTS
  Threshold = 500
  Rho = 20
  Scale = 1000
  Weight = 1
  MaxCells = 4
  Iterations = 16
  Self = me
  Peers = {a}
  NoAddr = none
  MaxChildren = 1
  Budget = 3
  FirstAsfn = 1
  LastAsfn = 8
  MaxPkts = 1
  MaxOwn = 1
  MaxQueued = 1
SPECIFICATION Spec
INVARIANT UpwardServed
CHECK_DEADLOCK FALSE
