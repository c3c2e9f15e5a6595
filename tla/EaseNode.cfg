CONSTANTS
  Threshold = 100
  Rho = 50
  Scale = 1000
  Weight = 1
  MaxCells = 4
  Iterations = 16
  Self = me
  Peers = {a, b}
  NoAddr = none
  MaxChildren = 2
  Budget = 1
  FirstAsfn = 1
  LastAsfn = 3
  MaxPkts = 1
  MaxOwn = 1
  MaxQueued = 1
SPECIFICATION Spec
INVARIANTS
  TypeOK
  ListensAsCounted
  SendsToParent
  NeverDoubled
  CellsCoverPrediction
  NackOnlyAfterPacket
  QueuedForNeighbor
CHECK_DEADLOCK FALSE
SYMMETRY Exchange
