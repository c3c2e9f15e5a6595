CONSTANTS
  Threshold = 500
  Rho = 80
  Demands = {0, 1, 7}
  Quota = 5
SPECIFICATION PredictorSpec
INVARIANTS
  Bounded
PROPERTIES
  Settles
