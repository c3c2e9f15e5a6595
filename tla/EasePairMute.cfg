CONSTANTS
  Threshold = 0
  Rho = 0
  Quotas = {1}
  MaxTx = 2
  QueueMax = 1
SPECIFICATION Spec
PROPERTY NeverMute
