CONSTANTS
  Threshold = 0
  Rho = 0
  Quotas = {0}
  MaxTx = 2
  QueueMax = 1
SPECIFICATION Spec
INVARIANT TrustHasReason
