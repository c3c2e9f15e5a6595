CONSTANTS
  a = a
  b = b
  c = c
  Node = {a, b}
  Asks <- MCAdds
  Reach <- MCReach
  Block = {k1}
  SeqnoMax = 8
  QueueSize = 2
  MaxRequests = 4
  Unstable = {a}
  MaxRestarts = 0
SPECIFICATION Spec
INVARIANTS NoDelayedResponse
CHECK_DEADLOCK FALSE
