CONSTANTS
  a = a
  b = b
  c = c
  Node = {a, b, c}
  Asks <- MCAsks
  Reach <- MCReach
  Block = {k1}
  SeqnoMax = 2
  QueueSize = 2
  MaxRequests = 2
  Unstable = {a}
  MaxRestarts = 1
SPECIFICATION FairSpec
INVARIANTS NextSeqnoMoved ResponseOfRequest
PROPERTIES TransactionEnds
CHECK_DEADLOCK FALSE
