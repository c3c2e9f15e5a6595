CONSTANTS
  n1 = n1
  n2 = n2
  shared = shared
  own = own
  Unicast <- MCUnicast
  Broadcast = bcast
  Blocks = {b1, b2}
  Links <- MCLinks
  AnyCell = any
  Cells = {any, own}
  MaxNbrs = 3
  QueueCapacity = 2
  DequeuedCapacity = 1
  MaxTx = 2
  MinBE = 0
  MaxBE = 1
  MayFlush = TRUE
  NoNbr = NoNbr
  NoBlock = NoBlock
  NoLink = NoLink
SPECIFICATION Spec
INVARIANTS
  NoUseAfterFree
