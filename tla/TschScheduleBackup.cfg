CONSTANTS
  Handles = {1, 2}
  Size <- MCSize
  Cycle = 2
  Blocks = {b1, b2}
  Requests <- MCRequests
  PacketChannels = {2}
  n1 = n1
  n2 = n2
  Unicast = {n1, n2}
  Broadcast = bc
  MaxNbrs = 2
  NoLink = NoLink
  NoRequest = NoRequest
  NoChannel = NoChannel
SYMMETRY Symmetry
SPECIFICATION Spec
INVARIANT BackupIsScheduled
