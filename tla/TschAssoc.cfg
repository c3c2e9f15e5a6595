SPECIFICATION Spec
CONSTANTS
  Nbr = {n1, n2}
  QueueMax = 2
  RingMax = 1
  MaxSwitches = 1
  MaxDeaths = 1
INVARIANTS KeepaliveGoesOn
PROPERTIES FailureOfSourceItself SilentSourceLeft Rejoins
