CONSTANTS
  Size = 4
  Values = {a, b}
  NoValue = none
SPECIFICATION Spec
INVARIANTS
  TypeOK
  PeekHolds
PROPERTIES
  ImplementsChannel
  HeadRemoved
CHECK_DEADLOCK TRUE
