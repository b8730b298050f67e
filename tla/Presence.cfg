SPECIFICATION FairSpec
CONSTANTS
  a = a
  b = b
  Client = {a, b}
  MaxConn <- OneReconnects
  MaxClock <- OneMovesTwice
INVARIANTS
  TypeOK
  OwnStateRules
  PresenceInv
PROPERTIES
  StateSeen
CHECK_DEADLOCK FALSE
