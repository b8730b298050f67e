SPECIFICATION FairSpec
CONSTANTS
  a = a
  b = b
  Client = {a, b}
  MaxClock = 1
  MaxConn <- OneReconnects
  MaxEdit = 1
  MaxRestart = 1
PROPERTIES
  DocSpec
  ConnectLeadsToSync
  EditReachesRoom
  EventuallyQuiet
CHECK_DEADLOCK FALSE
