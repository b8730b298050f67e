SPECIFICATION Spec
CONSTANTS
  a = a
  b = b
  Client = {a, b}
  MaxClock = 1
  MaxConn <- OneReconnects
  MaxEdit = 1
  MaxRestart = 0
INVARIANT
  Convergence
CHECK_DEADLOCK FALSE
