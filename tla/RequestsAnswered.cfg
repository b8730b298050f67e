SPECIFICATION FairSpec
CONSTANTS
  a = a
  b = b
  None = None
  Client = {a}
  MaxRun <- TwoForA
  Status = {"completed", "failed"}
  MaxConn <- TwoForA
  MaxRestart = 1
INVARIANT
  RequestsInv
PROPERTY
  RunAnswered
CHECK_DEADLOCK FALSE
