SPECIFICATION FairSpec
CONSTANTS
  a = a
  b = b
  None = None
  Client = {a}
  MaxRun <- TwoForA
  Status = {"completed", "failed"}
  MaxConn <- TwoForA
  MaxRestart = 0
PROPERTY
  ResultReturned
CHECK_DEADLOCK FALSE
