SPECIFICATION Spec
CONSTANTS
  a = a
  b = b
  None = None
  Client = {a, b}
  MaxRun <- TwoForA
  Status = {"completed", "failed"}
  MaxConn <- TwoForA
  MaxRestart = 1
INVARIANTS
  TypeOK
  OutputIsOwn
  OneAtATime
CHECK_DEADLOCK FALSE
