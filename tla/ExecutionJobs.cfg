SPECIFICATION FairSpec
CONSTANTS
  j1 = j1
  j2 = j2
  Job = {j1, j2}
  Concurrency = 1
  MaxStalled = 0
  MaxRestart = 1
INVARIANTS
  TypeOK
  ContainersAccounted
  StatusIsReal
PROPERTIES
  QueueSpec
  ContainersGo
CHECK_DEADLOCK FALSE
