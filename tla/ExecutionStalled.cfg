SPECIFICATION FairSpec
CONSTANTS
  j1 = j1
  j2 = j2
  Job = {j1}
  Concurrency = 2
  MaxStalled = 2
  MaxRestart = 1
INVARIANTS
  EngineInv
  StatusIsReal
PROPERTY
  QueueSpec
CHECK_DEADLOCK FALSE
