SPECIFICATION Spec
CONSTANTS
  a = a
  b = b
  Client = {a, b}
  MaxClock = 2
  MaxConn <- OneReconnects
  MaxEdit = 2
  MaxRestart = 0
INVARIANTS
  TypeOK
  ServerCovers
  MissingOnlySilent
  SyncInv
  PageInv
  ConvergesUnlessSilent
PROPERTIES
  RoomDocSurvives
  DocSpec
CHECK_DEADLOCK FALSE
