SPECIFICATION RunSpec
CONSTANTS
  Client = {"a"}
  None = None
  Status = {"completed", "failed"}
  MaxRun <- Twice
  MaxConn <- Once
  MaxRestart = 0
  Language = {"typescript", "python"}
  First = "typescript"
INVARIANT
  RunsShownLanguage
CHECK_DEADLOCK FALSE
