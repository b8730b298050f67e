SPECIFICATION IngestSpec
CONSTANTS
  MaxWord = 4
  MaxLetter = 8
  MaxSize = 6
  Call = {1, 2}
INVARIANTS
  TypeOK
  CoversText
  ChunksFit
  ChunksFull
  SplitInv
  AnsweredStored
CHECK_DEADLOCK FALSE
