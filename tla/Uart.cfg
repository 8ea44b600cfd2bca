SPECIFICATION Spec
CONSTANTS
  Byte = {0, 1}
  MaxLen = 3
  SendTrigLevel = 1
  MplWriteLevel = 1
  Data <- MCData
  MaxChunk = 2
  RecvTrigLevel = 2
  MplReadLevel = 1
  Chunks <- MCChunks
  MaxRead = 4
INVARIANTS TypeOK WriterIsRemembered BlockingMeansSent ReaderIsRemembered
PROPERTIES WriteEnds ImplementsFifo
