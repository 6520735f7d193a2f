CONSTANTS
  LittleEndian = TRUE
  Handled <- HandledTypes
  PassedOn <- CaughtTypes
  CatchAll = TRUE
  Days <- AllDays
  BatchRows = 1
  QueueSize = 2
SPECIFICATION BSpec
INVARIANTS ChunkingInvisible PendingIsTail DecodedAsSent RowsOnce NamesOfBatch
