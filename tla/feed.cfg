CONSTANTS
  Chunks = 3
  QueueSize = 1
  Gens = {g1, g2}
  None = None
SPECIFICATION Spec
INVARIANTS EveryChunkOnce OneReader
PROPERTIES NextReturns CloseReturns
