SPECIFICATION FairLoopSpec
CONSTANTS
  BufSize = 5
  WinSize = 4
  Mss = 2
  Slots = 2
  Chunks = {2}
  MaxStream = 6
  InboxMax = 1
INVARIANTS
  LoopTypeOK
  InFlightIsTimed
  ChunkStoredOnce
PROPERTIES
  ChunkIsAnswered
  ImplementsBuffer
CHECK_DEADLOCK FALSE
