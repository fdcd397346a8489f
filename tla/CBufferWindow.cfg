SPECIFICATION Spec
CONSTANTS
  BufSize = 5
  WinSize = 3
  Mss = 2
  Slots = 2
  Chunks = {0, 1, 2}
  MaxStream = 9
INVARIANTS
  TypeOK
  WindowTilesRing
  WindowCoversStream
  UnackedBytesKept
  SentIsTheStream
  OneClockPerPacketInFlight
CHECK_DEADLOCK FALSE
