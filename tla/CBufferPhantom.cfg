SPECIFICATION Spec
CONSTANTS
  BufSize = 4
  WinSize = 3
  Mss = 2
  Slots = 3
  Chunks = {2}
  MaxStream = 6
INVARIANTS
  NoPhantomPackets
CHECK_DEADLOCK FALSE
