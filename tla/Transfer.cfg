SPECIFICATION FairSpec
CONSTANTS
  ClientSize = 6
  WinSize = 4
  Mss = 2
  Slots = 2
  Packets = 3
  HeaderSize = 1
  Request = 2
  Files = {2, 7}
  MaxSeq = 4
CONSTRAINT
  Undecided
INVARIANTS
  TypeOK
  FileIsCopied
  NoByteForgotten
PROPERTIES
  IsSlidingWindow
  WholePacketsArrive
CHECK_DEADLOCK FALSE
