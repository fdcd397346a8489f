SPECIFICATION FairSpec
CONSTANTS
  ClientSize = 5
  WinSize = 4
  Mss = 2
  Slots = 2
  Packets = 3
  HeaderSize = 1
  Request = 2
  Files = {4}
  MaxSeq = 4
CONSTRAINT
  Undecided
PROPERTIES
  FilesArrive
CHECK_DEADLOCK FALSE
