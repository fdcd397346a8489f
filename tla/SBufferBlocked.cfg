SPECIFICATION Spec
CONSTANTS
  Packets = 4
  Mss = 2
  Window = 3
  Requests = {1, 2}
  MaxSeq = 6
  OldCopies = FALSE
INVARIANTS
  NeededIsAccepted
CHECK_DEADLOCK FALSE
