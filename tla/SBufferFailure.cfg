SPECIFICATION Spec
CONSTANTS
  Packets = 4
  Mss = 2
  Window = 3
  Requests = {3}
  MaxSeq = 6
  OldCopies = FALSE
INVARIANTS
  NeverFails
CHECK_DEADLOCK FALSE
