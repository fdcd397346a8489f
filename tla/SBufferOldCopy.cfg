SPECIFICATION Spec
CONSTANTS
  Packets = 4
  Mss = 2
  Window = 3
  Requests = {1, 3}
  MaxSeq = 4
  OldCopies = TRUE
INVARIANTS
  ReadIsTheStream
CHECK_DEADLOCK FALSE
