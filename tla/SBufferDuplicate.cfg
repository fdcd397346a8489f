SPECIFICATION Spec
CONSTANTS
  Packets = 4
  Mss = 2
  Window = 3
  Requests = {3}
  MaxSeq = 4
  OldCopies = FALSE
INVARIANTS
  DuplicateIsAnswered
CHECK_DEADLOCK FALSE
