SPECIFICATION Spec
CONSTANTS
  Packets = 6
  Mss = 3
  Window = 4
  Requests = {2, 4}
  MaxSeq = 9
  OldCopies = FALSE
INVARIANTS
  TypeOK
  ReadIsTheStream
  AnsweredIsKept
  NextIsServed
  FilledNodesDisjoint
  NothingToMerge
  FirstLapIsAccepted
CHECK_DEADLOCK FALSE
