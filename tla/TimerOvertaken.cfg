SPECIFICATION Spec
CONSTANTS
  Timers = {11, 12, 13, 14}
  Durations = {2}
  Second = 2
  IdleWait = 1
  Latency = 0
  InboxMax = 1
  Overdue = 5
  Watched = {11, 12, 13, 14}
  Resent = {11, 12, 13, 14}
  Kinds = {"start", "cancel"}
INVARIANTS
  Deadline
