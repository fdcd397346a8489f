SPECIFICATION FairSpec
CONSTANTS
  Timers = {11, 12, 13, 14}
  Durations = {1, 3}
  Second = 2
  IdleWait = 1
  Latency = 1
  InboxMax = 1
  Overdue = 0
  Watched = {}
  Resent = {11}
  Kinds = {"start", "cancel", "quit"}
INVARIANTS
  TypeOK
  EachTimerOnce
PROPERTIES
  ServiceSpec
  TimersEndWhenQuiet
