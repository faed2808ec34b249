SPECIFICATION FairSpec
CONSTANTS
  Callers = {1}
  Options <- MCOptions
  Backlog = 1
  LastMinute = 2
  MaxSockets = 2
  Networks = {"fifo", "reorder"}
  Capacity = 2
INVARIANTS OneSocket SettledUnlessEchoed
PROPERTIES CallerAnswered
CHECK_DEADLOCK FALSE
