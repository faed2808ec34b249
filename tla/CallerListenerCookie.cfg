SPECIFICATION Spec
CONSTANTS
  Callers = {1}
  Options <- MCPlain
  Backlog = 1
  LastMinute = 1
  MaxSockets = 2
  Networks = {"fifo"}
  Capacity = 2
INVARIANT EarlierCookieTaken
CHECK_DEADLOCK FALSE
