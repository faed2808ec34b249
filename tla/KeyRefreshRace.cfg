SPECIFICATION Spec
CONSTANTS
  Keys = {1, 2, 3, 4, 5, 6, 7, 8}
  RefreshRate = 13
  PreAnnounce = 6
  PerAck = 2
  Lag = 2
  Window = 3
  Retries = 2
INVARIANT FlagsMatch
CHECK_DEADLOCK FALSE
