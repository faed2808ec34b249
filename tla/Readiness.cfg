SPECIFICATION ReadinessSpec
CONSTANTS
  RcvModes = {"live", "level", "block"}
  RcvPkts = 3
  SndModes = {"edge", "level", "block"}
  SndPkts = 5
  BufSize = 2
  MayDrop = TRUE
  PeerMayFail = TRUE
  MayBreak = TRUE
INVARIANTS Announced
PROPERTIES ReadyIsRead AllIsSent CallsReturn BreakIsTold
CHECK_DEADLOCK FALSE
