SPECIFICATION Spec
CONSTANTS
  Socks = {u1}
  IdLimit = 2
  WatchMasks = {{"IN", "OUT", "ERR"}}
  MaxFds = 0
INVARIANTS
  LevelNeverMissed
  NoDeafSubscription
  NoticeExact
PROPERTIES
  RiseIsNoticed
