SPECIFICATION Spec
CONSTANTS
  Socks = {u1}
  IdLimit = 1
  WatchMasks = {{"IN"}, {"OUT", "ERR"}, {"IN", "OUT", "ERR"}}
  MaxFds = 1
INVARIANT OnlyWatchedNoticed
