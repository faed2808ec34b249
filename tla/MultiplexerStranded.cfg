SPECIFICATION Spec
CONSTANTS
  s1 = s1
  s2 = s2
  Socks <- MCSocks
  Packets <- MCPackets
  Window = 1
  Delay = 1
  Grace = 2
INVARIANT NeverStranded
CHECK_DEADLOCK FALSE
