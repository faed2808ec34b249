SPECIFICATION FairSpec
CONSTANTS
  Pairs <- MCPairs
  Cookies <- MCTwoCookies
  CookieHalf = 4
  Networks = {"fifo", "reorder"}
  Ports = {"own", "shared"}
  Loops = {"sync", "async"}
  Capacity = 2
INVARIANTS Settled
PROPERTIES BothConnect
CHECK_DEADLOCK FALSE
