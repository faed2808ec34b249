SPECIFICATION FairSpec
CONSTANTS
  Pairs <- MCPairs
  Cookies <- MCTwoCookies
  CookieHalf = 4
  Networks = {"reorder"}
  Ports = {"own"}
  Loops = {"sync", "async"}
  Capacity = 2
INVARIANT NeverRefused
CHECK_DEADLOCK FALSE
