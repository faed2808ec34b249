SPECIFICATION Spec
CONSTANTS
  MaxWrites = 2
  MaxPkts = 2
  CloseEarly = TRUE
  MaxConns = 3
  Arrivals = {"single", "burst"}
  MayClose = TRUE
INVARIANTS InitializedOnceBeforeReading
PROPERTIES WritesAnswered BrokenIsClosed SingleConnectionServed
