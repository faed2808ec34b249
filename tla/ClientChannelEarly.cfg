SPECIFICATION Spec
CONSTANTS
  MaxWrites = 1
  MaxPkts = 0
  MayClose = TRUE
  CloseEarly = TRUE
PROPERTIES
  CloseFailsPending
