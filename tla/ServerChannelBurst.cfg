SPECIFICATION Spec
CONSTANTS
  MaxConns = 2
  Arrivals = {"burst"}
  MayClose = FALSE
PROPERTIES
  EveryConnectionServed
