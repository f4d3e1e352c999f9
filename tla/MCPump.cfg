CONSTANTS
  Node = {"c", "g"}
  Fold = {"fold"}
  Drawings <- MCDrawings
  Event <- MCEvent
  MaxEvents = 2
  MaxActs = 2
  None = None
SPECIFICATION FairSpec
INVARIANTS
  TypeOK
  ShowsTheLast
  AgreesWithResolve
PROPERTIES
  AnimationsEnd
CHECK_DEADLOCK FALSE
