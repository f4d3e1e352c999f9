CONSTANTS
  Edit = {e1}
  Outside = {x1}
  Drag = {p1}
  Base = base
  View0 = {p0}
  Legacy0 = {l0}
  MaxActs = 3
  MaxQueue = 1
  MaxJobs = 2
  None = None
SPECIFICATION FairSpec
INVARIANTS
  TypeOK
  NoLostEdit
  Settled
  
  ViewNotClobbered
PROPERTIES
  NoEcho SavedInTheEnd
CHECK_DEADLOCK FALSE
