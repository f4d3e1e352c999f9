CONSTANTS
  Emitter = {e1, e2}
  Burst = 2
  Buf = 1
  Prints = TRUE
  Closer = {c1, c2}
  Nobody = Nobody
SPECIFICATION LiveSpec
INVARIANTS
  NoPanic
  PerNodeOrder
  StreamMatchesRecord
PROPERTIES
  ClosesReturn
