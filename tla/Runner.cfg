CONSTANTS
  MaxRuns = 3
  MaxClicks = 3
  Lines = 2
  None = None
SPECIFICATION FairSpec
INVARIANTS
  TypeOK
  OneAtATime
  StopIsOffered
  ReportedAsItEnded
  LinesArrive
PROPERTIES
  RunEnds
CHECK_DEADLOCK FALSE
