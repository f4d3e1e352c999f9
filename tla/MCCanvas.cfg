CONSTANTS
  Limit = 2
  Name = {"a", "b", "c", "d"}
  FoldName = {"fold0", "fold1"}
  InPort = {"in"}
  OutPort = {"out"}
  GrownPort = {"in0"}
  Kind = {"chain", "any"}
  PortKind = "chain"
  Files <- MCFiles
  Folds0 <- Start
  Selected = {"b", "c"}
  MaxActs = 3
  None = None
SPECIFICATION Spec
INVARIANTS
  TypeOK
  EdgesJoin
  OneSender
  Distinct
  HistoryBounded
PROPERTIES
  TimelineKept
CHECK_DEADLOCK FALSE
