CONSTANTS
  Specs <- MCSpecs
  None = None
SPECIFICATION LiveSpec
INVARIANTS
  EveryEdgeIsAWire
  NoSharedChannel
  PrimedAsAsked
  AcceptedIsWired
PROPERTIES
  LoadEnds
\* a topology that shares a label blocks the loader for good
CHECK_DEADLOCK FALSE
