CONSTANTS
  Specs <- MCSpecs
  None = None
SPECIFICATION Spec
INVARIANTS
  OpensInTheEditor
\* a topology that shares a label blocks the loader for good
CHECK_DEADLOCK FALSE
