CONSTANTS
  None = None
  Node <- MCNode
  Chan <- MCChan
  Kind <- MCKind
  In <- MCIn
  Out <- MCOut
  Source <- MCSource
  Held0 <- MCHeld0
  Prime <- MCPrime
  Source1 = "inputNode"
  Gate = "readGate"
  Inhs <- MCInhs
  First = "i0"
  Onward <- MCOnward
  LineInit <- TwoLaps
  Side = TRUE
  TraceBuf = 1
SPECIFICATION Running
INVARIANTS
  TypeOK
  OneToken
  NoRingDrop
  AckMeansIdle
