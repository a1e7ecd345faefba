CONSTANTS
  a1 = a1
  a2 = a2
  Addr = {a1, a2}
  BlockSize = 2
  PieceLength = 4
  NumPieces = 2
  TotalSize = 5
  MaxPieceIndex = 1
  PeerId = {1}
  UnknownRarity = 9
  MaxInFlightPerPeer = 2
SPECIFICATION LoopSpec
INVARIANT HoldersInStep
PROPERTIES
  ImplementsPlanner
  Returns
CHECK_DEADLOCK FALSE
