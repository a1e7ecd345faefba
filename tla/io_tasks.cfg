CONSTANTS
  a1 = a1
  a2 = a2
  Addr = {a1}
  BlockSize = 2
  PieceLength = 2
  NumPieces = 1
  TotalSize = 1
  MaxPieceIndex = 0
  PeerId = {1, 3}
  UnknownRarity = 9
  MaxInFlightPerPeer = 1
  MaxPendingUploads = 2
  ClientId = 2
  Connections <- Dialled
  Messages <- LastBlock
  Discoveries <- Tracker
  Statuses <- NoStatus
  LocalContents <- NoFile
  MaxReads = 0
  MaxSessions = 3
  MaxEvents = 1
SPECIFICATION IOFairSpec
PROPERTIES
  StoppedTasksEnd
  LostTasksEnd
