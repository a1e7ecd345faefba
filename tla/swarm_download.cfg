CONSTANTS
  a1 = a1
  a2 = a2
  a3 = a3
  Addr = {a1, a2}
  BlockSize = 2
  PieceLength = 4
  NumPieces = 2
  TotalSize = 5
  MaxPieceIndex = 1
  PeerId = {1, 3}
  UnknownRarity = 9
  MaxInFlightPerPeer = 2
  MaxPendingUploads = 0
  ClientId = 2
  Connections <- OneConnectionEach
  Messages <- DownloadMessages
  Discoveries <- NoDiscovery
  Statuses <- DownloadStatuses
  LocalContents <- ResumedDownload
  MaxReads = 0
  Honest = {}
SPECIFICATION Spec
INVARIANTS
  InFlightBounded
  NoPieceStuck
  BitfieldIsExact
  TickFindsWork
PROPERTIES
  OnlyMismatchForgets
  StoredWhenComplete
  PlanExhausts
