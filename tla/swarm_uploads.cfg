CONSTANTS
  a1 = a1
  a2 = a2
  a3 = a3
  Addr = {a1, a2}
  BlockSize = 2
  PieceLength = 2
  NumPieces = 2
  TotalSize = 3
  MaxPieceIndex = 1
  PeerId = {1, 3}
  UnknownRarity = 9
  MaxInFlightPerPeer = 1
  MaxPendingUploads = 2
  ClientId = 2
  Connections <- OneConnectionEach
  Messages <- SeedMessages
  Discoveries <- NoDiscovery
  Statuses <- SwarmStatus
  LocalContents <- OnDisk
  MaxReads = 3
  Honest = {}
SPECIFICATION FairSpec
INVARIANTS
  PendingReadsAreWanted
  UploadsBounded
PROPERTIES
  NoLeakedRead
  ImplementsUploadService
  WaitsEnd
