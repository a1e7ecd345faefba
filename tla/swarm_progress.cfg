CONSTANTS
  a1 = a1
  a2 = a2
  a3 = a3
  Addr = {a1, a2}
  BlockSize = 2
  PieceLength = 4
  NumPieces = 2
  TotalSize = 5
  MaxPieceIndex = 1
  PeerId = {1, 3}
  UnknownRarity = 9
  MaxInFlightPerPeer = 1
  MaxPendingUploads = 2
  ClientId = 2
  Connections <- OneConnectionEach
  Messages <- ProgressMessages
  Discoveries <- NoDiscovery
  Statuses <- NoStatus
  LocalContents <- NewDownload
  MaxReads = 0
  Honest = {a1}
SPECIFICATION FairSpec
PROPERTY DownloadCompletes
