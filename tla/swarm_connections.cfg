CONSTANTS
  a1 = a1
  a2 = a2
  a3 = a3
  Addr = {a1, a2}
  BlockSize = 2
  PieceLength = 2
  NumPieces = 2
  TotalSize = 3
  MaxPieceIndex = 1
  PeerId = {1, 3}
  UnknownRarity = 9
  MaxInFlightPerPeer = 1
  MaxPendingUploads = 2
  ClientId = 2
  Connections <- AnyConnection
  Messages <- ConnectionMessages
  Discoveries <- SomeAddresses
  Statuses <- NoStatus
  LocalContents <- OnePieceOnDisk
  MaxReads = 2
  Honest = {}
SPECIFICATION Spec
INVARIANTS
  TypeOK
  OneConnectionPerPeerId
  OnlyPeersAreKnown
  RequestsCanBeAnswered
  ClassesMatchAvailability
