CONSTANTS
  BlockSize = 2
  PieceLength = 2
  NumPieces = 2
  TotalSize = 3
  FileLengths <- Files
  CommandCapacity = 2
  ReadRanges <- Ranges
  MaxCalls = 4
SPECIFICATION FairDiskSpec
INVARIANTS
  ReadsSeeWrites
  FlushMeansStored
PROPERTIES
  StoredStays
  CallsReturn
  AcceptedIsWritten
CHECK_DEADLOCK FALSE
