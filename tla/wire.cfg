CONSTANTS
  MaxMessageSize = 1024
  NumPieces = 9
  PieceLength = 32768
  BlockSize = 16384
  TotalSize = 270000
  Greetings <- Hellos
  Registered <- OurTorrents
  OurSize = 500
  Contents <- Started
  Talk <- Talking
  RawFrames <- Raws
  Fetched = {0, 8}
  MaxSaid <- Frames
SPECIFICATION StreamSpec
INVARIANTS
  ReceivedAsSent
  HandshakesAgree
  AvailabilityArrives
