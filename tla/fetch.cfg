CONSTANTS
  a1 = a1
  a2 = a2
  Addr = {a1, a2}
  MetadataPieceSize = 2
  InfoSize = 3
  PeerMessages <- Chatter
  MaxSessions = 2
  MaxEvents = 1
  MagnetPeers <- OnePeer
  Discoveries <- Tracked
  Remotes <- Reachable
  Honest = {a1}
  UtMetadata <- Ids
SPECIFICATION FetchFairSpec
INVARIANTS
  MissingIsAsked
  FetcherAndTasksAgree
PROPERTIES
  FetchCompletes
