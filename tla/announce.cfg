CONSTANTS
  a1 = a1
  a2 = a2
  InitialBackoff = 15
  MaxBackoff = 50
  MinInterval = 60
  MaxInterval = 90
  Replies <- HttpReplies
  Datagrams <- UdpReplies
  MaxFound = 2
SPECIFICATION TrackerFairSpec
INVARIANT
  WaitsBounded
PROPERTY
  CompletionIsAnnounced
