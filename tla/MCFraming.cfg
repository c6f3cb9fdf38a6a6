SPECIFICATION FairSpec
CONSTANTS
  Bits = 3
  Proto <- MCProto
  Reserved = 1
  InfoHash <- MCInfoHash
  PeerId <- MCPeerId
  HandshakeLen = 7
  Chunk = 9
  NumPieces = 5
  Messages <- MCMessages
  Requests <- MCRequests
  MaxSent = 3
CHECK_DEADLOCK FALSE
INVARIANTS
  FramingInv PeerUnderstands
PROPERTIES
  ImplementsStream AllHandled
