SPECIFICATION FairSpec
CONSTANTS
  Byte = {0, 1}
  NumPieces = 2
  PieceLength = 3
  Length = 5
  Content <- MCContent
  BlockLen = 2
  HashForm = "hex"
  Conns <- TwoPeers
  PeerHas <- SecondHasLast
  PeerGains <- NoGains
  Corrupters = {1, 2}
  Closers = {1, 2}
  Reorderers = {}
  WaitMayFail = FALSE
  MaxUnchokes = 1
CHECK_DEADLOCK FALSE
INVARIANTS
  TypeOK VerifiedWrites WrittenOnce CountsDistinctBytes ReadableWhenRead
PROPERTIES
  PeersAreHeard DeadPeersAreDropped
