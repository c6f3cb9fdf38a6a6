SPECIFICATION Spec
CONSTANTS
  Byte = {0, 1}
  NumPieces = 2
  PieceLength = 3
  Length = 5
  Content <- MCContent
  BlockLen = 2
  HashForm = "hex"
  Conns <- TwoPeers
  PeerHas <- BothHaveAll
  PeerGains <- NoGains
  Corrupters = {}
  Closers = {}
  Reorderers = {}
  WaitMayFail = FALSE
  MaxUnchokes = 1
CHECK_DEADLOCK FALSE
INVARIANT IntactPieceQueued
