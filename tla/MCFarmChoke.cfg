SPECIFICATION Spec
CONSTANTS
  Byte = {0, 1}
  NumPieces = 2
  PieceLength = 3
  Length = 5
  Content <- MCContent
  BlockLen = 2
  HashForm = "hex"
  Conns <- TwoPeers
  PeerHas <- SecondHasFirst
  PeerGains <- SecondGainsRest
  Corrupters = {}
  Closers = {1}
  Reorderers = {1}
  WaitMayFail = FALSE
  MaxUnchokes = 2
CHECK_DEADLOCK FALSE
INVARIANTS
  RequestsTile PipelineDepth
