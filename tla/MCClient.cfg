SPECIFICATION ClientFairSpec
CONSTANTS
  Byte = {0, 1}
  NumPieces = 2
  PieceLength = 3
  Length = 5
  Content <- MCContent
  BlockLen = 2
  HashForm = "hex"
  Conns <- OnePeer
  PeerHas <- HasAll
  PeerGains <- NoGains
  Corrupters = {}
  Closers = {1}
  Reorderers = {}
  WaitMayFail = TRUE
  MaxUnchokes = 1
  DirectWrite = 3
CHECK_DEADLOCK FALSE
INVARIANTS
  DiskHoldsWritten ExitHoldsAll SpeedConserves ShownCoversSamples
  NeverOverTotal
PROPERTIES
  ImplementsDownload EveryPieceHandled ProgramEnds
