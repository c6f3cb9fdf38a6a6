SPECIFICATION Spec
CONSTANTS
  Int32 = 10000
  Int64 = 1000000
  Http <- MCHttp
  Udp <- MCUdp
  HashLen = 2
  Made <- MCMade
  Digests <- MCDigests
CHECK_DEADLOCK FALSE
INVARIANTS
  LoadsWhatWasMade TruncatedIsRefused HashesTheFile UrlTakenApart
  TrackerReadsDigest
