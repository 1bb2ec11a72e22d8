SPECIFICATION Spec
CONSTANTS
  Mode = "client"
  MaxSeq = 3
  MaxPlaintext = 2
  PhhLimit = 100
  AutoRetry = TRUE
  PartialWrite = FALSE
  PeerTypes <- Requests
  MaxData = 4
  MaxRequest = 3
  MaxPeer = 3
CHECK_DEADLOCK FALSE
INVARIANTS TypeOK PeerAccepts DataAccounted ShutdownTruthful
