SPECIFICATION LiveSpec
CONSTANTS
  Mode = "client"
  MaxSeq = 3
  MaxPlaintext = 2
  PhhLimit = 1
  AutoRetry = FALSE
  PartialWrite = TRUE
  PeerTypes <- NoRequests
  MaxData = 1
  MaxRequest = 1
  MaxPeer = 3
CHECK_DEADLOCK FALSE
INVARIANTS PeerRecordsOpen OwnKeys EofMeansClosed
PROPERTY ShutdownCompletes
