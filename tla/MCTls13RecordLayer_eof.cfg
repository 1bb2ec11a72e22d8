SPECIFICATION Spec
CONSTANTS
  Mode = "client"
  MaxSeq = 3
  MaxPlaintext = 2
  PhhLimit = 100
  AutoRetry = TRUE
  PartialWrite = FALSE
  PeerTypes <- Ordinary
  MaxData = 1
  MaxRequest = 1
  MaxPeer = 2
CHECK_DEADLOCK FALSE
INVARIANT EofMeansClosed
