\* A renegotiation: the ChangeCipherSpec overtakes the ClientKeyExchange.
CONSTANTS
  MapBits = 2
  Saturation = 3
  QueueLimit = 5
  MaxEpoch = 2
  LastSeq <- Renegotiation
  ServerRenegotiates = FALSE
  Corrupts = FALSE
SPECIFICATION Spec
INVARIANT EarlyCcsDropped
CHECK_DEADLOCK FALSE
