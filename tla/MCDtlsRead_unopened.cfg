\* One handshake: a record of the next epoch is altered.
CONSTANTS
  MapBits = 2
  Saturation = 3
  QueueLimit = 5
  MaxEpoch = 1
  LastSeq <- OneHandshake
  ServerRenegotiates = FALSE
  Corrupts = TRUE
SPECIFICATION Spec
INVARIANT DecodedOnly
CHECK_DEADLOCK FALSE
