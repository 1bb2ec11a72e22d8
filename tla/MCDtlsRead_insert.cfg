\* One handshake: a record of the next epoch arrives twice.
CONSTANTS
  MapBits = 2
  Saturation = 3
  QueueLimit = 5
  MaxEpoch = 1
  LastSeq <- OneHandshake
  ServerRenegotiates = FALSE
  Corrupts = FALSE
SPECIFICATION Spec
INVARIANT InsertNeverFails
CHECK_DEADLOCK FALSE
