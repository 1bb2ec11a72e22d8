\* Two handshakes, the second started by either side; queues of two records.
CONSTANTS
  MapBits = 2
  Saturation = 3
  QueueLimit = 2
  MaxEpoch = 2
  LastSeq <- TwoHandshakes
  ServerRenegotiates = TRUE
  Corrupts = TRUE
SPECIFICATION Spec
INVARIANTS
  TypeOK
  WindowExact
  Accounted
  QueueEpochs
  AppDataAfterFinished
PROPERTY NoReplay
CHECK_DEADLOCK FALSE
