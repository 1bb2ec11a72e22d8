\* Data that overtakes the Finished message is delivered once it arrives.
CONSTANTS
  MapBits = 4
  Saturation = 5
  QueueLimit = 5
  MaxEpoch = 1
  LastSeq <- OneHandshake
  ServerRenegotiates = FALSE
  Corrupts = FALSE
SPECIFICATION LiveSpec
INVARIANT EarlyCcsDropped
PROPERTY AppDataDelivered
CHECK_DEADLOCK FALSE
