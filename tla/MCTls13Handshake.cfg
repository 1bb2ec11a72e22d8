CONSTANTS
  Configs <- MCConfigs
  CertificateRecords = 2
SPECIFICATION Spec
INVARIANTS
  TypeOK
  FailsForCause
  SameHandshake
  TranscriptIsRow
  CcsAfterFirst
  PeerProven
  VersionAgreed
PROPERTIES
  Terminates
CHECK_DEADLOCK FALSE
