SPECIFICATION Spec
CONSTANTS
  Methods = {"unpack", "stream"}
  Versions = {v1, v2}
  Partial = Partial
INVARIANTS
  TypeOK
  RunningUntouched
  SwitchDurable
  LostOnlyByTornFile
PROPERTIES
  CommitAfterImage
CHECK_DEADLOCK FALSE
