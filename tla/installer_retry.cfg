SPECIFICATION Spec
CONSTANTS
  Methods = {"unpack"}
  Versions = {v1, v2}
  Partial = Partial
INVARIANTS
  BootTargetComplete
CHECK_DEADLOCK FALSE
