SPECIFICATION FairSpec
CONSTANTS
  v1 = v1
  v2 = v2
  m1 = m1
  m2 = m2
  wrongModel = wrongModel
  None = None
  t1 = t1
  t2 = t2
  t3 = t3
  Threads = {t1, t2, t3}
  Versions <- MCVersions
  Notifications <- MCNotifications
  VersionOf <- MCVersionOf
  Compatible <- MCCompatible
  Edges <- CodeEdges
  SimulationMode = FALSE
  AvoidWindows = FALSE
INVARIANTS
  TypeOK
  NoStuckState
  QuiescentClean
PROPERTIES
  FreesItself
