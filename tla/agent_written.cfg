SPECIFICATION Spec
CONSTANTS
  v1 = v1
  v2 = v2
  m1 = m1
  m2 = m2
  wrongModel = wrongModel
  None = None
  t1 = t1
  Threads = {t1}
  Versions <- MCVersions
  Notifications <- GoodNotifications
  VersionOf <- GoodVersionOf
  Compatible <- GoodNotifications
  Edges <- CodeEdges
  SimulationMode = FALSE
  AvoidWindows = FALSE
PROPERTIES
  WrittenIsInstalled
