SPECIFICATION Spec
CONSTANTS
  MaxSignals = 2
  SparesLogging = TRUE
INVARIANTS
  TypeOK
  StoppedIsQuiet
  JoinReturns
  NeverDeaf
PROPERTIES
  ShutdownEnds
  SubscribesAgain
  NotificationAnswered
  HeartbeatGoesOn
CHECK_DEADLOCK FALSE
