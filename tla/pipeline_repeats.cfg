SPECIFICATION Spec
CONSTANTS
  Messages = {1}
  Targets = {t1, t2}
  NoMessage = noMessage
  NoTarget = noTarget
  Durable = FALSE
  ApiSource = TRUE
  HasEndpoint = FALSE
  Others = {o}
  QueueSize = 2
  MaxRetries = 1
  MaxArrivals = 2
  MaxChanges = 1
  MaxCommands = 1
  MaxFaults = 1
PROPERTIES
  NoResend
  ApiDecisionsStand
  NoSendToUnbound
SYMMETRY TargetSymmetry
CHECK_DEADLOCK FALSE
