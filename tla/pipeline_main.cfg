SPECIFICATION FairSpec
CONSTANTS
  Messages = {1}
  Targets = {t1}
  NoMessage = noMessage
  NoTarget = noTarget
  Durable = TRUE
  ApiSource = FALSE
  HasEndpoint = TRUE
  Others = {}
  QueueSize = 1
  MaxRetries = 2
  MaxArrivals = 1
  MaxChanges = 1
  MaxCommands = 1
  MaxFaults = 1
INVARIANTS
  NothingForgotten
  PublishedWasDelivered
PROPERTIES
  StreamDrains
CHECK_DEADLOCK FALSE
