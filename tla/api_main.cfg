SPECIFICATION FairSpec
CONSTANTS
  Writers = {w1, w2}
  Endpoints = {1, 2}
  Messages = {m1, m2}
  NoMessage = noMessage
  Limit = 1
  MaxPublications = 2
  MaxChanges = 1
  MaxFaults = 1
INVARIANTS
  DeliveredHasRow
  OnlyOvertakenSkipped
PROPERTIES
  EveryRowReceived
CHECK_DEADLOCK FALSE
