SPECIFICATION FairSpec
CONSTANTS
  Requests = {r1, r2}
  Contents = {a, b}
  NoRequest = noRequest
  NoContent = noContent
  MaxFaults = 2
INVARIANTS
  AcceptedWasEnqueued
  RepeatsAreFaults
PROPERTIES
  ReceiptQueued
CHECK_DEADLOCK FALSE
