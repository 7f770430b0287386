SPECIFICATION FairSpec
CONSTANTS
  Poison = {2}
  BatchSize = 2
  MaxLen = 3
  MaxEntries = 4
  MaxFaults = 3
INVARIANTS
  NothingLost
  RepeatsAreFaults
PROPERTIES
  AtLeastOnceDelivery
  HandledInOrder
  EveryEntryHandled
CHECK_DEADLOCK FALSE
