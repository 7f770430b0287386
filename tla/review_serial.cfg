SPECIFICATION FairSpec
CONSTANTS
  Reviewers = {r1}
  AutoApprove = auto
  Consumer = consumer
  Texts = {original, rules}
  RulesText = rules
  OriginalText = original
  CommandBus = TRUE
  Connections = 1
  MaxRevision = 5
  MaxRequests = 2
  MaxCrashes = 1
  MaxPipeline = 1
INVARIANTS
  PublishesWhatWasAsked
PROPERTIES
  DecidedOnce
  CommandsAcknowledged
CHECK_DEADLOCK FALSE
