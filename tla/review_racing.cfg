SPECIFICATION Spec
CONSTANTS
  Reviewers = {r1}
  AutoApprove = auto
  Consumer = consumer
  Texts = {rules, edited}
  RulesText = rules
  OriginalText = rules
  CommandBus = FALSE
  Connections = 2
  MaxRevision = 4
  MaxRequests = 1
  MaxCrashes = 1
  MaxPipeline = 1
INVARIANTS
  SentTextLogged OnePublisher
PROPERTIES
  NoClaimAfterPublished
CHECK_DEADLOCK FALSE
