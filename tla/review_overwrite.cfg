SPECIFICATION Spec
CONSTANTS
  Reviewers = {r1, r2}
  AutoApprove = auto
  Consumer = consumer
  Texts = {original, rules}
  RulesText = rules
  OriginalText = original
  CommandBus = TRUE
  Connections = 2
  MaxRevision = 4
  MaxRequests = 1
  MaxCrashes = 0
  MaxPipeline = 0
SYMMETRY ReviewerSymmetry
PROPERTIES
  NoOverwrite
CHECK_DEADLOCK FALSE
