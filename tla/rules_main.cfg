SPECIFICATION Spec
CONSTANTS
  g1 = g1
  g2 = g2
  m1 = m1
  m2 = m2
  m3 = m3
  Lower <- LowerOf
  WordSymbol = {"a", "A", "b"}
  Link = {"L", "V", "D"}
  Bare = {"D"}
  Invite = {"V"}
  DomainOf <- Domains
  OwnLink = {"@"}
  Mention = {"@", "@b"}
  Short = {"@b"}
  NoEntity = "none"
  BadRegex <- Broken
  Settings <- TheSettings
  Ellipsis <- Dots
  RuleId = {1, 2, 3}
  Group = {g1, g2}
  NoGroup = NoGroup
  Message = {m1, m2, m3}
  Content <- Contents
  Worker = {1, 2}
  Request = {1, 2}
  Payload <- Payloads
  Import <- Imports
  Patch <- Patches
  DefaultRow <- Default
  SeedFile <- Seeds
  InitialRules <- Present
  InitialGroups <- StartGroups
  MaxRequests = 2
  MaxPasses = 2
  MaxStarts = 1
SYMMETRY Alike
INVARIANTS
  WellFormed PatchesSurvive HitsAreCounted EngineKeepsOrder
  LinksAreRemoved DuplicatesOverlapped
CHECK_DEADLOCK FALSE
