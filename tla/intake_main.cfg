SPECIFICATION FairSpec
CONSTANTS
  tg = tg
  safew = safew
  m1 = m1
  m3 = m3
  Incoming = incoming
  Source = {tg, safew}
  TgSource = {tg}
  Message = {m1, m3}
  SourceOf <- PostedIn
  Task = {incoming, worker}
  MaxEdits = 2
  MaxFaults = 1
INVARIANTS
  QuietIntakeIsExact
PROPERTIES
  SubscriptionFollows
  TakenIsConcluded
CHECK_DEADLOCK FALSE
