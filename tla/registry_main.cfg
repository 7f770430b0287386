SPECIFICATION Spec
CONSTANTS
  Source = {s1, s2}
  Target = {t1, t2}
  Api = {a}
  TgSource = {s1}
  TgTarget = {t1}
  Request = {r1, r2}
  HasClient = TRUE
  Registrations = {{s1, t1, t2}, {s2, t2}}
  NoTarget = noTarget
  NoApi = noApi
  MaxRequests = 2
  MaxMoves = 1
SYMMETRY Symmetry
INVARIANTS
  WellFormed
  ExactlyWhatWasAsked
  AccessGate
  LegacyAligned
CHECK_DEADLOCK FALSE
