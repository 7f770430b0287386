SPECIFICATION Spec
CONSTANTS
  User = {"admin", "second"}
  Admin = "admin"
  Token = {1, 2, 3}
  Browser = {b1, b2}
  Request = {1, 2}
  NoUser = NoUser
  NoToken = NoToken
  Limit = 1
  Window = 1
  MaxTime = 2
  MaxRequests = 3
  MaxPasswords = 2
  MaxCrashes = 1
SYMMETRY Symmetry
INVARIANTS
  OneLivePerLogin EndedSessionsStayEnded SessionsLast LoginsBounded
CHECK_DEADLOCK FALSE
