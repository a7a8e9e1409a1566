SPECIFICATION Spec
CONSTANTS
  u1 = u1
  u2 = u2
  k1 = k1
  k2 = k2
  s1 = s1
  User = {u1, u2}
  Token = {k1, k2}
  Session = {s1}
  MaxRequests = 4
  MaxCrashes = 1
  NoUser = NoUser
  NoToken = NoToken
INVARIANTS OneValidToken AnsweredIsCommitted
PROPERTIES ImplementsLedger ActsForTokenOwner LoginsAnswered
CHECK_DEADLOCK FALSE
