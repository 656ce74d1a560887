SPECIFICATION FairSpec
CONSTANTS
  a1 = a1
  a2 = a2
  p1 = p1
  p2 = p2
  e1 = e1
  e2 = e2
  w1 = w1
  w2 = w2
  FirstUser = FirstUser
  FirstToken = FirstToken
  None = None
  NoProfile = NoProfile
  NoValue = NoValue
  AuthCalls = {a1, a2}
  Emails = {e1, e2}
  Passwords = {w1, w2}
  ProfileCalls = {p1, p2}
  Owners <- MCOwners
  Relations <- MCRelations
  MaxFailures = 1
  MaxCalls = 2
INVARIANTS
  DeadTokenStaysDead
  ProfileHasUser
  NoRegistrationLost
  AnsweredIsKept
PROPERTIES
  RegisteredGetsProfile
  AnsweredIsSent
CHECK_DEADLOCK FALSE
