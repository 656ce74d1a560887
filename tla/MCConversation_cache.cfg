SPECIFICATION FairSpec
CONSTANTS
  u1 = u1
  u2 = u2
  u3 = u3
  p1 = p1
  p2 = p2
  p3 = p3
  r1 = r1
  r2 = r2
  NoEntry = NoEntry
  Users = {u1, u2}
  Calls = {p1}
  Readers = {r1, r2}
  MaxRetries = 2
  MaxSequence = 2
  MaxReceipts = 2
PROPERTIES
  MembershipSpec
  CacheEventuallyCurrent
CHECK_DEADLOCK FALSE
