SPECIFICATION Spec
CONSTANTS
  u1 = u1
  u2 = u2
  u3 = u3
  p1 = p1
  p2 = p2
  p3 = p3
  r1 = r1
  r2 = r2
  NoEntry = NoEntry
  Users = {u1, u2, u3}
  Calls = {p1, p2, p3}
  Readers = {}
  MaxRetries = 1
  MaxSequence = 0
  MaxReceipts = 0
SYMMETRY MCSymmetry
INVARIANTS
  MembershipInvariants
  EventsReplayMembership
PROPERTIES
  MembershipSpec
CHECK_DEADLOCK FALSE
