SPECIFICATION FairEventsSpec
CONSTANTS
  p1 = p1
  p2 = p2
  i1 = i1
  i2 = i2
  u1 = u1
  u2 = u2
  w1 = w1
  NoConv = NoConv
  NoKey = NoKey
  Creates = {p1, p2}
  Requests <- MCRequests
  MaxAttempts = 2
  MaxFaults = 1
  Relays = {w1}
  BatchSize = 2
  RelayRetries = 1
  MaxFailures = 2
  MaxChanges = 1
INVARIANTS
  OneConversationPerPair
  AnswersAreStored
  NoEventLost
  EventsInOrder
PROPERTIES
  DirectorySpec
  CreatedIsAnnounced
CHECK_DEADLOCK FALSE
