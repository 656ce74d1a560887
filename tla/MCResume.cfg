SPECIFICATION FairSpec
CONSTANTS
  c1 = c1
  Receipt = Receipt
  PresenceUpdate = PresenceUpdate
  Clients = {c1}
  Careful = {c1}
  MaxMessage = 4
  OtherEvents = {Receipt}
  QueueSize = 1
  PageSize = 2
  MaxDisturbances = 1
INVARIANTS
  NoGap
PROPERTIES
  CaughtUp
CHECK_DEADLOCK FALSE
