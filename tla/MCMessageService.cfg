SPECIFICATION FairSpec
CONSTANTS
  s1 = s1
  s2 = s2
  d1 = d1
  d2 = d2
  alice = alice
  bob = bob
  c1 = c1
  NoMessage = NoMessage
  SendCalls = {s1, s2}
  DeleteCalls = {d1, d2}
  Users = {alice, bob}
  Convs = {c1}
  Commands <- MCCommands
  MaxRetries = 1
INVARIANTS
  OneMessagePerCommand
  RepliesAgree
  SentEventPerMessage
  DeleteEventAfterSent
PROPERTIES
  LogSpec
  EveryCallAnswered
