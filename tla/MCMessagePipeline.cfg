SPECIFICATION FairPipelineSpec
CONSTANTS
  s1 = s1
  s2 = s2
  d1 = d1
  alice = alice
  c1 = c1
  w1 = w1
  w2 = w2
  NoMessage = NoMessage
  SendCalls = {s1, s2}
  DeleteCalls = {d1}
  Users = {alice}
  Convs = {c1}
  Commands <- MCCommands
  MaxRetries = 1
  Workers = {w1}
  BatchSize = 2
  MaxFailures = 1
  MaxRows = 9
INVARIANTS
  EventsInCausalOrder
PROPERTIES
  RelaySpec
  AcknowledgedIsPublished
