SPECIFICATION FairSpec
CONSTANTS
  s1 = s1
  s2 = s2
  s3 = s3
  d1 = d1
  d2 = d2
  i1 = i1
  i2 = i2
  l1 = l1
  NoInstance = NoInstance
  NoSession = NoSession
  Devices = {d1, d2}
  Instances = {i1, i2}
  Session = {s1, s2}
  Lookups = {l1}
  Callers = {s1, s2, l1}
  MaxFaults = 1
INVARIANTS
  LiveSessionIsRegistered
  OfflineAtTheEnd
PROPERTIES
  NoGhostDevice
CHECK_DEADLOCK FALSE
