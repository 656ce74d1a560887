SPECIFICATION Spec
CONSTANTS
  c1 = c1
  c2 = c2
  i1 = i1
  i2 = i2
  m1 = m1
  Created = Created
  Change = Change
  NoInstance = NoInstance
  Clients = {c1, c2}
  Changing = c2
  Messages = {m1}
  Instances = {i1, i2}
  MaxEvents = 2
  MaxDisturbances = 2
  MaxLoad = 3
SYMMETRY MCSymmetry
INVARIANTS
  LiveMemberGetsEvent
  OncePerConsumption
  OutsiderGetsNothing
CHECK_DEADLOCK FALSE
