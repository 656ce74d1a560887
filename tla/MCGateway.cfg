SPECIFICATION FairGatewaySpec
CONSTANTS
  o1 = o1
  Operations = {o1}
  MaxAttempts = 3
  Limit = 2
INVARIANTS
  SuccessIsApplied
PROPERTY
  EveryRequestAnswered
CHECK_DEADLOCK FALSE
