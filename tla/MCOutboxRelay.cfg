SPECIFICATION FairSpec
CONSTANTS
  w1 = w1
  w2 = w2
  Workers = {w1, w2}
  BatchSize = 2
  MaxRows = 3
  MaxFailures = 2
INVARIANTS
  NothingLostNothingInvented
  DuplicatesOnlyAfterFailure
PROPERTY EveryRowPublished
CHECK_DEADLOCK FALSE
