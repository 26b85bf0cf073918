SPECIFICATION FairSpec
CONSTANTS
  Jobs = {j1, j2, j3}
  Processes = {p1, p2}
  Limit = 2
  MaxAttempts = 2
INVARIANTS TypeOK ClaimedOnce TriedOftenEnough StuckOnlyWhenLost DoneOnce
PROPERTIES EveryJobSettles
CHECK_DEADLOCK FALSE
