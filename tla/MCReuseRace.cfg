SPECIFICATION Spec
CONSTANTS
  NULL = NULL
  Requests = {r1, r2, r3, r4}
  TokenTTL = 1
  MaxTime = 2
SYMMETRY Symmetry
INVARIANTS ReuseEndsSession
CHECK_DEADLOCK FALSE
