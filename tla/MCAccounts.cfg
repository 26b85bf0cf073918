SPECIFICATION AccountsSpec
CONSTANTS
  NULL = NULL
  Requests = {r1, r2, r3, r4}
  Emails = {e1, e2}
  Browsers = {b1, b2}
  TokenTTL = 2
  AccessTTL = 1
  MaxTime = 2
SYMMETRY Symmetry
INVARIANTS AccountsTypeOK SessionNeverLost ClosedForGood SessionsAreOfOneAccount AccessEndsAfterClose ReuseNeedsASlip
CHECK_DEADLOCK FALSE
