SPECIFICATION AnyQueue
CONSTANTS
  NULL = NULL
  s1 = s1
  s2 = s2
  c1 = c1
  c2 = c2
  h1 = h1
  h2 = h2
  b1 = b1
  b2 = b2
  Seats = {s1}
  Categories = {c1}
  CategoryOf <- LoneSeat
  Users = {u1}
  Requests = {h1, b1, r1}
  HoldTTL = 1
  OfferTTL = 1
  MaxCascade = 2
  Grace = 0
  MaxSeats = 2
  MaxTime = 1
SYMMETRY Symmetry
CHECK_DEADLOCK FALSE
INVARIANTS PositionIsFound
