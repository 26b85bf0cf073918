SPECIFICATION TwoBookings
CONSTANTS
  NULL = NULL
  s1 = s1
  s2 = s2
  c1 = c1
  c2 = c2
  h1 = h1
  h2 = h2
  b1 = b1
  b2 = b2
  Seats = {s1, s2}
  Categories = {c1}
  CategoryOf <- OneCategory
  Users = {u1, u2}
  Requests = {h1, h2, b1, b2, r1, r2, r3}
  HoldTTL = 1
  OfferTTL = 1
  MaxCascade = 2
  Grace = 0
  MaxSeats = 2
  MaxTime = 1
SYMMETRY Symmetry
INVARIANTS OfferedOnce
CHECK_DEADLOCK FALSE
