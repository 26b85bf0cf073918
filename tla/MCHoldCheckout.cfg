SPECIFICATION Spec
CONSTANTS
  NULL = NULL
  s1 = s1
  s2 = s2
  c1 = c1
  c2 = c2
  h1 = h1
  h2 = h2
  b1 = b1
  b2 = b2
  Seats = {s1, s2}
  Categories = {c1}
  CategoryOf <- OneCategory
  Users = {u1}
  Requests = {r1, r2, r3, r4}
  HoldTTL = 1
  OfferTTL = 1
  MaxCascade = 2
  Grace = 0
  MaxSeats = 2
  MaxTime = 2
SYMMETRY Symmetry
INVARIANTS TypeOK PaidSeatsAreOccupied LiveHoldKeepsSeats HoldSpentOnce HeldRowsHaveTheirHold
PROPERTIES SeatsMoveLegally ImplementsSeatSale
CHECK_DEADLOCK FALSE
