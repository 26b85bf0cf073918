SPECIFICATION CatalogueSpec
CONSTANTS
  NULL = NULL
  e1 = e1
  e2 = e2
  e3 = e3
  adm = adm
  o1 = o1
  o2 = o2
  Venues = {v1, v2}
  Categories = {c1, c2}
  Events = {e1, e2, e3}
  Shows = {s1, s2}
  Names = {"Premium", "Standard"}
  Premium = "Premium"
  Standard = "Standard"
  Labels = {"A", "B"}
  RowShapes <- Shapes
  MaxRows = 2
  Publications = {p1, p2}
  People = {adm, o1, o2}
  RoleOf <- Roles
  Texts = {"", "text"}
  NoText = ""
  PageSize = 1
  Seeds = {q1, q2}
  DemoUsers <- Demo
  DemoOrganiser = o1
  RowLabels <- Rows
  PremiumRows = 1
  Columns = 1
  DemoEvents = 2
SYMMETRY Symmetry
INVARIANTS SeedTypeOK AnswersStayTrue SeatMapsAreOfTheirVenue OnlyOwnersWrite PatchesKeepTheRest BrowsingMissesNothing SeedingAgainAddsNothing SeededShowsAreWhole CreatedShowsComeWithPrices CreatedSeatMapsNest
PROPERTY SeatMapNeverChanges
CHECK_DEADLOCK FALSE
