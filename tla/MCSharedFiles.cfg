CONSTANTS
  w1 = w1
  w2 = w2
  h1 = h1
  h2 = h2
  h3 = h3
  i1 = i1
  i2 = i2
  q1 = q1
  q2 = q2
  k1 = k1
  k2 = k2
  r1 = r1
  r2 = r2
  j1 = j1
  j2 = j2
  j3 = j3
  p1 = p1
  p2 = p2
  c1 = c1
  c2 = c2
  Nobody = Nobody
  Unset = Unset
  None = None
  Workflows = {w1, w2}
  Handles = {h1, h2, h3}
  Ids = {i1, i2}
  Of <- OfHandle
  MaxFailures = 2
  Configs = {k1, k2}
  Runtimes = {r1, r2}
  Decisions = {1, 2, 3}
  Names = {j1, j2, j3}
  Paths = {p1, p2}
  FirstPath = p1
  Commands = {c1, c2}
  Sites <- Installations
  DayLength = 4
  DecisionHour = 2
  StaleAfter = 2
  Patience = 2
  MaxLag = 1
  LastTime = 6
  Producers = {q1, q2}
  Readers = {r1, r2}
SPECIFICATION SharedSpec
INVARIANTS
  OpenIsOwned
  ReleasedUnbound
  EarlierCounted
  OneSignal
PROPERTIES
  OwnershipPermanent
  ReviewJustified
  RosterGrows
CHECK_DEADLOCK FALSE
