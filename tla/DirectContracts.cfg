SPECIFICATION Spec
CHECK_DEADLOCK FALSE
CONSTANTS
  c1 = c1
  b1 = b1
  s1 = s1
  s2 = s2
  r1 = r1
  p1 = p1
  p2 = p2
  p3 = p3
  x1 = x1
  x2 = x2
  l1 = l1
  u1 = u1
  u2 = u2
  h1 = h1
  w1 = w1
  w2 = w2
  None = None
  Contracts = {c1}
  Suppliers = {u1, u2}
  Hotels = {h1}
  OwnerOf <- MCOwnerOf
  Seasons = {s1, s2}
  Bands = {b1}
  Rates = {r1}
  Policies = {p1, p2, p3}
  Restrictions = {x1, x2}
  Plans = {l1}
  LastDay = 2
  Writers = {w1, w2}
CONSTRAINT OnePart
SYMMETRY Symmetry
INVARIANTS
  Inductive
  CreatedApart
  SeasonsInOrder
  LiveHadSeason
  NothingDangles
  VersionsRunOn
  ChainsEndInForce
PROPERTIES
  NoSeasonAddedLate
  SupersededOnce
