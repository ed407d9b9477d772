SPECIFICATION Spec
CONSTANTS
  w1 = w1
  w2 = w2
  w3 = w3
  w4 = w4
  home = home
  other = other
  later = later
  red = red
  blue = blue
  p1 = p1
  p2 = p2
  p3 = p3
  join = join
  make = make
  late = late
  k1 = k1
  k2 = k2
  t1 = t1
  t2 = t2
  None = None
  Site = {w1, w2, w3, w4}
  Category = {home, other, later}
  Tag = {red, blue}
  Space = {p1, p2, p3}
  Op = {join, make, late}
  Tab = {t1, t2}
  Key = {k1, k2}
  Default = home
  Order <- MCOrder
  Plan <- MCPlan
  FirstSites <- MCSites
  FirstSpaces <- MCSpaces
  FirstLabels <- MCLabels
  Proposed <- MCProposed
  MaxRequests = 3
  MaxBulk = 2
  MaxTags = 1
SYMMETRY Tabs
CHECK_DEADLOCK FALSE
PROPERTIES
  TextsDecidedOnCurrent
