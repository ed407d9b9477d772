SPECIFICATION FairSpec
CONSTANTS
  home = home
  page = page
  leaf = leaf
  alone = alone
  here = here
  there = there
  t1 = t1
  t2 = t2
  k1 = k1
  k2 = k2
  Key = {k1}
  Content <- Files
  Url = {home, page, leaf, alone}
  Site = {here, there}
  SiteOf <- Authority
  HomeOf <- Root
  Above <- Ancestor
  Tab = {t1, t2}
  Quota = 3
  InitLibrary <- NoSites
  None = None
  MaxRequests = 2
  MaxFaults = 2
  MaxCrashes = 1
  MaxEdits = 1
  MaxChoices = 2
INVARIANTS
  TypeOK
  QuotaKept
  PreviewIsWhole
PROPERTIES
  AppliedAsSeen
  ProjectionKept
  NothingLost
  ParseSettles
CHECK_DEADLOCK FALSE
