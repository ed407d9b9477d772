SPECIFICATION FairSpec
CONSTANTS
  Turn = {t1}
  Payload = {good}
  InvalidPayload = {}
  Conv = {c1}
  Req = {r1}
  Sweeper = sweeper
  Visitors = TRUE
  None = None
  Lease = 2
  Delay = 1
  ClaimTries = 1
  SweepLimit = 1
  TextCap = 2
  MaxText = 3
  MaxTools = 1
  MaxFaults = 1
INVARIANTS
  ShownIsDurable
  CompleteIsWhole
  JournalInSync
PROPERTIES
  EveryTurnSettles
  ContentUnderLease
CHECK_DEADLOCK FALSE
