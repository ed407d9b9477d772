SPECIFICATION Spec
CONSTANTS
  Turn = {t1, t2}
  Payload = {good}
  InvalidPayload = {}
  Conv = {c1}
  Req = {r1, r2}
  Sweeper = sweeper
  Visitors = FALSE
  None = None
  Lease = 1
  Delay = 0
  ClaimTries = 2
  SweepLimit = 1
  TextCap = 1
  MaxText = 0
  MaxTools = 0
  MaxFaults = 0
SYMMETRY Symmetry
INVARIANTS
  ReceiptMatchesTranscript
PROPERTIES
  ImplementsReceipt
CHECK_DEADLOCK FALSE
