SPECIFICATION Spec
CONSTANTS
  Turn = {t1}
  Payload = {good, bad}
  InvalidPayload = {bad}
  Conv = {c1}
  Req = {r1, r2}
  Sweeper = sweeper
  Visitors = TRUE
  None = None
  Lease = 1
  Delay = 0
  ClaimTries = 2
  SweepLimit = 1
  TextCap = 1
  MaxText = 0
  MaxTools = 0
  MaxFaults = 1
SYMMETRY Symmetry
INVARIANTS
  TypeOK
  AtMostOneExecution
  NoOrphanTranscript
  ToldIsTrue
PROPERTIES
  TerminalIsFinal
CHECK_DEADLOCK FALSE
