SPECIFICATION FairSpec
CONSTANTS
  Site = {s1}
  Caller = {c1}
  Consumer = {w1}
  Sweeper = {v1, v2}
  Foreign = Foreign
  NoOne = NoOne
  Slots = 2
  PerAccount = 1
  Overflow = 1
  GlobalLimit = 3
  GlobalOverflow = 1
  Elsewhere <- Loads
  Batch = 1
  Immediate = 1
  Initial <- Later
  MaxRequests = 2
  MaxEvents = 1
INVARIANTS
  TypeOK
  NoDoubleFetch
  QueueAgrees
  NoLostEnrichment
PROPERTIES
  ForegroundWins
  AnswerIsEnrichment
  AnsweredWhileUp
  AnnouncedIsSwept
