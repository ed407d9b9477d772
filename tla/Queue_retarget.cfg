SPECIFICATION FairSpec
CONSTANTS
  Site = {s1}
  Caller = {}
  Consumer = {w1}
  Sweeper = {v1}
  Foreign = Foreign
  NoOne = NoOne
  Slots = 2
  PerAccount = 1
  Overflow = 1
  GlobalLimit = 3
  GlobalOverflow = 1
  Elsewhere <- Light
  Batch = 1
  Immediate = 1
  Initial <- Fresh
  MaxRequests = 2
  MaxEvents = 1
PROPERTY SavedIsAnalysed
