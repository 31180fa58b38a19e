CONSTANTS
  Procs = {p1, p2}
  Paths = {bPng, cOther}
  Id <- OneId
  Ext <- Extensions
  Sizes = {small}
  Refused = {}
  Configurations <- FullCaching
  OriginFails = TRUE
  Chunks = 2
  LruSize = 2
  CacheSizeMax = 1
  Modulus = 8
  DiskFails = TRUE
  RemoveFails = TRUE
  Nobody = Nobody
  Closed = Closed
  Unlinked = Unlinked
  NoImage = NoImage
  Garbled = Garbled
  MaxRequests = 3
  MaxPurges = 0
  MaxRestarts = 1
  ForEver = ForEver
  p1 = p1
  p2 = p2
  aJpg = aJpg
  bPng = bPng
  cOther = cOther
  small = small
  large = large
  huge = huge
SPECIFICATION MCFairSpec
PROPERTIES EveryRequestIsAnswered
CHECK_DEADLOCK FALSE
