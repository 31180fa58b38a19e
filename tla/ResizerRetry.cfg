CONSTANTS
  Procs = {p1}
  Paths = {aJpg, bPng}
  Id <- OwnIds
  Ext <- Extensions
  Sizes = {small, large}
  Refused = {}
  Configurations <- AnyCaching
  OriginFails = FALSE
  Chunks = 1
  LruSize = 2
  CacheSizeMax = 1
  Modulus = 8
  DiskFails = FALSE
  RemoveFails = FALSE
  Nobody = Nobody
  Closed = Closed
  Unlinked = Unlinked
  NoImage = NoImage
  Garbled = Garbled
  MaxRequests = ForEver
  MaxPurges = 1
  MaxRestarts = 1
  ForEver = ForEver
  p1 = p1
  p2 = p2
  aJpg = aJpg
  bPng = bPng
  cOther = cOther
  small = small
  large = large
  huge = huge
SPECIFICATION MCPersistentSpec
INVARIANTS OriginalsNeverPanic
PROPERTIES RetryHeals
CHECK_DEADLOCK FALSE
