CONSTANTS
  Procs = {p1}
  Paths = {bPng}
  Id <- OwnIds
  Ext <- Extensions
  Sizes = {small}
  Refused = {}
  Configurations <- FullCaching
  OriginFails = FALSE
  Chunks = 1
  LruSize = 2
  CacheSizeMax = 1
  Modulus = 8
  DiskFails = FALSE
  RemoveFails = FALSE
  Nobody = Nobody
  Closed = Closed
  Unlinked = Unlinked
  NoImage = NoImage
  Garbled = Garbled
  MaxRequests = 3
  MaxPurges = 0
  MaxRestarts = 0
  ForEver = ForEver
  p1 = p1
  p2 = p2
  aJpg = aJpg
  bPng = bPng
  cOther = cOther
  small = small
  large = large
  huge = huge
SPECIFICATION MCSpec
INVARIANTS SupportsPngAndJpg
CHECK_DEADLOCK FALSE
