CONSTANTS
  Procs = {p1, p2}
  Paths = {aJpg, bPng}
  Id <- OwnIds
  Ext <- Extensions
  Sizes = {small, large, huge}
  Refused = {huge}
  Configurations <- AnyCaching
  OriginFails = FALSE
  Chunks = 1
  LruSize = 1
  CacheSizeMax = 1
  Modulus = 8
  DiskFails = FALSE
  RemoveFails = TRUE
  Nobody = Nobody
  Closed = Closed
  Unlinked = Unlinked
  NoImage = NoImage
  Garbled = Garbled
  MaxRequests = 3
  MaxPurges = 1
  MaxRestarts = 0
  ForEver = ForEver
  p1 = p1
  p2 = p2
  aJpg = aJpg
  bPng = bPng
  cOther = cOther
  small = small
  large = large
  huge = huge
SPECIFICATION MCSpec
SYMMETRY Symmetry
INVARIANTS TypeOK
PROPERTIES ImplementsResizeService
CHECK_DEADLOCK FALSE
