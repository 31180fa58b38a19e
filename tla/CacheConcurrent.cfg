CONSTANTS
  p1 = p1
  p2 = p2
  k1 = k1
  k2 = k2
  v = v
  w = w
  g = g
  Procs = {p1, p2}
  Keys = {k1, k2}
  Values = {v, w, g}
  Chunks = 2
  CacheSizeMax = 1
  Modulus = 8
  DiskFails = TRUE
  RemoveFails = FALSE
  Nobody = Nobody
  Closed = Closed
  Unlinked = Unlinked
  LruSize = 1
  Format <- Encoding
  KeysOf <- AllKeys
  StoredFor <- SharedKey
  NoImage = NoImage
  Garbled = Garbled
  MaxCalls = 4
  MaxRestarts = 1
  Sharing = {TRUE, FALSE}
  Shared = Shared
SPECIFICATION MCSpec
SYMMETRY SymmetryOfJpegs
INVARIANTS TypeOK GetReturnsStored WritesDoNotMix MemoryCacheIsTransient MutexFollowsSections ExactWhenApart
PROPERTIES FailedGetForgetsApart
CHECK_DEADLOCK FALSE
