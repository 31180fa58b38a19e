CONSTANTS
  p1 = p1
  p2 = p2
  k1 = k1
  k2 = k2
  v = v
  w = w
  g = g
  Procs = {p1}
  Keys = {k1, k2}
  Values = {v, g}
  Chunks = 2
  CacheSizeMax = 2
  Modulus = 8
  DiskFails = FALSE
  RemoveFails = FALSE
  Nobody = Nobody
  Closed = Closed
  Unlinked = Unlinked
  LruSize = 2
  Format <- Encoding
  KeysOf <- AllKeys
  StoredFor <- OneOfEach
  NoImage = NoImage
  Garbled = Garbled
  MaxCalls = 3
  MaxRestarts = 0
  Sharing = {TRUE}
  Shared = Shared
SPECIFICATION MCSpec
PROPERTIES SetReachesDisk
CHECK_DEADLOCK FALSE
