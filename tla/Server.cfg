CONSTANTS
  Procs = {p1, p2}
  Keys <- MCKeys
  Awkward <- MCAwkward
  Nobody = Nobody
  Unparsable = {"100%"}
  BlockSize = 2
  Pointers = {r1, r2}
  Paths <- MCPaths
  Methods = {"GET", "POST"}
  RefusedSizes <- MCRefused
  OriginalKey <- MCOriginal
  ThumbnailKey <- MCThumbnail
  NoPointer = NoPointer
  MaxRequests = 2
  MaxSegments = 3
SPECIFICATION MCSpec
INVARIANTS ServerTypeOK DirectoriesServeFiles WalkReportsWhatWasThere CountersNeverOvercount ContextFollowsRequests RedirectsOnce 
PROPERTIES EveryRequestEnds
CHECK_DEADLOCK FALSE
