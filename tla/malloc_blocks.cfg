\* Two chunks with the real header sizes, three sizes of requests.
CONSTANTS
  Given <- TwoChunks
  Sizes = {1, 13, 40}
  ChHdr = 24
  PtHdr = 4
  SigLen = 4
SPECIFICATION FairSpec
INVARIANTS TypeOK NoFalseAlarm Tiled UsedIsLive
PROPERTIES ImplementsAllocator RefusedOnlyWhenFull MallocReturns
