CONSTANTS
  Client = {p1, p2}
  Key = {k1}
  CacheFailures = {}
  MaxVersion = 2
  MaxRequests = 2
  FileSize <- MCFileSize
  AgeCap = TRUE
  SizeCap = 3
  MaxPrunes = 0
SYMMETRY CacheSymmetry
SPECIFICATION PruneSpec
INVARIANTS NoNewMetaOverOldBody
CHECK_DEADLOCK FALSE
