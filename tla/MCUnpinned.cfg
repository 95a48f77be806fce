CONSTANTS
  c1 = c1
  c2 = c2
  SiteCities <- MCSiteCities
  Unbounded = {c2}
  Current = "current"
  OtherHash = "older"
  Existing <- MCExisting
  KeepCount = 1
  MaxCommits = 2
  MaxExports = 2
  MaxRemovals = 1
SPECIFICATION SiteSpec
INVARIANTS ExportShowsOneSnapshot
CHECK_DEADLOCK FALSE
