CONSTANTS
  City = {oakland}
  Hash = {h}
  roads = roads
  forecast_roads = forecast_roads
  combined = combined
  census = census
  Part <- MCPart
  Row <- MCRow
  Resource <- MCResource
  ForecastOf <- MCForecastOf
  ResourceJobs <- MCResourceJobs
  MetricJobs <- MCMetricJobs
  Combined = combined
  Proc = {p1, p2}
  CommandNames = {"compute", "metric", "all"}
  SlowCommands = FALSE
  Failures = {}
  MaxCommands = 3
  MaxRuns = 5
  MaxSnapshots = 3
  Client = {c}
  Key = {p1, p2}
  CacheFailures = {"error", "crash", "garbled"}
  MaxVersion = 2
  MaxRequests = 2
  FileSize <- MCFileSize
  AgeCap = TRUE
  SizeCap = 3
  MaxPrunes = 1
SYMMETRY Symmetry
SPECIFICATION Spec
INVARIANTS
  CommandsTypeOK ForecastsMatchComputes LiveDraftsKeepTheirRuns
  NoNewMetaOverOldBody ReportIsHonest PruneMeetsItsCaps
PROPERTIES CommitsKeepOtherParts PublishedSpec
CHECK_DEADLOCK FALSE
