CONSTANTS
  City = {oakland}
  Hash = {h}
  roads = roads
  forecast_roads = forecast_roads
  combined = combined
  census = census
  Part <- MCAllParts
  Row <- MCRow
  Resource <- MCResource
  ForecastOf <- MCForecastOf
  ResourceJobs <- MCResourceJobs
  MetricJobs <- MCAllMetrics
  Combined = combined
  Proc = {p1}
  CommandNames = {"all","metric"}
  SlowCommands = FALSE
  Failures = {"error", "cancel", "crash"}
  MaxCommands = 2
  MaxRuns = 3
  MaxSnapshots = 2
  c1 = c1
  c2 = c2
  Cities <- MCCities
  Unknown = Unknown
  Boundless = {c2}
  WrongEdge = {}
  Snapshots = {1, 2}
  Removable = {2}
  Matching = {2}
  Pinned = 2
  Wants <- MCWants
  MaxVisits = 3
  MaxFaults = 1
  Worlds <- MCWorlds
  MaxRetries = 1
  MaxSplitDepth = 2
  ArcgisMaxRecords = 2
  ArcgisMaxPages = 5
SPECIFICATION Spec
INVARIANTS
  PublishedPartsComplete NoRunLeaks
  CacheHoldsItsKey NoFailureIsPinned ReturnedIsWhole
PROPERTIES
  CommandsEnd
  EvictionSparesNewerBuilds RequestsAnswered FetchEnds
CHECK_DEADLOCK FALSE
