CONSTANTS
  City = {oakland}
  Hash = {h}
  roads = roads
  forecast_roads = forecast_roads
  combined = combined
  census = census
  Part <- MCPart
  Row <- MCRow
  Resource <- MCResource
  ForecastOf <- MCForecastOf
  ResourceJobs <- MCResourceJobs
  MetricJobs <- MCMetricJobs
  Combined = combined
  Proc = {p1, p2}
  CommandNames = {"metric"}
  SlowCommands = FALSE
  Failures = {}
  MaxCommands = 2
  MaxRuns = 2
  MaxSnapshots = 2
SYMMETRY Symmetry
SPECIFICATION CommandsSpec
INVARIANTS NoSnapshotIsEmpty
CHECK_DEADLOCK FALSE
