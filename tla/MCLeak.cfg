CONSTANTS
  City = {oakland}
  Hash = {h}
  roads = roads
  forecast_roads = forecast_roads
  combined = combined
  census = census
  Part <- MCPart
  Row <- MCRow
  Resource <- MCResource
  ForecastOf <- MCForecastOf
  ResourceJobs <- MCResourceJobs
  MetricJobs <- MCMetricJobs
  Combined = combined
  Proc = {p1}
  CommandNames = {"metric"}
  SlowCommands = FALSE
  Failures = {"cancel"}
  MaxCommands = 1
  MaxRuns = 2
  MaxSnapshots = 2
SPECIFICATION CommandsSpec
INVARIANTS CommandsDiscardTheirRuns
CHECK_DEADLOCK FALSE
