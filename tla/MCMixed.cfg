CONSTANTS
  City = {oakland}
  Hash = {h}
  roads = roads
  forecast_roads = forecast_roads
  combined = combined
  census = census
  Part <- MCPart
  Row <- MCRow
  Resource <- MCResource
  ForecastOf <- MCForecastOf
  ResourceJobs <- MCResourceJobs
  MetricJobs <- MCMetricJobs
  Combined = combined
  Proc = {p1, p2}
  CommandNames = {"compute", "forecast"}
  SlowCommands = FALSE
  Failures = {}
  MaxCommands = 3
  MaxRuns = 6
  MaxSnapshots = 3
SYMMETRY Symmetry
SPECIFICATION CommandsSpec
INVARIANTS ForecastsReadOneCompute
CHECK_DEADLOCK FALSE
