CONSTANTS
  Trees <- MCTrees
  MaxIncludeDepth = 2
  MinHexEdge = 10
  DefaultEdge = 100
  DefaultMinArea = 7
  DefaultPCI = 70
  Invocations <- MCInvocations
  PavementJobs <- MCPavementJobs
  Optional <- MCOptional
  Towns <- MCTowns
  CellsPerSpace = 2
  Scale = 4
  Cities <- MCCities
  Registry <- MCRegistry
  SpeedByClass <- MCSpeeds
  DefaultSpeed = 30
  PaceUnit = 200
  HexSnap = 1
  FacilitySnap = 2
  MinFacilityComponent = 3
  City = {oakland}
  Hash = {h}
  roads = roads
  forecast_roads = forecast_roads
  combined = combined
  census = census
  Part <- MCPart
  Row <- MCRow
  Resource <- MCResource
  ForecastOf <- MCForecastOf
  ResourceJobs <- MCResourceJobs
  MetricJobs <- MCMetricJobs
  Combined = combined
  Proc = {p1, p2}
  CommandNames = {"compute", "forecast"}
  SlowCommands = TRUE
  Failures = {"crash"}
  MaxCommands = 2
  MaxRuns = 4
  MaxSnapshots = 2
  Networks <- MCNetworks
  Budgets <- MCBudgets
  Years = 4
  Boards <- MCBoards
  Rates <- MCRates
  MaxCalls = 5
SPECIFICATION Spec
INVARIANTS
  IncludedCityReadsItsOwnRows NothingStatedIsLostSilently ExitCodeTellsTheTruth
  SavedRowsAreWhole CityIsChargedForItsOwn SavedCoverageIsTrue
  ManifestsIntact
  DeficitsAddUpToBacklog BreakEvenHoldsSteady PageShowsTheBoard
CHECK_DEADLOCK FALSE
