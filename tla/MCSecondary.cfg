SPECIFICATION CoverageSpec
CONSTANTS
 Towns <- MCTowns
 CellsPerSpace = 2
 Scale = 4
INVARIANTS CityAgenciesKeepTheirRoads
CHECK_DEADLOCK FALSE
