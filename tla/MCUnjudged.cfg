CONSTANTS
  roads = roads
  facilities = facilities
  overpass = overpass
  arcgis = arcgis
  Roads = roads
  Pavement = {roads}
  Proc = {p1}
  SourcesOf <- MCRoadSources
  Version = {v1}
  Failing = TRUE
  MaxIngests = 2
SPECIFICATION IngestSpec
PROPERTIES IngestedBoundaryHoldsRoads
CHECK_DEADLOCK FALSE
