CONSTANTS
  roads = roads
  facilities = facilities
  overpass = overpass
  arcgis = arcgis
  Roads = roads
  Pavement = {roads}
  Proc = {n1, n2}
  SourcesOf <- MCSourcesOf
  Version = {v1, v2}
  Failing = TRUE
  MaxIngests = 3
  City = {n1, n2}
  Hash = {v1, v2}
  Part = {q1, q2}
  Row = {x}
  MaxRuns = 3
  MaxSnapshots = 2
  c1 = c1
  c2 = c2
  SiteCities <- MCSiteCities
  Unbounded = {c2}
  Current = "current"
  OtherHash = "older"
  Existing <- MCExisting
  KeepCount = 1
  MaxCommits = 1
  MaxExports = 2
  MaxRemovals = 1
  Opener = {o1, o2}
  FileSets <- MCFileSets
  SchemaGeneration = 2
  FoundDatabases <- MCFound
  MaxOpens = 3
SYMMETRY StoreSymmetry
SPECIFICATION Spec
INVARIANTS
  OneFetchPerSource InvertedBoundaryIsNotSilent
  StoreTypeOK ManifestsIntact RowsHaveRuns
  PinnedExportShowsOneSnapshot CheckedSiteLacksOnlyPlay OpenedSchemaIsComplete
PROPERTIES SourcesDownKeepTheirRows PruneSparesTheNewest ForeignDatabaseUntouched
CHECK_DEADLOCK FALSE
