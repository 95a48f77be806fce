-------------------------- MODULE PavementCoverage --------------------------
(* `pvmt <resource> compute` and the combined pass of `all compute`: the     *)
(* area a resource covers, per hex, per scope and per road class, and the    *)
(* game's board made of the same streets.  pkg/cmd/compute, internal/geo,    *)
(* internal/resource, internal/export/playhex.go.                            *)
(*                                                                           *)
(* The plane is made of unit cells <<x, y>>, an area is the number of its    *)
(* cells, and square blocks of edge x edge cells stand for the hexes.  Every *)
(* pass over hexes or features runs in parallel and, once the command is     *)
(* cancelled, returns without an error what it has got so far.               *)
EXTENDS Jurisdiction, Integers, FiniteSets, FiniteSetsExt

CONSTANTS Towns,         \* [features, boundary, edge, minArea], see the MC module
          CellsPerSpace, \* ParkingSpaceAreaM2
          Scale          \* fractions are counted in 1/Scale, see MCPavement

\* The program's resources; "combined" is all of them.
Resources == {"roads", "parking", "sidewalks"}

\* A stored boundary holds something, and whole shares of every lot are counted.
ASSUME CoverageAssumption ==
  /\ CellsPerSpace \in Nat \ {0} /\ Scale \in Nat \ {0}
  /\ \A t \in Towns :
       /\ t.resource \in Resources \cup {"combined"} /\ t.edge \in Nat \ {0}
       /\ \A rt \in Resources : IsFiniteSet(t.features[rt])
       /\ t.boundary.cells \subseteq Int \X Int /\ IsFiniteSet(t.boundary.cells)
       /\ t.boundary.stored => t.boundary.cells # {}
       /\ \A f \in t.features["parking"] :
            /\ f.tags.capacity \in Int /\ f.tags.levels \in Nat /\ IsFiniteSet(f.geom.cells)
            /\ f.geom.cells # {} => Scale % Cardinality(f.geom.cells) = 0

VARIABLES town,   \* the inputs
          live,   \* the command has not been cancelled
          pass,   \* how far it is, and the slices it has in memory
          table,  \* the rows it has saved under its run
          play    \* the game's board, once it has been asked for

coverageVars == <<town, live, pass, table, play>>

-----------------------------------------------------------------------------
\* Footprints.  A geometry is [type, lines, cells]: the polylines of a line
\* type, the cells of a polygon.  A width is in cells on either side.
Unstated == -1
Infinite == -2
DefaultWidths == [motorway |-> 1, trunk |-> 1, secondary |-> 0, residential |-> 0, service |-> 0]
InferWidth(tags) ==
  CASE tags.width # Unstated -> tags.width
    [] tags.width = Unstated /\ tags.lanes # Unstated ->
         IF tags.lanes = Infinite THEN Infinite ELSE (tags.lanes - 1) \div 2 + tags.parking
    [] OTHER -> IF tags.highway \in DOMAIN DefaultWidths
                THEN DefaultWidths[tags.highway] + tags.parking ELSE 0
InferSidewalkWidth(tags) ==
  CASE tags.width # Unstated -> tags.width
    [] tags.width = Unstated /\ tags.highway = "pedestrian" -> 1
    [] OTHER -> 0
WidthOf(rt, tags) == IF rt = "sidewalks" THEN InferSidewalkWidth(tags) ELSE InferWidth(tags)

\* A corridor with flat ends, of a polyline along the axes.
Corridor(a, b, width) ==
  LET wide == IF a[1] = b[1] THEN width ELSE 0
      tall == IF a[1] = b[1] THEN 0 ELSE width
  IN ((Min({a[1], b[1]}) - wide)..(Max({a[1], b[1]}) + wide))
       \X ((Min({a[2], b[2]}) - tall)..(Max({a[2], b[2]}) + tall))
BufferLineString(line, width) ==
  IF width = Infinite THEN {}
  ELSE UNION {Corridor(line[i], line[i + 1], width) : i \in 1..Len(line) - 1}
Footprint(rt, f) ==
  CASE rt # "parking" /\ f.geom.type \in {"LineString", "MultiLineString"}
         -> UNION {BufferLineString(line, WidthOf(rt, f.tags)) : line \in f.geom.lines}
    [] f.geom.type \in {"Polygon", "MultiPolygon"} -> f.geom.cells
    [] OTHER -> {}
\* A feature that cannot be parsed or buffered is dropped; a polygon stays,
\* also when nothing is left of it once it is cleaned.
Survives(rt, f) == f.geom.type \in {"Polygon", "MultiPolygon"} \/ Footprint(rt, f) # {}
Buffered(rt) ==
  {[tags |-> f.tags, id |-> f.id, rt |-> rt, cells |-> Footprint(rt, f)] :
     f \in {f \in town.features[rt] : Survives(rt, f)}}

-----------------------------------------------------------------------------
\* The grid, clipped to the boundary when there is one to clip it to.
Columns(axis) == {cell[axis] \div town.edge : cell \in town.boundary.cells}
Span(n) == (n * town.edge)..(n * town.edge + town.edge - 1)
Block(col, row) == Span(col) \X Span(row)
HexGrid ==
  {[id |-> <<col, row>>, cells |-> Block(col, row)] :
     col \in Min(Columns(1))..Max(Columns(1)), row \in Min(Columns(2))..Max(Columns(2))}
Clippable == town.boundary.parses
ClipHexesToBoundary ==
  {h \in {[id |-> h.id, cells |-> h.cells \cap town.boundary.cells] : h \in HexGrid} :
     h.cells # {}}
ClippedGrid == IF Clippable THEN ClipHexesToBoundary ELSE HexGrid

\* Fault: the fragments are added up.
FragmentsAdded(h, fs) ==
  SumFunction([f \in fs |-> Cardinality(h.cells \cap f.cells)])

\* Overlaps within a hex count once: the clipped fragments are unioned.
HexCoverageArea(h, fs) == Cardinality(h.cells \cap UNION {f.cells : f \in fs})
ComputeHexStats(hexes, fs) ==
  {[id |-> h.id, area |-> HexCoverageArea(h, fs), spaces |-> 0] :
     h \in {h \in hexes : HexCoverageArea(h, fs) > 0}}

\* Parking: what a lot holds, split over the hexes by the share of its area.
EstimateParkingSpaces(f) ==
  IF f.tags.capacity > 0 THEN f.tags.capacity
  ELSE (Cardinality(f.cells) \div CellsPerSpace) * f.tags.levels
ShareOf(f, cells) ==
  IF f.cells = {} THEN 0
  ELSE (EstimateParkingSpaces(f) * Scale * Cardinality(cells)) \div Cardinality(f.cells)
WeightedShare(h, fs) == SumFunction([f \in fs |-> ShareOf(f, h.cells \cap f.cells)])
MergeSpaces(stats, hexes, fs) ==
  {[s EXCEPT !.spaces = SumFunction([h \in {h \in hexes : h.id = s.id} |-> WeightedShare(h, fs)])]
     : s \in stats}

\* Road classes: their areas overlap where streets cross, so they are scaled
\* down to the total, as fractions of it.
NormalizeClass(highway) ==
  CASE highway \in {"motorway", "motorway_link"} -> "motorway"
    [] highway \in {"trunk", "trunk_link"} -> "trunk"
    [] highway \in {"secondary", "service"} -> highway
    [] OTHER -> "residential"
OfClass(fs, class) == {f \in fs : NormalizeClass(f.tags.highway) = class}
Sum(stats) == SumFunction([s \in stats |-> s.area])
CohortAreas(hexes, fs) ==
  {[class |-> class, raw |-> Sum(ComputeHexStats(hexes, OfClass(fs, class)))] :
     class \in {NormalizeClass(f.tags.highway) : f \in fs}}
CohortStats(rt, total, hexes, fs) ==
  LET raw == CohortAreas(hexes, fs)
      rawTotal == SumFunction([c \in raw |-> c.raw])
  IN IF rt # "roads" THEN {[class |-> rt, area |-> total, of |-> 1, features |-> Cardinality(fs)]}
     ELSE {[class |-> c.class, area |-> total * c.raw, of |-> rawTotal,
            features |-> Cardinality(OfClass(fs, c.class))] : c \in raw}

-----------------------------------------------------------------------------
\* The command.
CoverageInit ==
  /\ town \in Towns
  /\ live = TRUE
  /\ pass = [pc |-> "load", scope |-> "all", rt |-> town.resource, buffered |-> {}, grid |-> {},
             stats |-> [all |-> {}, city |-> {}]]
  /\ table = {} /\ play = {}

\* What follows a pass over the grid or a save, of one scope: for one resource,
\* and in the combined pass.
Following ==
  IF pass.rt = "combined"
  THEN [all  |-> [stats |-> <<"all", "result">>, result |-> <<"city", "stats">>],
        city |-> [stats |-> <<"city", "result">>, result |-> <<"all", "commit">>]]
  ELSE [all  |-> [stats |-> <<"all", "result">>, result |-> <<"all", "cohorts">>,
                  cohorts |-> <<"city", "stats">>, hexes |-> <<"all", "spaces">>,
                  spaces |-> <<"all", "commit">>],
        city |-> [stats |-> <<"city", "hexes">>, hexes |-> <<"city", "spaces">>,
                  spaces |-> <<"city", "result">>, result |-> <<"city", "cohorts">>,
                  cohorts |-> <<"all", "hexes">>]]
Due(pc, scope) == pass.pc = pc /\ pass.scope = scope
Advanced(pc, scope) == [pass EXCEPT !.pc = Following[scope][pc][2], !.scope = Following[scope][pc][1]]
Goto(pc) == pass' = [pass EXCEPT !.pc = pc]
FailCompute == Goto("failed") /\ table' = {}
\* Nothing to compute: the part goes out of the snapshot, if that commits.
PartDropped == Goto(IF live THEN "empty" ELSE "failed") /\ UNCHANGED table
Ended == pass.pc \in {"failed", "empty", "published"}

\* SIGINT, at any moment.
CancelCompute == live /\ ~Ended /\ live' = FALSE /\ UNCHANGED <<town, pass, table, play>>

\* What ParallelMap returns of the results it is to compute.
ParallelMap(results) == IF live THEN {results} ELSE SUBSET results

\* The combined pass buffers every resource, one that yields nothing is left out.
Sources == IF pass.rt = "combined" THEN Resources ELSE {pass.rt}
LoadFeatures ==
  /\ pass.pc = "load"
  /\ CASE ~town.boundary.stored -> FailCompute
       [] town.boundary.stored /\ \A rt \in Sources : town.features[rt] = {}
            -> PartDropped
       [] OTHER -> Goto("buffer") /\ UNCHANGED table
  /\ UNCHANGED <<town, live, play>>
BufferFeatures ==
  /\ pass.pc = "buffer"
  /\ \E kept \in ParallelMap(UNION {Buffered(rt) : rt \in Sources}) :
       CASE pass.rt # "combined" /\ (~live \/ kept = {}) -> FailCompute
         [] pass.rt = "combined" /\ kept = {} -> PartDropped
         [] OTHER -> /\ pass' = [pass EXCEPT !.pc = "grid", !.buffered = kept]
                     /\ UNCHANGED table
  /\ UNCHANGED <<town, live, play>>
BuildGrid ==
  /\ pass.pc = "grid"
  /\ \E hexes \in IF Clippable THEN ParallelMap(ClippedGrid) ELSE {ClippedGrid} :
       pass' = [pass EXCEPT !.pc = "stats", !.grid = hexes]
  /\ UNCHANGED <<town, live, table, play>>

\* One scope's pass over the grid.  What is left of it when the command was
\* cancelled is never saved.
InScope(scope, fs) ==
  {f \in fs : scope = "all" \/ ClassifyJurisdiction(f.tags) = "city"}
CityBuffered == InScope("city", pass.buffered)
HexPass(scope) ==
  /\ Due("stats", scope)
  /\ LET fs == InScope(scope, pass.buffered)
     IN IF scope = "city" /\ fs = {}
        THEN /\ pass' = [pass EXCEPT !.pc = IF pass.rt = "combined" THEN "commit" ELSE "hexes",
                                     !.scope = "all"]
             /\ UNCHANGED table
        ELSE \E done \in ParallelMap(pass.grid), shared \in ParallelMap(pass.grid) :
               LET stats == ComputeHexStats(done, fs)
               IN IF ~live THEN FailCompute
                  ELSE /\ pass' = [Advanced("stats", scope) EXCEPT
                                     !.stats[scope] = IF pass.rt # "parking" THEN stats
                                                      ELSE MergeSpaces(stats, shared, fs)]
                       /\ UNCHANGED table
  /\ UNCHANGED <<town, live, play>>

\* The database refuses a command that was cancelled.
SaveRows(pc, scope, rows) ==
  /\ Due(pc, scope)
  /\ IF live THEN table' = table \cup rows /\ pass' = Advanced(pc, scope) ELSE FailCompute
  /\ UNCHANGED <<town, live, play>>
\* FeatureCount is that of the inputs, the ones dropped by the buffer included.
InputCount(scope) ==
  SumFunction([rt \in Sources |-> IF pass.rt = "combined" /\ {f \in pass.buffered : f.rt = rt} = {} THEN 0
                                  ELSE Cardinality(InScope(scope, town.features[rt]))])
SaveResult(scope) ==
  SaveRows("result", scope,
       {[kind |-> "result", scope |-> scope, area |-> Sum(pass.stats[scope]),
         features |-> InputCount(scope),
         spaces |-> (SumFunction([s \in pass.stats[scope] |-> s.spaces]) + Scale \div 2) \div Scale]})
SaveCohorts(scope) ==
  \E done \in ParallelMap(pass.grid) :
    SaveRows("cohorts", scope,
         {[kind |-> "cohort", scope |-> scope, class |-> c.class, area |-> c.area, of |-> c.of,
           features |-> c.features] :
            c \in CohortStats(pass.rt, Sum(pass.stats[scope]), done, InScope(scope, pass.buffered))})
SaveHexStats(scope) ==
  SaveRows("hexes", scope,
       {[kind |-> "hex", scope |-> scope, id |-> s.id, area |-> s.area] : s \in pass.stats[scope]})
SaveSpaceMetrics(scope) ==
  SaveRows("spaces", scope,
       {[kind |-> "spaces", scope |-> scope, id |-> s.id, value |-> s.spaces] :
          s \in {s \in pass.stats[scope] : s.spaces > 0}})
CommitDraft ==
  /\ pass.pc = "commit"
  /\ IF live THEN Goto("published") /\ UNCHANGED table ELSE FailCompute
  /\ UNCHANGED <<town, live, play>>

\* The game's board, made at export from the road features and the grid of
\* the map, which leaves slivers out.
DecayRate == [motorway |-> 2, trunk |-> 2, secondary |-> 3, service |-> 5, residential |-> 4]
CityHexGrid == {h \in ClippedGrid : Cardinality(h.cells) >= town.minArea}
PlayHexes ==
  LET fs == InScope("city", Buffered("roads"))
      Classes == {NormalizeClass(f.tags.highway) : f \in fs}
      Blend(h, Weight(_)) ==
        SumFunction([class \in Classes |-> Weight(class) * HexCoverageArea(h, OfClass(fs, class))])
      Area(h) == Blend(h, LAMBDA class : 1)
  IN {[id |-> h.id, area |-> Area(h), weighted |-> Blend(h, LAMBDA class : DecayRate[class])] :
        h \in {h \in CityHexGrid : Area(h) > 0}}
BuildPlayHexes ==
  /\ pass.pc = "published" /\ pass.rt = "roads" /\ play = {}
  /\ play' = PlayHexes
  /\ UNCHANGED <<town, live, pass, table>>

CoverageNext ==
  \/ CancelCompute \/ LoadFeatures \/ BufferFeatures \/ BuildGrid \/ CommitDraft \/ BuildPlayHexes
  \/ \E scope \in {"all", "city"} :
       \/ HexPass(scope) \/ SaveResult(scope) \/ SaveCohorts(scope)
       \/ SaveHexStats(scope) \/ SaveSpaceMetrics(scope)
CoverageSpec == CoverageInit /\ [][CoverageNext]_coverageVars

-----------------------------------------------------------------------------
\* What the rows should say, from the whole town at once and not hex by hex.
CityLand == IF Clippable THEN town.boundary.cells ELSE UNION {h.cells : h \in HexGrid}
Surviving == UNION {Buffered(rt) : rt \in Sources}
Paved(scope) == CityLand \cap UNION {f.cells : f \in InScope(scope, Surviving)}
RowsIn(kind, scope) == {row \in table : row.kind = kind /\ row.scope = scope}
SumOfRows(kind, scope, Value(_)) == SumFunction([row \in RowsIn(kind, scope) |-> Value(row)])
\* The spaces on the land, in units of 1/Scale.
SpacesOnLand(scope) ==
  SumFunction([f \in InScope(scope, Surviving) |-> ShareOf(f, f.cells \cap CityLand)])

\* Whatever a run has saved of a scope is of the whole town, also when the
\* command is cancelled in the middle of a parallel pass: the area counts each
\* crossing once, the hexes and the road classes add up to it, every feature
\* that was measured is in one class, and the hexes hold every space of a lot.
SavedRowsAreWhole ==
  \A scope \in {"all", "city"} :
    /\ \A row \in RowsIn("result", scope) : row.area = Cardinality(Paved(scope))
    /\ RowsIn("hex", scope) # {} =>
         SumOfRows("hex", scope, LAMBDA row : row.area) = Cardinality(Paved(scope))
    /\ RowsIn("cohort", scope) # {} =>
         /\ \A row \in RowsIn("cohort", scope) :
              SumOfRows("cohort", scope, LAMBDA r : r.area) = Cardinality(Paved(scope)) * row.of
         /\ SumOfRows("cohort", scope, LAMBDA row : row.features)
              = Cardinality(InScope(scope, Surviving))
    /\ RowsIn("spaces", scope) # {} =>
         SumOfRows("spaces", scope, LAMBDA row : row.value) = SpacesOnLand(scope)

\* Who keeps a road by what its tags say outright, whichever rung of the
\* ladder reads them.
Says(tags, level) == level \in {tags.ref.level, tags.operator.level, tags.network.level}
KeptByCity(tags) ==
  /\ ~\E level \in {"county", "state", "federal"} : Says(tags, level)
  /\ tags.highway \notin {"motorway", "motorway_link", "trunk", "trunk_link"}
  /\ tags.highway = "secondary" => tags.operator.level = "city"
CityStreets == {f \in Buffered("roads") : KeptByCity(f.tags)}
Charged == {h.id : h \in {h \in ClippedGrid : HexCoverageArea(h, CityStreets) > 0}}
WholeHexes == {h.id : h \in CityHexGrid}

\* A secondary road of "<city> Transportation Department".
CityTransposed(tags) == tags.highway = "secondary" /\ Transposed \in Names(tags.operator.words)

\* The city is charged for the roads that nobody else keeps, and the board of
\* the game is made of the hexes the map charges it for.
CityIsChargedForItsOwn ==
  /\ pass.pc = "published" /\ pass.rt = "roads"
  /\ \A f \in CityStreets : ~CityTransposed(f.tags)
  => /\ {row.id : row \in RowsIn("hex", "city")} = Charged
     /\ play # {} => {hex.id : hex \in play} = Charged \cap WholeHexes

\* No road of a city's own agency is charged to somebody else: isCityOperator
\* "recognises a transportation department whose qualifier is not a state name".
CityAgenciesKeepTheirRoads ==
  pass.pc = "published" /\ pass.rt = "roads"
    => {row.id : row \in RowsIn("hex", "city")} = Charged
=============================================================================
