----------------------------- MODULE MCPavement -----------------------------
(* Small towns: one road of every kind, reference and keeper; and streets   *)
(* and lots that cross each other and a boundary.                           *)
EXTENDS PavementCoverage

LOCAL Ref(p, sep, rest, level) == [prefix |-> p, sep |-> sep, rest |-> rest, level |-> level]
LOCAL Agency(words, level) == [words |-> words, level |-> level]
LOCAL Refs == {NoRef,
  Ref("I", TRUE, "digits", "federal"), Ref("INTERSTATE", TRUE, "digits", "federal"),
  Ref("US", TRUE, "digits", "federal"), Ref("U.S.", FALSE, "lettered", "federal"),
  Ref("INTERSTATE", FALSE, "digits", "nobody"), Ref("US", TRUE, "word", "nobody"),
  Ref("CR", TRUE, "lettered", "county"), Ref("CTH", TRUE, "letters", "county"),
  Ref("CO", TRUE, "road", "county"), Ref("COUNTY", TRUE, "road", "county"),
  Ref("C", TRUE, "digits", "county"), Ref("C", TRUE, "word", "nobody"),
  Ref("CO", TRUE, "digits", "state"), Ref("MO", TRUE, "letters", "state"), Ref("CA", TRUE, "word", "nobody"),
  Ref("SR", FALSE, "lettered", "state"), Ref("STATE HIGHWAY", TRUE, "digits", "state"),
  Ref("LOOP", TRUE, "digits", "state"), Ref("LOOP", TRUE, "word", "nobody"),
  Ref("M", TRUE, "digits", "state"), Ref("M", TRUE, "word", "nobody"), Ref("BR", TRUE, "digits", "nobody")}
LOCAL Agencies == {NoAgency,
  Agency(<<"nevada", Department>>, "state"), Agency(<<"washington", "state", Department>>, "state"),
  Agency(<<"the", "nc", Department>>, "state"), Agency(<<"nc", "dot">>, "state"),
  Agency(<<"the", "state", Department>>, "state"), Agency(<<Department, "and development">>, "state"),
  Agency(<<"nevada", Transposed>>, "state"), Agency(<<"new york", "state", Transposed>>, "state"),
  Agency(<<"cdot">>, "state"), Agency(<<"caltrans", "district 4">>, "state"),
  Agency(<<"ohio", "state highway", "division">>, "state"),
  Agency(<<"us", Department>>, "federal"), Agency(<<"usdot">>, "federal"),
  Agency(<<"federal", "highway administration">>, "federal"),
  Agency(<<"fairfax", "county", Department>>, "county"), Agency(<<"county", "of", "marin">>, "county"),
  Agency(<<"not", "fdot">>, "nobody"), Agency(<<"not", "usdot">>, "nobody"),
  Agency(<<"columbus", Department>>, "city"), Agency(<<"virginia", "beach", "dot">>, "city"),
  Agency(<<"charlotte", "nc", Department>>, "city"), Agency(<<"columbus", "oh", "dot">>, "city"),
  Agency(<<"city", "of", "reno", Transposed>>, "city"), Agency(<<"boston", Transposed>>, "city"),
  Agency(<<"kansas", "city", "dot">>, "city")}
LOCAL Tags(highway, ref, op, net) ==
  [highway |-> highway, ref |-> ref, operator |-> op, network |-> net,
   width |-> Unstated, lanes |-> Unstated, parking |-> 0, capacity |-> 0, levels |-> 1]
LOCAL Plain == Tags("residential", NoRef, NoAgency, NoAgency)
LOCAL Road(id, type, lines, tags) == [id |-> id, tags |-> tags, geom |-> [type |-> type, lines |-> lines, cells |-> {}]]
LOCAL Lot(id, cells, capacity, levels) ==
  [id |-> id, tags |-> [Plain EXCEPT !.capacity = capacity, !.levels = levels],
   geom |-> [type |-> "Polygon", lines |-> {}, cells |-> cells]]
LOCAL Boundary(stored, parses, cells) == [stored |-> stored, parses |-> parses, cells |-> cells]
LOCAL Square == Boundary(TRUE, TRUE, (0..3) \X (0..2))
LOCAL Walks == {Road("w", "LineString", {<<<<0, 2>>, <<3, 2>>>>}, [Plain EXCEPT !.highway = "pedestrian"])}
LOCAL Town(rt, roads, lots, boundary) ==
  [resource |-> rt, features |-> [roads |-> roads, parking |-> lots, sidewalks |-> Walks], boundary |-> boundary,
   edge |-> 2, minArea |-> 3]

\* One road of every kind and keeper.
LOCAL Street(tags) == Town("roads", {Road("r", "LineString", {<<<<1, 0>>, <<1, 2>>>>}, tags)}, {}, Square)
LOCAL Ways == {"residential", "secondary", "trunk_link", "motorway"}
LOCAL Keepers ==
  {Street(Tags(h, ref, op, NoAgency)) : h \in Ways, ref \in {NoRef, Ref("CR", TRUE, "digits", "county")}, op \in Agencies}
  \cup {Street(Tags("residential", ref, NoAgency, net)) : ref \in Refs, net \in {a \in Agencies : a.level # "city"}}

\* Streets that cross, in and out of the boundary.
LOCAL Cross(tags, other, lots, rt, boundary) ==
  Town(rt,
       {Road("a", "LineString", {<<<<-1, 1>>, <<2, 1>>, <<2, 3>>>>}, tags),
        Road("b", "MultiLineString", {<<<<1, 0>>, <<1, 2>>>>, <<<<3, 2>>>>}, other),
        Road("c", "Point", {}, Plain),
        Road("d", "LineString", {<<<<0, 0>>, <<3, 0>>>>}, Tags("motorway_link", NoRef, NoAgency, NoAgency))},
       lots, boundary)
LOCAL Lots == {{}, {Lot("x", (2..3) \X (1..2), 0, 2), Lot("y", (3..4) \X (2..2), 3, 1), Lot("z", {}, 5, 1)}}
LOCAL Crossings ==
  {Cross(t, o, lots, rt, b) :
     t \in {[Plain EXCEPT !.lanes = 3], [Plain EXCEPT !.lanes = Infinite], [Plain EXCEPT !.parking = 1]},
     o \in {[Plain EXCEPT !.width = 1], Tags("service", NoRef, NoAgency, NoAgency)},
     lots \in Lots, rt \in Resources \cup {"combined"},
     b \in {Square, Boundary(TRUE, FALSE, Square.cells), Boundary(FALSE, TRUE, {})}}
MCTowns == Keepers \cup Crossings
FirstTown == CHOOSE t \in Towns : Cardinality(t.features["roads"]) = 1
=============================================================================
